----------------------------- MODULE DistVector ------------------------------
(***************************************************************************)
(* routelab-w15: node.cc and table.h built with DISTANCEVECTOR, on the     *)
(* simulator of topology.cc, context.cc and eventqueue.cc.                 *)
(*                                                                         *)
(* table[n][v][d] is the distance from n to d by way of v.  A message      *)
(* carries a copy of the Node that sent it, and with it the pointer to the *)
(* Table of that node: it is read as it is when the message arrives.  Two  *)
(* messages on one link therefore differ in nothing, and the queue says    *)
(* how many there are.  As in LinkState, any of them may come next.        *)
(***************************************************************************)
EXTENDS Naturals, FiniteSets

CONSTANTS
    Nodes,        \* numbers: a std::map is walked through in their order
    Latencies,
    NONE,         \* no entry in a row
    Garbage,      \* what the memory behind a map holds when read as a distance
    Topologies,   \* topology files: the latency of each <<src, dest>> link
    EventFile,    \* its link events: <<command, link, latency>>
    MaxChanges    \* bound: how many of them there are

Pairs == {l \in Nodes \X Nodes : l[1] # l[2]}

Distance == Nat \cup {NONE}

ASSUME ConstAssumption ==
    /\ Nodes \subseteq Nat /\ IsFiniteSet(Nodes)
    /\ Latencies \subseteq Nat
    /\ Garbage \subseteq Nat /\ Garbage # {}
    /\ NONE \notin Nat
    /\ \A file \in Topologies :
          DOMAIN file \subseteq Pairs /\ file \in [DOMAIN file -> Latencies]
    /\ EventFile \subseteq {"CHANGE_LINK", "ADD_LINK", "DELETE_LINK"} \X Pairs \X Latencies
    /\ MaxChanges \in Nat

VARIABLES
    links,     \* Topology::links: the latency of each link
    starting,  \* links whose CHANGE_LINK of Init is still in the queue
    queue,     \* queue[l]: ROUTING_MESSAGE_ARRIVAL events on their way over l
    made,      \* nodes that have allocated their Table
    table,
    crashed,   \* the simulator used a Table that is not there
    changes,   \* link events of the event file so far
    stale      \* history: <<n, v>> if n has had no message from v since n set
               \* the cost of its link to v, or since a link from v was added

vars == <<links, starting, queue, made, table, crashed, changes, stale>>
-----------------------------------------------------------------------------
\* The rows of n.  No row is without an entry for the neighbor itself.
Rows(n) == {v \in Nodes : table[n][v][v] # NONE}

GetReachableNeighbors(n) == {d \in Nodes : \E v \in Rows(n) : table[n][v][d] # NONE}

\* Whether the first row that is looked at has an entry for d.
FirstRowHas(n, d) ==
    \E v \in Rows(n) : table[n][v][d] # NONE /\ \A k \in Rows(n) : v <= k

Candidates(n, d) == {table[n][v][d] : v \in {k \in Rows(n) : table[n][k][d] # NONE}}

Lowest(S) == CHOOSE m \in S : \A k \in S : m <= k

\* Without an entry in the first row the end of that row is read, g.
GetMinDistance(n, d, g) ==
    Lowest(Candidates(n, d) \cup (IF FirstRowHas(n, d) THEN {} ELSE {g}))

\* SendToNeighbors, for each outgoing link.
Sent(q, n) == [l \in Pairs |-> IF l[1] = n /\ l \in DOMAIN links THEN q[l] + 1 ELSE q[l]]

\* Node::LinkHasBeenUpdated.  The constructor leaves the pointer to the table
\* uninitialised: the first update finds 0 and makes one, or follows garbage.
LinkHasBeenUpdated(n, d, lat) ==
    \/ /\ made' = made \cup {n}
       /\ table' = [table EXCEPT ![n][d][d] = lat]
       /\ queue' = Sent(queue, n)
       /\ stale' = stale \cup {<<n, d>>}
       /\ UNCHANGED crashed
    \/ /\ n \notin made
       /\ crashed' = TRUE
       /\ UNCHANGED <<made, table, queue, stale>>

\* Topology::ChangeLink tells the source also of a link that is not there.
ChangeLink(l, lat) ==
    /\ links' = [k \in DOMAIN links |-> IF k = l THEN lat ELSE links[k]]
    /\ LinkHasBeenUpdated(l[1], l[2], lat)

\* SimulationContext::Init.
FirstUpdate(l) ==
    /\ ~ crashed
    /\ l \in starting
    /\ starting' = starting \ {l}
    /\ ChangeLink(l, links[l])
    /\ UNCHANGED changes

\* An event of the event file.
FileEvent ==
    /\ ~ crashed
    /\ starting = {}
    /\ changes < MaxChanges
    /\ changes' = changes + 1
    /\ UNCHANGED starting

\* ADD_LINK of a link that is there already changes it.
Changed(l, lat) ==
    /\ FileEvent
    /\ \/ <<"CHANGE_LINK", l, lat>> \in EventFile
       \/ <<"ADD_LINK", l, lat>> \in EventFile /\ l \in DOMAIN links
    /\ ChangeLink(l, lat)

AddLink(l, lat) ==
    /\ FileEvent
    /\ <<"ADD_LINK", l, lat>> \in EventFile
    /\ l \notin DOMAIN links
    /\ links' = [k \in DOMAIN links \cup {l} |-> IF k = l THEN lat ELSE links[k]]
    /\ stale' = stale \cup {<<l[2], l[1]>>}
    /\ UNCHANGED <<queue, made, table, crashed>>

DeleteLink(l, lat) ==
    /\ FileEvent
    /\ <<"DELETE_LINK", l, lat>> \in EventFile
    /\ links' = [k \in DOMAIN links \ {l} |-> links[k]]
    /\ UNCHANGED <<queue, made, table, crashed, stale>>

\* A link that n has not been told of costs nothing.
Cost(n, v) == IF table[n][v][v] = NONE THEN 0 ELSE table[n][v][v]

\* Mutant: the receiver's own number is not left out.
LearnedOwn(n, v, g) ==
    [d \in Nodes |->
        IF d \in GetReachableNeighbors(v) THEN GetMinDistance(v, d, g[d]) + Cost(n, v)
        ELSE table[n][v][d]]

\* Mutant: only a shorter distance is taken, as the comment in the code has it.
LearnedShorter(n, v, g) ==
    LET neighbors == GetReachableNeighbors(v) \ {n}
        found(d) == GetMinDistance(v, d, g[d]) + Cost(n, v)
    IN  [d \in Nodes |->
            IF d \in neighbors /\ (table[n][v][d] = NONE \/ found(d) < table[n][v][d]) THEN found(d)
            ELSE IF d = v /\ neighbors # {} THEN Cost(n, v)
            ELSE table[n][v][d]]

\* The row of v in the table of n after a message from v.
Learned(n, v, g) ==
    LET neighbors == GetReachableNeighbors(v) \ {n}
    IN  [d \in Nodes |->
            IF d \in neighbors THEN GetMinDistance(v, d, g[d]) + Cost(n, v)
            ELSE IF d = v /\ neighbors # {} THEN Cost(n, v)
            ELSE table[n][v][d]]

\* Mutant: the earliest event stays in the queue.
Looked(l) == queue

\* GetEarliestEvent.
Taken(l) == [queue EXCEPT ![l] = @ - 1]

\* Node::ProcessIncomingRoutingMessage: any other distance is taken, be it
\* shorter or not.
ProcessIncomingRoutingMessage(l) ==
    LET v == l[1]
        n == l[2]
    IN  /\ ~ crashed
        /\ starting = {}
        /\ queue[l] > 0
        /\ \/ /\ n \in made \/ GetReachableNeighbors(v) \ {n} = {}
              /\ \E g \in [Nodes -> Garbage] :
                   table' = [table EXCEPT ![n][v] = Learned(n, v, g)]
              /\ queue' = IF table' # table THEN Sent(Taken(l), n) ELSE Taken(l)
              /\ stale' = stale \ {<<n, v>>}
              /\ UNCHANGED crashed
           \/ /\ n \notin made /\ GetReachableNeighbors(v) \ {n} # {}
              /\ crashed' = TRUE
              /\ UNCHANGED <<queue, table, stale>>
        /\ UNCHANGED <<links, starting, made, changes>>
-----------------------------------------------------------------------------
Init ==
    /\ links \in Topologies
    /\ starting = DOMAIN links
    /\ queue = [l \in Pairs |-> 0]
    /\ made = {}
    /\ table = [n \in Nodes |-> [v \in Nodes |-> [d \in Nodes |-> NONE]]]
    /\ crashed = FALSE
    /\ changes = 0
    /\ stale = {}

\* The simulator takes an event from its queue.
Dispatch ==
    \/ \E l \in Pairs : FirstUpdate(l)
    \/ \E l \in Pairs : ProcessIncomingRoutingMessage(l)

Next ==
    \/ Dispatch
    \/ \E l \in Pairs, lat \in Latencies : Changed(l, lat) \/ AddLink(l, lat) \/ DeleteLink(l, lat)

Spec == Init /\ [][Next]_vars

\* main dispatches events as long as there are any.
FairSpec == Spec /\ WF_vars(Dispatch)
-----------------------------------------------------------------------------
\* The type invariant.  A node never has a distance to itself.
TypeOK ==
    /\ DOMAIN links \subseteq Pairs /\ links \in [DOMAIN links -> Latencies]
    /\ starting \subseteq DOMAIN links
    /\ queue \in [Pairs -> Nat]
    /\ made \subseteq Nodes
    /\ table \in [Nodes -> [Nodes -> [Nodes -> Distance]]]
    /\ \A n, v \in Nodes : table[n][v][n] = NONE
    /\ crashed \in BOOLEAN
    /\ changes \in Nat
    /\ stale \subseteq Pairs

\* What n has learned from v agrees with the table of v as it is now, unless a
\* message is on its way or the cost of the link has changed since the last one:
\* no change of a table is missed, though messages overtake each other and are
\* read later than they were sent (node.cc:296-325).
RowsFollow == \A l \in DOMAIN links :
    LET v == l[1]
        n == l[2]
    IN  queue[l] = 0 /\ <<n, v>> \notin stale /\ ~ crashed =>
            \A d \in GetReachableNeighbors(v) \ {n} :
                \E g \in Garbage : table[n][v][d] = GetMinDistance(v, d, g) + Cost(n, v)

\* Mutant: rows are compared by the cost of their link.
CheapestNeighbor(n, d) ==
    CHOOSE v \in Rows(n) : \A k \in Rows(n) : table[n][v][v] <= table[n][k][k]

\* Node::GetNextHop: the first row with the least distance.  A row without an
\* entry for d counts as distance 0.
GetNextHop(n, d) ==
    LET distance(v) == IF table[n][v][d] = NONE THEN 0 ELSE table[n][v][d]
    IN  CHOOSE v \in Rows(n) : \A k \in Rows(n) :
            distance(v) < distance(k) \/ (distance(v) = distance(k) /\ v <= k)

Quiet == (\A l \in Pairs : queue[l] = 0) /\ starting = {} /\ ~ crashed

\* Every node has a row for each of its links, with its latency, and no other.
LinksKnown == \A n \in Nodes :
    /\ Rows(n) = {v \in Nodes : <<n, v>> \in DOMAIN links}
    /\ \A v \in Rows(n) : table[n][v][v] = links[<<n, v>>]

\* The lengths of the walks over at most k links, for each pair of ends.
Lengths(k) ==
    LET walks[j \in 0..k] ==
            [p \in Nodes \X Nodes |->
                (IF p[1] = p[2] THEN {0} ELSE {})
                \cup (IF j = 0 THEN {} ELSE
                      UNION {{links[l] + x : x \in walks[j - 1][<<l[2], p[2]>>]} :
                                l \in {m \in DOMAIN links : m[1] = p[1]}})]
    IN  walks[k]

\* When no message is on its way, every link is known to its source and has not
\* changed since its other end last sent, GetNextHop leads along a shortest path.
RoutesShortest ==
    /\ Quiet /\ LinksKnown
    /\ \A l \in DOMAIN links : <<l[2], l[1]>> \in DOMAIN links \ stale
    =>
        LET lengths == Lengths(Cardinality(Nodes))
        IN  \A n, d \in Nodes : n # d /\ lengths[<<n, d>>] # {} =>
                LET v == GetNextHop(n, d)
                IN  /\ <<n, v>> \in DOMAIN links
                    /\ links[<<n, v>>] + Lowest(lengths[<<v, d>>]) = Lowest(lengths[<<n, d>>])

\* Distances settle: after the last event of the event file the messages run out.
Settles == <>[](Quiet \/ crashed)
=============================================================================
