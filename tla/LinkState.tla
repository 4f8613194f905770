----------------------------- MODULE LinkState ------------------------------
(***************************************************************************)
(* routelab-w15: node.cc built with LINKSTATE, on the simulator of         *)
(* topology.cc, context.cc and eventqueue.cc.                              *)
(*                                                                         *)
(* Each node floods the row of its own links under a sequence number, and  *)
(* passes on every row that is newer than the one it holds.                *)
(*                                                                         *)
(* Time: the queue dispatches the earliest event first.  The CHANGE_LINK   *)
(* events that Init posts at -100, one per link, come before all others.   *)
(* A message takes the latency of its link, which events change while it   *)
(* is under way, so messages are taken in any order here.                  *)
(***************************************************************************)
EXTENDS Naturals, Sequences

CONSTANTS
    Nodes,
    Latencies,
    NONE,         \* no entry in a row
    Topology,     \* the links of the topology file: <<src, dest>> pairs
    Volatile,     \* the links that the event file may add or delete
    MaxChanges    \* bound: link events of the event file

Pairs == Nodes \X Nodes

Row == [Nodes -> Latencies \cup {NONE}]

Empty == [d \in Nodes |-> NONE]

RoutingMessage == [via : Pairs, node_id : Nodes, seq_num : Nat \ {0}, neighbor_map : Row]

ASSUME ConstAssumption ==
    /\ NONE \notin Latencies
    /\ Topology \subseteq Pairs /\ Volatile \subseteq Pairs
    /\ MaxChanges \in Nat

VARIABLES
    links,     \* Topology::links: the latency of each link
    starting,  \* links whose CHANGE_LINK of Init is still in the queue
    queue,     \* ROUTING_MESSAGE_ARRIVAL events
    made,      \* nodes that have allocated their Table
    table,     \* table[n][o]: the row of o in the table of n
    seq_map,   \* seq_map[n][o]: the highest sequence number of o that n has seen
    crashed,   \* the simulator used a Table that is not there
    changes,   \* link events of the event file so far
    log        \* history: the rows each node has flooded; no code reads it

vars == <<links, starting, queue, made, table, seq_map, crashed, changes, log>>
-----------------------------------------------------------------------------
\* SendToNeighbors posts an arrival for each outgoing link.  A node sends a row
\* over a link at most once, so a set holds them all.
Flood(n, id, seq, row) ==
    {[via |-> l, node_id |-> id, seq_num |-> seq, neighbor_map |-> row] :
        l \in {k \in DOMAIN links : k[1] = n}}

\* Mutant: the message is built before the sequence number is incremented.
SeqOfUpdateBefore(n) == seq_map[n][n]

SeqOfUpdate(n) == seq_map[n][n] + 1

\* Mutant: the node keeps its old row and floods only the changed link.
ChangedRowAlone(n, d, lat) == [Empty EXCEPT ![d] = lat]

ChangedRow(n, d, lat) == [table[n][n] EXCEPT ![d] = lat]

\* Node::LinkHasBeenUpdated.  The constructor leaves the pointer to the table
\* uninitialised: the first update finds 0 and makes one, or follows garbage.
LinkHasBeenUpdated(n, d, lat) ==
    \/ /\ made' = made \cup {n}
       /\ table' = [table EXCEPT ![n][n] = ChangedRow(n, d, lat)]
       /\ seq_map' = [seq_map EXCEPT ![n][n] = @ + 1]
       /\ queue' = queue \cup Flood(n, n, SeqOfUpdate(n), ChangedRow(n, d, lat))
       /\ log' = [log EXCEPT ![n] = Append(@, ChangedRow(n, d, lat))]
       /\ UNCHANGED crashed
    \/ /\ n \notin made
       /\ crashed' = TRUE
       /\ UNCHANGED <<made, table, seq_map, queue, log>>

\* Topology::ChangeLink tells the source also of a link that is not there.
ChangeLink(l, lat) ==
    /\ links' = [k \in DOMAIN links |-> IF k = l THEN lat ELSE links[k]]
    /\ LinkHasBeenUpdated(l[1], l[2], lat)

\* SimulationContext::Init.
FirstUpdate(l) ==
    /\ ~ crashed
    /\ l \in starting
    /\ starting' = starting \ {l}
    /\ ChangeLink(l, links[l])
    /\ UNCHANGED changes

\* An event of the event file.
FileEvent ==
    /\ ~ crashed
    /\ starting = {}
    /\ changes < MaxChanges
    /\ changes' = changes + 1
    /\ UNCHANGED starting

Changed(l, lat) == FileEvent /\ ChangeLink(l, lat)

\* Topology::AddLink: a link that is there already is changed instead.
AddLink(l, lat) ==
    /\ FileEvent
    /\ l \notin DOMAIN links
    /\ links' = [k \in DOMAIN links \cup {l} |-> IF k = l THEN lat ELSE links[k]]
    /\ UNCHANGED <<queue, made, table, seq_map, crashed, log>>

DeleteLink(l) ==
    /\ FileEvent
    /\ links' = [k \in DOMAIN links \ {l} |-> links[k]]
    /\ UNCHANGED <<queue, made, table, seq_map, crashed, log>>

\* Mutant: every row is taken, whatever its number.
NewerAlways(n, m) == TRUE

Newer(n, m) == m.seq_num > seq_map[n][m.node_id]

\* Mutant: a node keeps what it learns to itself.
ForwardedNever(n, m) == {}

Forwarded(n, m) == Flood(n, m.node_id, m.seq_num, m.neighbor_map)

\* Node::ProcessIncomingRoutingMessage; a node without a table follows its pointer.
ProcessIncomingRoutingMessage(m) ==
    LET n == m.via[2]
    IN  /\ ~ crashed
        /\ starting = {}
        /\ m \in queue
        /\ \/ /\ ~ Newer(n, m)
              /\ queue' = queue \ {m}
              /\ UNCHANGED <<table, seq_map, crashed>>
           \/ /\ Newer(n, m) /\ n \in made
              /\ table' = [table EXCEPT ![n][m.node_id] = m.neighbor_map]
              /\ seq_map' = [seq_map EXCEPT ![n][m.node_id] = m.seq_num]
              /\ queue' = (queue \ {m}) \cup Forwarded(n, m)
              /\ UNCHANGED crashed
           \/ /\ Newer(n, m) /\ n \notin made
              /\ crashed' = TRUE
              /\ UNCHANGED <<queue, table, seq_map>>
        /\ UNCHANGED <<links, starting, made, changes, log>>
-----------------------------------------------------------------------------
Init ==
    /\ links \in [Topology -> Latencies]
    /\ starting = Topology
    /\ queue = {}
    /\ made = {}
    /\ table = [n \in Nodes |-> [o \in Nodes |-> Empty]]
    /\ seq_map = [n \in Nodes |-> [o \in Nodes |-> 0]]
    /\ crashed = FALSE
    /\ changes = 0
    /\ log = [o \in Nodes |-> <<>>]

\* The simulator takes an event from its queue.
Dispatch ==
    \/ \E l \in Topology : FirstUpdate(l)
    \/ \E m \in queue : ProcessIncomingRoutingMessage(m)

Next ==
    \/ Dispatch
    \/ \E l \in Topology \cup Volatile, lat \in Latencies : Changed(l, lat)
    \/ \E l \in Volatile, lat \in Latencies : AddLink(l, lat)
    \/ \E l \in Volatile : DeleteLink(l)

Spec == Init /\ [][Next]_vars

\* main dispatches events as long as there are any.
FairSpec == Spec /\ WF_vars(Dispatch)
-----------------------------------------------------------------------------
TypeOK ==
    /\ DOMAIN links \subseteq Pairs /\ links \in [DOMAIN links -> Latencies]
    /\ starting \subseteq Topology
    /\ queue \subseteq RoutingMessage
    /\ made \subseteq Nodes
    /\ table \in [Nodes -> [Nodes -> Row]]
    /\ seq_map \in [Nodes -> [Nodes -> Nat]]
    /\ crashed \in BOOLEAN
    /\ changes \in Nat
    /\ log \in [Nodes -> Seq(Row)]

\* The links that are there from beginning to end.
Lasting == Topology \ Volatile

\* What a node holds, the far end of each of its lasting links holds too, or a
\* newer row, or it is on its way over that link: no row is lost in the flood,
\* whichever rows overtake it (node.cc:156-161).
NoRowLost == \A l \in Lasting, o \in Nodes :
    \/ seq_map[l[2]][o] >= seq_map[l[1]][o]
    \/ \E m \in queue : m.via = l /\ m.node_id = o /\ m.seq_num = seq_map[l[1]][o]
    \/ crashed

\* n can be reached from o over lasting links: it is in every set that o is in
\* and that the links do not leave.
Reaches(o, n) ==
    \A S \in SUBSET Nodes :
        o \in S /\ (\A l \in Lasting : l[1] \in S => l[2] \in S) => n \in S

\* When the queue is empty, every node holds the latest row of each node it can
\* be reached from, and that row has the latency every lasting link has now.
Quiet == queue = {} /\ starting = {} /\ ~ crashed

Converged == Quiet =>
    /\ \A o, n \in Nodes : Reaches(o, n) => table[n][o] = table[o][o]
    /\ \A l \in Lasting : table[l[1]][l[1]][l[2]] = links[l]

\* Floods die out: the queue runs empty and, the event file being finite, stays so.
FloodingEnds == <>[](Quiet \/ crashed)

\* Every node's view of every other only moves forward, to rows the other flooded.
Abstract == INSTANCE Views WITH published <- log, version <- seq_map, view <- table

Implements == Abstract!Spec
=============================================================================
