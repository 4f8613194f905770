------------------------------- MODULE Routes --------------------------------
(***************************************************************************)
(* routelab-w15: how the simulator asks link-state nodes for a path        *)
(* (DRAW_PATH, DRAW_TREE).  Node::GetNextHop of node.cc searches the table *)
(* of one node; SimulationContext::CollectPathLinks of context.cc follows  *)
(* the answers of one node after the other.                                *)
(***************************************************************************)
EXTENDS LinkState, SequencesExt

CONSTANT PerUnit   \* a latency is a multiple of 1/PerUnit

\* Links join two nodes: with one from a node to itself the loop over the row
\* would change the distance of curr_pos on the way.
ASSUME RouteAssumption ==
    /\ Nodes \subseteq Nat /\ IsFiniteSet(Nodes) /\ NONE \notin Nodes
    /\ Latencies \subseteq Nat \ {0}
    /\ PerUnit \in Nat \ {0}
    /\ \A l \in Topology \cup Volatile : l[1] # l[2]
-----------------------------------------------------------------------------
\* dist_map: the node before x on the way to x, and how far x is.  0 is also the
\* distance of a node that has not been reached.
Start(n) ==
    [prev |-> [x \in Nodes |-> x], dist |-> [x \in Nodes |-> 0], visited_nodes |-> {}, curr_pos |-> n]

\* Mutant: the latency of the last link alone.
DistanceLast(n, s, x) == table[n][s.curr_pos][x]

Distance(n, s, x) == s.dist[s.curr_pos] + table[n][s.curr_pos][x]

\* The row of curr_pos in the table of n improves the distances of its neighbors.
Updated(n, s) ==
    LET Closer == {x \in Nodes \ s.visited_nodes :
                      /\ table[n][s.curr_pos][x] # NONE
                      /\ s.dist[x] = 0 \/ Distance(n, s, x) < s.dist[x]}
    IN  [s EXCEPT !.prev = [x \in Nodes |-> IF x \in Closer THEN s.curr_pos ELSE @[x]],
                  !.dist = [x \in Nodes |-> IF x \in Closer THEN Distance(n, s, x) ELSE @[x]]]

\* min_distance is an unsigned: what is compared is the distance rounded down,
\* and 0 counts as no distance at all.
Rounded(d) == (d \div PerUnit) * PerUnit

Candidate(s, x) == x \in Nodes \ s.visited_nodes /\ s.dist[x] > 0

\* The nodes are looked at in the order of the map, that of their numbers;
\* best[k] is what has been found among those below k.
Closest(s) ==
    LET past == Max(Nodes) + 1
        best[k \in 0..past] ==
            IF k = 0 THEN [min_distance |-> 0, curr_pos |-> s.curr_pos]
            ELSE IF /\ Candidate(s, k - 1)
                    /\ best[k - 1].min_distance = 0 \/ s.dist[k - 1] < best[k - 1].min_distance
                 THEN [min_distance |-> Rounded(s.dist[k - 1]), curr_pos |-> k - 1]
            ELSE best[k - 1]
    IN  best[past].curr_pos

Visit(s) ==
    [s EXCEPT !.curr_pos = Closest(s), !.visited_nodes = @ \cup {Closest(s)}]

\* The search for dest.  A round that visits no new node changes nothing, and
\* neither does any after it: the loop goes on for ever.
Search(n, dest) ==
    LET round[k \in 0..Cardinality(Nodes)] ==
            IF k = 0 THEN Start(n)
            ELSE IF dest \in round[k - 1].visited_nodes THEN round[k - 1]
            ELSE Visit(Updated(n, round[k - 1]))
    IN  round[Cardinality(Nodes)]

\* Back from dest to the node whose predecessor is n.
FirstHop(n, dest, s) ==
    LET back[k \in 0..Cardinality(Nodes)] ==
            IF k = 0 THEN dest
            ELSE IF s.prev[back[k - 1]] = n THEN back[k - 1]
            ELSE s.prev[back[k - 1]]
    IN  back[Cardinality(Nodes)]

FindNeighbor(n, hop) == IF <<n, hop>> \in DOMAIN links THEN hop ELSE NONE

\* NONE also stands for a search that does not end, and for a Table that is not there.
GetNextHop(n, dest) ==
    LET s == Search(n, dest)
    IN  IF n \in made /\ dest \in s.visited_nodes
        THEN FindNeighbor(n, FirstHop(n, dest, s))
        ELSE NONE

\* The nodes on the path from src, at most twice as many as there are and one.
\* With NONE it is over: CollectPathLinks prints the number of the next hop
\* before it looks whether there is one.
CollectPathLinks(src, dest) ==
    LET path[k \in 0..(2 * Cardinality(Nodes) + 1)] ==
            IF k = 0 THEN <<src>>
            ELSE IF Last(path[k - 1]) \in {dest, NONE} THEN path[k - 1]
            ELSE Append(path[k - 1], GetNextHop(Last(path[k - 1]), dest))
    IN  path[2 * Cardinality(Nodes) + 1]
-----------------------------------------------------------------------------
\* Every node knows its own links, and rows of all nodes have reached it.
LinksKnown ==
    /\ \A n, d \in Nodes :
          table[n][n][d] = IF <<n, d>> \in DOMAIN links THEN links[<<n, d>>] ELSE NONE
    /\ \A o, n \in Nodes : Reaches(o, n)

IsPath(p) == \A i \in 1..(Len(p) - 1) : <<p[i], p[i + 1]>> \in DOMAIN links

Latency(p) ==
    LET sum[k \in 0..(Len(p) - 1)] == IF k = 0 THEN 0 ELSE sum[k - 1] + links[<<p[k], p[k + 1]>>]
    IN  sum[Len(p) - 1]

PathsBetween(src, dest) ==
    {p \in UNION {[1..k -> Nodes] : k \in 2..Cardinality(Nodes)} :
        p[1] = src /\ Last(p) = dest /\ IsPath(p)}

\* Once the rows have spread, the answers of the nodes, each from a table of its
\* own and with ties broken by itself, fit together: the path that
\* CollectPathLinks draws arrives, over links, and none is shorter.
PathsShortest ==
    Quiet /\ LinksKnown =>
        \A src, dest \in Nodes : src # dest =>
            LET p == CollectPathLinks(src, dest)
            IN  /\ Last(p) = dest /\ IsPath(p)
                /\ \A q \in PathsBetween(src, dest) : Latency(p) <= Latency(q)
=============================================================================
