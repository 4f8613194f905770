-------------------------- MODULE LinkState_proofs --------------------------
(***************************************************************************)
(* What the link-state nodes of routelab-w15 guarantee for any number of   *)
(* nodes, any topology and any order of arrival: rows are never lost,      *)
(* views only move forward, a quiet network agrees, and the paths that     *)
(* follow the tables of its nodes are the shortest.                        *)
(*                                                                         *)
(* StepKinds sorts the steps of Next into four kinds.  Each invariant is   *)
(* then shown to survive each kind.                                        *)
(***************************************************************************)
EXTENDS Routes, FiniteSetTheorems, WellFoundedInduction, TLAPS

\* A node tells its neighbours of a link of its own.
Told(l, lat) ==
    LET n == l[1]
        row == ChangedRow(n, l[2], lat)
    IN  /\ links' = [k \in DOMAIN links |-> IF k = l THEN lat ELSE links[k]]
        /\ starting' \subseteq starting /\ starting \subseteq starting' \cup {l}
        /\ table' = [table EXCEPT ![n][n] = row]
        /\ seq_map' = [seq_map EXCEPT ![n][n] = @ + 1]
        /\ queue' = queue \cup Flood(n, n, seq_map[n][n] + 1, row)
        /\ log' = [log EXCEPT ![n] = Append(@, row)]
        /\ made' \subseteq Nodes
        /\ crashed' = crashed

\* A message that is not news is dropped.
Dropped(m) ==
    /\ ~ Newer(m.via[2], m)
    /\ queue' = queue \ {m}
    /\ UNCHANGED <<links, starting, table, seq_map, log, made, crashed>>

\* A message that is news is kept and passed on.
Learned(m) ==
    LET n == m.via[2]
    IN  /\ Newer(n, m)
        /\ table' = [table EXCEPT ![n][m.node_id] = m.neighbor_map]
        /\ seq_map' = [seq_map EXCEPT ![n][m.node_id] = m.seq_num]
        /\ queue' = (queue \ {m}) \cup Flood(n, m.node_id, m.seq_num, m.neighbor_map)
        /\ UNCHANGED <<links, starting, log, made, crashed>>

\* A link that is still to be announced is there, and so is every lasting one.
LinksKept == starting \cup Lasting \subseteq DOMAIN links

\* No table changes: volatile links come and go, or the simulator crashes.
Elsewhere ==
    /\ UNCHANGED <<table, seq_map, queue, log, made>>
    /\ DOMAIN links' \subseteq Pairs /\ links' \in [DOMAIN links' -> Latencies]
    /\ LinksKept => LinksKept'
    /\ starting' \subseteq starting
    /\ \/ crashed' = TRUE
       \/ /\ crashed' = crashed /\ starting' = starting
          /\ \A l \in Lasting : l \in DOMAIN links => links'[l] = links[l]

Step ==
    \/ Elsewhere
    \/ \E l \in Pairs, lat \in Latencies : Told(l, lat)
    \/ \E m \in queue : Dropped(m) \/ Learned(m)

LEMMA ChangeKinds ==
    ASSUME TypeOK, NEW l \in Pairs, NEW lat \in Latencies, ChangeLink(l, lat),
           starting' \subseteq starting, starting \subseteq starting' \cup {l}
    PROVE  Told(l, lat) \/ Elsewhere
<1>1. l[1] \in Nodes
  BY DEF Pairs
<1>2. CASE UNCHANGED crashed /\ made' = made \cup {l[1]}
           /\ table' = [table EXCEPT ![l[1]][l[1]] = ChangedRow(l[1], l[2], lat)]
           /\ seq_map' = [seq_map EXCEPT ![l[1]][l[1]] = @ + 1]
           /\ queue' = queue \cup Flood(l[1], l[1], SeqOfUpdate(l[1]), ChangedRow(l[1], l[2], lat))
           /\ log' = [log EXCEPT ![l[1]] = Append(@, ChangedRow(l[1], l[2], lat))]
  <2>1. made' \subseteq Nodes
    BY <1>1, <1>2 DEF TypeOK
  <2> QED
    BY <1>2, <2>1 DEF ChangeLink, Told, SeqOfUpdate
<1>3. CASE crashed' = TRUE /\ UNCHANGED <<made, table, seq_map, queue, log>>
  <2>1. links' = [k \in DOMAIN links |-> IF k = l THEN lat ELSE links[k]]
    BY DEF ChangeLink
  <2>2. DOMAIN links' = DOMAIN links /\ links' \in [DOMAIN links -> Latencies]
    BY <2>1 DEF TypeOK
  <2>3. LinksKept => LinksKept'
    BY <2>2 DEF LinksKept, Lasting
  <2> QED
    BY <1>3, <2>2, <2>3 DEF Elsewhere, TypeOK
<1> QED
  BY <1>2, <1>3 DEF ChangeLink, LinkHasBeenUpdated

LEMMA StepKinds == ASSUME TypeOK, LinksKept, [Next]_vars PROVE Step
<1>1. Topology \subseteq Pairs /\ Volatile \subseteq Pairs
  BY ConstAssumption
<1>2. ASSUME NEW l \in Topology, FirstUpdate(l) PROVE Step
  <2>1. l \in Pairs /\ links[l] \in Latencies
    BY <1>1, <1>2 DEF TypeOK, LinksKept, FirstUpdate
  <2>2. Told(l, links[l]) \/ Elsewhere
    <3>1. ChangeLink(l, links[l])
      BY <1>2 DEF FirstUpdate
    <3>2. starting' \subseteq starting /\ starting \subseteq starting' \cup {l}
      BY <1>2 DEF FirstUpdate
    <3> QED
      BY <2>1, <3>1, <3>2, ChangeKinds
  <2> QED
    BY <2>1, <2>2 DEF Step
<1>3. ASSUME NEW m \in queue, ProcessIncomingRoutingMessage(m) PROVE Step
  <2>1. CASE ~ Newer(m.via[2], m)
    <3>1. Dropped(m)
      BY <1>3, <2>1 DEF ProcessIncomingRoutingMessage, Dropped
    <3> QED
      BY <3>1 DEF Step
  <2>2. CASE Newer(m.via[2], m) /\ crashed' = TRUE /\ UNCHANGED <<queue, table, seq_map>>
    <3>1. Elsewhere
      BY <1>3, <2>2 DEF ProcessIncomingRoutingMessage, Elsewhere, TypeOK, LinksKept, Lasting
    <3> QED
      BY <3>1 DEF Step
  <2>3. CASE Newer(m.via[2], m) /\ m.via[2] \in made /\ UNCHANGED crashed
    <3>1. Learned(m)
      BY <1>3, <2>3 DEF ProcessIncomingRoutingMessage, Learned, Forwarded
    <3> QED
      BY <3>1 DEF Step
  <2> QED
    BY <1>3, <2>1, <2>2, <2>3 DEF ProcessIncomingRoutingMessage
<1>4. ASSUME NEW l \in Topology \cup Volatile, NEW lat \in Latencies, Changed(l, lat)
      PROVE  Step
  <2>1. l \in Pairs
    BY <1>1
  <2>2. Told(l, lat) \/ Elsewhere
    <3>1. ChangeLink(l, lat)
      BY <1>4 DEF Changed
    <3>2. starting' \subseteq starting /\ starting \subseteq starting' \cup {l}
      BY <1>4 DEF Changed, FileEvent
    <3> QED
      BY <2>1, <3>1, <3>2, ChangeKinds
  <2> QED
    BY <2>1, <2>2 DEF Step
<1>5. ASSUME NEW l \in Volatile, NEW lat \in Latencies, AddLink(l, lat) PROVE Step
  <2>1. links' = [k \in DOMAIN links \cup {l} |-> IF k = l THEN lat ELSE links[k]]
    BY <1>5 DEF AddLink
  <2>2. DOMAIN links' = DOMAIN links \cup {l} /\ l \in Pairs
    BY <1>1, <2>1
  <2>3. links' \in [DOMAIN links' -> Latencies]
    BY <2>1, <2>2 DEF TypeOK
  <2>4. \A k \in DOMAIN links : links'[k] = links[k]
    BY <1>5, <2>1 DEF AddLink
  <2>5. LinksKept => LinksKept'
    BY <1>5, <2>2 DEF AddLink, FileEvent, LinksKept, Lasting
  <2>6. Elsewhere
    BY <1>5, <2>2, <2>3, <2>4, <2>5 DEF AddLink, FileEvent, Elsewhere, TypeOK
  <2> QED
    BY <2>6 DEF Step
<1>6. ASSUME NEW l \in Volatile, DeleteLink(l) PROVE Step
  <2>1. links' = [k \in DOMAIN links \ {l} |-> links[k]]
    BY <1>6 DEF DeleteLink
  <2>2. DOMAIN links' = DOMAIN links \ {l} /\ l \notin Lasting
    BY <2>1 DEF Lasting
  <2>3. links' \in [DOMAIN links' -> Latencies]
    BY <2>1, <2>2 DEF TypeOK
  <2>4. \A k \in Lasting : k \in DOMAIN links => links'[k] = links[k]
    BY <2>1, <2>2
  <2>5. LinksKept => LinksKept'
    BY <1>6, <2>2 DEF DeleteLink, FileEvent, LinksKept, Lasting
  <2>6. Elsewhere
    BY <1>6, <2>2, <2>3, <2>4, <2>5 DEF DeleteLink, FileEvent, Elsewhere, TypeOK
  <2> QED
    BY <2>6 DEF Step
<1>7. ASSUME UNCHANGED vars PROVE Step
  <2>1. Elsewhere
    BY <1>7 DEF vars, Elsewhere, TypeOK, LinksKept, Lasting
  <2> QED
    BY <2>1 DEF Step
<1> QED
  BY <1>2, <1>3, <1>4, <1>5, <1>6, <1>7 DEF Next, Dispatch

-----------------------------------------------------------------------------
(***************************************************************************)
(* Types.                                                                  *)
(***************************************************************************)

LEMMA FloodType ==
    ASSUME TypeOK, NEW n \in Nodes, NEW id \in Nodes, NEW seq \in Nat \ {0}, NEW row \in Row
    PROVE  Flood(n, id, seq, row) \subseteq RoutingMessage
<1> QED
  BY DEF TypeOK, Flood, RoutingMessage

LEMMA ChangedRowType ==
    ASSUME TypeOK, NEW n \in Nodes, NEW d \in Nodes, NEW lat \in Latencies
    PROVE  /\ ChangedRow(n, d, lat) \in Row
           /\ ChangedRow(n, d, lat)[d] = lat
           /\ \A e \in Nodes \ {d} : ChangedRow(n, d, lat)[e] = table[n][n][e]
<1>1. table[n][n] \in Row
  BY DEF TypeOK
<1> QED
  BY <1>1 DEF ChangedRow, Row

\* In every step: the tables stay tables, and every link stays a pair.
\* Every step leaves the tables well formed.
TypesKept ==
    /\ DOMAIN links' \subseteq Pairs /\ links' \in [DOMAIN links' -> Latencies]
    /\ queue' \subseteq RoutingMessage
    /\ made' \subseteq Nodes
    /\ table' \in [Nodes -> [Nodes -> Row]]
    /\ seq_map' \in [Nodes -> [Nodes -> Nat]]
    /\ log' \in [Nodes -> Seq(Row)]
    /\ starting' \subseteq starting
    /\ crashed' \in BOOLEAN
    /\ LinksKept => LinksKept'

LEMMA StepType == ASSUME TypeOK, Step PROVE TypesKept
<1>1. ASSUME Elsewhere PROVE TypesKept
  BY <1>1 DEF TypesKept, Elsewhere, TypeOK
<1>2. ASSUME NEW l \in Pairs, NEW lat \in Latencies, Told(l, lat)
      PROVE  TypesKept
  <2> DEFINE n == l[1]
             row == ChangedRow(n, l[2], lat)
  <2>1. n \in Nodes /\ l[2] \in Nodes
    BY DEF Pairs
  <2>2. row \in Row
    BY <2>1, ChangedRowType
  <2>3. seq_map[n][n] + 1 \in Nat \ {0}
    BY <2>1 DEF TypeOK
  <2>4. Flood(n, n, seq_map[n][n] + 1, row) \subseteq RoutingMessage
    BY <2>1, <2>2, <2>3, FloodType
  <2>5. DOMAIN links' = DOMAIN links /\ links' \in [DOMAIN links -> Latencies]
    <3>1. links' = [k \in DOMAIN links |-> IF k = l THEN lat ELSE links[k]]
      BY <1>2 DEF Told
    <3> QED
      BY <3>1 DEF TypeOK
  <2>6. queue' \subseteq RoutingMessage /\ made' \subseteq Nodes
    BY <1>2, <2>4 DEF Told, TypeOK
  <2>7. table' \in [Nodes -> [Nodes -> Row]]
    BY <1>2, <2>1, <2>2 DEF Told, TypeOK
  <2>8. seq_map' \in [Nodes -> [Nodes -> Nat]]
    BY <1>2, <2>1, <2>3 DEF Told, TypeOK
  <2>9. log' \in [Nodes -> Seq(Row)]
    BY <1>2, <2>1, <2>2 DEF Told, TypeOK
  <2>10. starting' \subseteq starting /\ crashed' \in BOOLEAN
    BY <1>2 DEF Told, TypeOK
  <2>11. LinksKept => LinksKept'
    BY <2>5, <2>10 DEF LinksKept, Lasting
  <2>12. DOMAIN links' \subseteq Pairs /\ links' \in [DOMAIN links' -> Latencies]
    BY <2>5 DEF TypeOK
  <2> QED
    BY <2>6, <2>7, <2>8, <2>9, <2>10, <2>11, <2>12 DEF TypesKept
<1>3. ASSUME NEW m \in queue, Dropped(m) PROVE TypesKept
  BY <1>3 DEF TypesKept, Dropped, TypeOK, LinksKept, Lasting
<1>4. ASSUME NEW m \in queue, Learned(m) PROVE TypesKept
  <2>1. m.via[2] \in Nodes /\ m.node_id \in Nodes /\ m.seq_num \in Nat \ {0}
        /\ m.neighbor_map \in Row
    BY DEF TypeOK, RoutingMessage, Pairs
  <2>2. Flood(m.via[2], m.node_id, m.seq_num, m.neighbor_map) \subseteq RoutingMessage
    BY <2>1, FloodType
  <2>3. queue' \subseteq RoutingMessage
    BY <1>4, <2>2 DEF Learned, TypeOK
  <2>4. table' \in [Nodes -> [Nodes -> Row]]
    BY <1>4, <2>1 DEF Learned, TypeOK
  <2>5. seq_map' \in [Nodes -> [Nodes -> Nat]]
    BY <1>4, <2>1 DEF Learned, TypeOK
  <2> QED
    BY <1>4, <2>3, <2>4, <2>5 DEF TypesKept, Learned, TypeOK, LinksKept, Lasting
<1> QED
  BY <1>1, <1>2, <1>3, <1>4 DEF Step

LEMMA TypeInit == Init => TypeOK /\ LinksKept
<1> SUFFICES ASSUME Init PROVE TypeOK /\ LinksKept
  OBVIOUS
<1>1. DOMAIN links = Topology /\ links \in [DOMAIN links -> Latencies]
  BY DEF Init
<1>2. Empty \in Row
  BY DEF Empty, Row
<1>3. <<>> \in Seq(Row)
  OBVIOUS
<1>4. log \in [Nodes -> Seq(Row)]
  BY <1>3 DEF Init
<1>5. table \in [Nodes -> [Nodes -> Row]] /\ seq_map \in [Nodes -> [Nodes -> Nat]]
  BY <1>2 DEF Init
<1> QED
  BY <1>1, <1>4, <1>5, ConstAssumption DEF Init, TypeOK, LinksKept, Lasting

LEMMA TypeStep == TypeOK /\ LinksKept /\ [Next]_vars => TypeOK' /\ LinksKept'
<1> SUFFICES ASSUME TypeOK, LinksKept, [Next]_vars PROVE TypeOK' /\ LinksKept'
  OBVIOUS
<1>1. changes' \in {changes, changes + 1}
  BY DEF Next, Dispatch, FirstUpdate, ProcessIncomingRoutingMessage, Changed,
         AddLink, DeleteLink, FileEvent, vars
<1>2. Step
  BY StepKinds
<1> QED
  BY <1>1, <1>2, StepType DEF TypesKept, TypeOK

\* Every variable keeps its type, whatever the events and the order of arrival.
THEOREM TypeCorrect == Spec => []TypeOK
<1>1. TypeOK /\ LinksKept /\ [Next]_vars => TypeOK' /\ LinksKept'
  BY TypeStep
<1> QED
  BY TypeInit, <1>1, PTL DEF Spec

-----------------------------------------------------------------------------
(***************************************************************************)
(* Rows: what a node holds, or is sent, is a row that its owner flooded.   *)
(***************************************************************************)

HeldRows ==
    /\ \A o \in Nodes : seq_map[o][o] = Len(log[o])
    /\ \A n, o \in Nodes :
        \/ seq_map[n][o] = 0 /\ table[n][o] = Empty
        \/ seq_map[n][o] \in DOMAIN log[o] /\ table[n][o] = log[o][seq_map[n][o]]

SentRows == \A m \in queue :
    m.seq_num \in DOMAIN log[m.node_id] /\ m.neighbor_map = log[m.node_id][m.seq_num]

Rows == HeldRows /\ SentRows

LEMMA MessageType ==
    ASSUME TypeOK, NEW m \in queue
    PROVE  /\ m.via \in Pairs /\ m.via[1] \in Nodes /\ m.via[2] \in Nodes
           /\ m.node_id \in Nodes /\ m.seq_num \in Nat \ {0} /\ m.neighbor_map \in Row
<1> QED
  BY DEF TypeOK, RoutingMessage, Pairs

\* Nobody sends a node news about itself.
LEMMA OwnRowIsLatest ==
    ASSUME TypeOK, Rows, NEW m \in queue, Newer(m.via[2], m)
    PROVE  m.node_id # m.via[2]
<1>1. SUFFICES ASSUME m.node_id = m.via[2] PROVE FALSE
  OBVIOUS
<1>2. m.via[2] \in Nodes /\ m.seq_num \in Nat
  BY MessageType
<1>3. m.seq_num > Len(log[m.node_id])
  BY <1>1, <1>2 DEF Newer, Rows, HeldRows
<1>4. m.seq_num \in DOMAIN log[m.node_id] /\ log[m.node_id] \in Seq(Row)
  BY <1>1, <1>2 DEF Rows, SentRows, TypeOK
<1> QED
  BY <1>2, <1>3, <1>4

LEMMA RowsStep == ASSUME TypeOK, Rows, Step PROVE Rows'
<1>1. ASSUME Elsewhere PROVE Rows'
  BY <1>1 DEF Elsewhere, Rows, HeldRows, SentRows
<1>2. ASSUME NEW l \in Pairs, NEW lat \in Latencies, Told(l, lat) PROVE Rows'
  <2> DEFINE n == l[1]
             row == ChangedRow(n, l[2], lat)
  <2>1. n \in Nodes /\ l[2] \in Nodes
    BY DEF Pairs
  <2>2. row \in Row
    BY <2>1, ChangedRowType
  <2>3. /\ log[n] \in Seq(Row) /\ seq_map[n][n] = Len(log[n])
        /\ \A o \in Nodes : log[o] \in Seq(Row)
    BY <2>1 DEF TypeOK, Rows, HeldRows
  <2>4. /\ log' = [log EXCEPT ![n] = Append(@, row)]
        /\ seq_map' = [seq_map EXCEPT ![n][n] = @ + 1]
        /\ table' = [table EXCEPT ![n][n] = row]
        /\ queue' = queue \cup Flood(n, n, seq_map[n][n] + 1, row)
    BY <1>2 DEF Told
  <2> HIDE DEF row
  <2>5. /\ log'[n] \in Seq(Row) /\ Len(log'[n]) = Len(log[n]) + 1
        /\ Len(log[n]) + 1 \in DOMAIN log'[n]
        /\ log'[n][Len(log[n]) + 1] = row
        /\ \A k \in DOMAIN log[n] : k \in DOMAIN log'[n] /\ log'[n][k] = log[n][k]
    <3>1. log'[n] = Append(log[n], row)
      BY <2>1, <2>4 DEF TypeOK
    <3> QED
      BY <2>2, <2>3, <3>1
  <2>6. \A o \in Nodes \ {n} : log'[o] = log[o]
    BY <2>1, <2>4 DEF TypeOK
  <2>7. \A o \in Nodes, k \in Nat :
          k \in DOMAIN log[o] => k \in DOMAIN log'[o] /\ log'[o][k] = log[o][k]
    BY <2>5, <2>6
  <2>8. seq_map'[n][n] = Len(log[n]) + 1 /\ table'[n][n] = row
    BY <2>1, <2>3, <2>4 DEF TypeOK
  <2>9. \A x, o \in Nodes : ~ (x = n /\ o = n) =>
          seq_map'[x][o] = seq_map[x][o] /\ table'[x][o] = table[x][o]
    BY <2>1, <2>4 DEF TypeOK
  <2>10. \A x, o \in Nodes : seq_map[x][o] \in Nat
    BY DEF TypeOK
  <2>11. HeldRows'
    <3>1. \A o \in Nodes : seq_map'[o][o] = Len(log'[o])
      BY <2>5, <2>6, <2>8, <2>9 DEF Rows, HeldRows
    <3>2. ASSUME NEW x \in Nodes, NEW o \in Nodes
          PROVE  \/ seq_map'[x][o] = 0 /\ table'[x][o] = Empty
                 \/ seq_map'[x][o] \in DOMAIN log'[o] /\ table'[x][o] = log'[o][seq_map'[x][o]]
      <4>1. CASE x = n /\ o = n
        BY <2>5, <2>8, <4>1
      <4>2. CASE ~ (x = n /\ o = n)
        <5>1. seq_map'[x][o] = seq_map[x][o] /\ table'[x][o] = table[x][o]
          BY <2>9, <4>2
        <5> QED
          BY <2>7, <2>10, <5>1 DEF Rows, HeldRows
      <4> QED
        BY <4>1, <4>2
    <3> QED
      BY <3>1, <3>2 DEF HeldRows
  <2>12. SentRows'
    <3>1. SUFFICES ASSUME NEW m \in queue'
                   PROVE  /\ m.seq_num \in DOMAIN log'[m.node_id]
                          /\ m.neighbor_map = log'[m.node_id][m.seq_num]
      BY DEF SentRows
    <3>2. CASE m \in queue
      <4>1. m.node_id \in Nodes /\ m.seq_num \in Nat
        BY <3>2, MessageType
      <4> QED
        BY <2>7, <3>2, <4>1 DEF Rows, SentRows
    <3>3. CASE m \in Flood(n, n, seq_map[n][n] + 1, row)
      <4>1. m.node_id = n /\ m.seq_num = Len(log[n]) + 1 /\ m.neighbor_map = row
        BY <2>3, <3>3 DEF Flood
      <4> QED
        BY <2>5, <4>1
    <3> QED
      BY <2>4, <3>2, <3>3
  <2> QED
    BY <2>11, <2>12 DEF Rows
<1>3. ASSUME NEW m \in queue, Dropped(m) PROVE Rows'
  BY <1>3 DEF Dropped, Rows, HeldRows, SentRows
<1>4. ASSUME NEW m \in queue, Learned(m) PROVE Rows'
  <2> DEFINE n == m.via[2]
             o == m.node_id
  <2>1. n \in Nodes /\ o \in Nodes /\ m.seq_num \in Nat \ {0} /\ m.neighbor_map \in Row
    BY MessageType
  <2>2. n # o
    BY <1>4, OwnRowIsLatest DEF Learned
  <2>3. m.seq_num \in DOMAIN log[o] /\ m.neighbor_map = log[o][m.seq_num]
    BY DEF Rows, SentRows
  <2>4. log' = log /\ seq_map' = [seq_map EXCEPT ![n][o] = m.seq_num]
        /\ table' = [table EXCEPT ![n][o] = m.neighbor_map]
        /\ queue' = (queue \ {m}) \cup Flood(n, o, m.seq_num, m.neighbor_map)
    BY <1>4 DEF Learned
  <2>5. seq_map'[n][o] = m.seq_num /\ table'[n][o] = m.neighbor_map
    BY <2>1, <2>4 DEF TypeOK
  <2>6. \A x, p \in Nodes : ~ (x = n /\ p = o) =>
          seq_map'[x][p] = seq_map[x][p] /\ table'[x][p] = table[x][p]
    BY <2>1, <2>4 DEF TypeOK
  <2>7. HeldRows'
    BY <2>2, <2>3, <2>4, <2>5, <2>6 DEF Rows, HeldRows
  <2>8. \A k \in Flood(n, o, m.seq_num, m.neighbor_map) :
          k.node_id = o /\ k.seq_num = m.seq_num /\ k.neighbor_map = m.neighbor_map
    BY DEF Flood
  <2>9. SentRows'
    BY <2>3, <2>4, <2>8 DEF Rows, SentRows
  <2> QED
    BY <2>7, <2>9 DEF Rows
<1> QED
  BY <1>1, <1>2, <1>3, <1>4 DEF Step

-----------------------------------------------------------------------------
(***************************************************************************)
(* No row is lost.                                                         *)
(***************************************************************************)

LEMMA LastingPairs == \A l \in Lasting : l \in Pairs /\ l[1] \in Nodes /\ l[2] \in Nodes
<1> QED
  BY ConstAssumption DEF Lasting, Pairs

LEMMA FloodCovers ==
    ASSUME LinksKept, NEW l \in Lasting, NEW id, NEW seq, NEW row
    PROVE  \E m \in Flood(l[1], id, seq, row) : m.via = l /\ m.node_id = id /\ m.seq_num = seq
<1>1. l \in {k \in DOMAIN links : k[1] = l[1]}
  BY DEF LinksKept
<1> DEFINE m == [via |-> l, node_id |-> id, seq_num |-> seq, neighbor_map |-> row]
<1>2. m \in Flood(l[1], id, seq, row)
  BY <1>1 DEF Flood
<1> QED
  BY <1>2

LEMMA NoRowLostStep ==
    ASSUME TypeOK, LinksKept, NoRowLost, Step PROVE NoRowLost'
<1> DEFINE OnItsWay(l, o) ==
             \E m \in queue : m.via = l /\ m.node_id = o /\ m.seq_num = seq_map[l[1]][o]
<1>1. ASSUME Elsewhere PROVE NoRowLost'
  BY <1>1 DEF Elsewhere, NoRowLost, TypeOK
<1>2. ASSUME NEW k \in Pairs, NEW lat \in Latencies, Told(k, lat) PROVE NoRowLost'
  <2> DEFINE n == k[1]
             row == ChangedRow(n, k[2], lat)
  <2>1. n \in Nodes
    BY DEF Pairs
  <2>2. /\ seq_map' = [seq_map EXCEPT ![n][n] = @ + 1]
        /\ queue' = queue \cup Flood(n, n, seq_map[n][n] + 1, row)
        /\ crashed' = crashed
    BY <1>2 DEF Told
  <2> HIDE DEF row
  <2>3. /\ seq_map'[n][n] = seq_map[n][n] + 1
        /\ \A x, o \in Nodes : ~ (x = n /\ o = n) => seq_map'[x][o] = seq_map[x][o]
        /\ \A x, o \in Nodes : seq_map[x][o] \in Nat
    BY <2>1, <2>2 DEF TypeOK
  <2>4. SUFFICES ASSUME NEW l \in Lasting, NEW o \in Nodes, ~ crashed
                 PROVE  \/ seq_map'[l[2]][o] >= seq_map'[l[1]][o]
                        \/ \E m \in queue' : /\ m.via = l /\ m.node_id = o
                                             /\ m.seq_num = seq_map'[l[1]][o]
    BY <2>2 DEF NoRowLost
  <2>5. l[1] \in Nodes /\ l[2] \in Nodes
    BY LastingPairs
  <2>6. CASE l[1] = n /\ o = n
    <3>1. PICK m \in Flood(l[1], n, seq_map[n][n] + 1, row) :
            m.via = l /\ m.node_id = n /\ m.seq_num = seq_map[n][n] + 1
      BY FloodCovers
    <3> QED
      BY <2>2, <2>3, <2>6, <3>1
  <2>7. CASE ~ (l[1] = n /\ o = n)
    <3>1. seq_map'[l[1]][o] = seq_map[l[1]][o] /\ seq_map'[l[2]][o] >= seq_map[l[2]][o]
      BY <2>3, <2>5, <2>7
    <3>2. CASE seq_map[l[2]][o] >= seq_map[l[1]][o]
      <4>1. seq_map'[l[2]][o] \in Nat
        BY <2>3, <2>5
      <4> QED
        BY <2>3, <2>5, <3>1, <3>2, <4>1
    <3>3. CASE OnItsWay(l, o)
      BY <2>2, <3>1, <3>3
    <3> QED
      BY <2>4, <3>2, <3>3 DEF NoRowLost
  <2> QED
    BY <2>6, <2>7
<1>3. ASSUME NEW d \in queue, Dropped(d) PROVE NoRowLost'
  <2>1. d.via[2] \in Nodes /\ d.node_id \in Nodes /\ d.seq_num \in Nat
        /\ seq_map[d.via[2]][d.node_id] \in Nat
    BY MessageType DEF TypeOK
  <2>2. seq_map[d.via[2]][d.node_id] >= d.seq_num
    BY <1>3, <2>1 DEF Dropped, Newer
  <2> QED
    BY <1>3, <2>2 DEF Dropped, NoRowLost
<1>4. ASSUME NEW d \in queue, Learned(d) PROVE NoRowLost'
  <2> DEFINE n == d.via[2]
             id == d.node_id
  <2>1. n \in Nodes /\ id \in Nodes /\ d.seq_num \in Nat
    BY MessageType
  <2>2. /\ seq_map' = [seq_map EXCEPT ![n][id] = d.seq_num]
        /\ queue' = (queue \ {d}) \cup Flood(n, id, d.seq_num, d.neighbor_map)
        /\ crashed' = crashed /\ d.seq_num > seq_map[n][id]
    BY <1>4 DEF Learned, Newer
  <2>3. /\ seq_map'[n][id] = d.seq_num
        /\ \A x, o \in Nodes : ~ (x = n /\ o = id) => seq_map'[x][o] = seq_map[x][o]
        /\ \A x, o \in Nodes : seq_map[x][o] \in Nat /\ seq_map'[x][o] >= seq_map[x][o]
    <3>1. seq_map'[n][id] = d.seq_num
      BY <2>1, <2>2 DEF TypeOK
    <3>2. \A x, o \in Nodes : ~ (x = n /\ o = id) => seq_map'[x][o] = seq_map[x][o]
      BY <2>1, <2>2 DEF TypeOK
    <3>3. \A x, o \in Nodes : seq_map[x][o] \in Nat
      BY DEF TypeOK
    <3>4. ASSUME NEW x \in Nodes, NEW o \in Nodes PROVE seq_map'[x][o] >= seq_map[x][o]
      <4>1. CASE x = n /\ o = id
        BY <2>1, <2>2, <3>1, <3>3, <4>1
      <4>2. CASE ~ (x = n /\ o = id)
        BY <3>2, <3>3, <4>2
      <4> QED
        BY <4>1, <4>2
    <3> QED
      BY <3>1, <3>2, <3>3, <3>4
  <2>4. SUFFICES ASSUME NEW l \in Lasting, NEW o \in Nodes, ~ crashed
                 PROVE  \/ seq_map'[l[2]][o] >= seq_map'[l[1]][o]
                        \/ \E m \in queue' : /\ m.via = l /\ m.node_id = o
                                             /\ m.seq_num = seq_map'[l[1]][o]
    BY <2>2 DEF NoRowLost
  <2>5. l[1] \in Nodes /\ l[2] \in Nodes
    BY LastingPairs
  <2>6. CASE l[1] = n /\ o = id
    <3>1. PICK m \in Flood(l[1], id, d.seq_num, d.neighbor_map) :
            m.via = l /\ m.node_id = id /\ m.seq_num = d.seq_num
      BY FloodCovers
    <3> QED
      BY <2>2, <2>3, <2>6, <3>1
  <2>7. CASE ~ (l[1] = n /\ o = id)
    <3>1. seq_map'[l[1]][o] = seq_map[l[1]][o] /\ seq_map'[l[2]][o] >= seq_map[l[2]][o]
      BY <2>3, <2>5, <2>7
    <3>2. CASE seq_map[l[2]][o] >= seq_map[l[1]][o]
      <4>1. seq_map'[l[2]][o] \in Nat
        BY <2>1, <2>3, <2>5
      <4> QED
        BY <2>3, <2>5, <3>1, <3>2, <4>1
    <3>3. CASE OnItsWay(l, o)
      <4>1. PICK m \in queue : m.via = l /\ m.node_id = o /\ m.seq_num = seq_map[l[1]][o]
        BY <3>3
      <4>2. CASE m = d
        <5>1. seq_map'[l[2]][o] = seq_map'[l[1]][o] /\ seq_map'[l[2]][o] \in Nat
          BY <2>1, <2>3, <3>1, <4>1, <4>2
        <5> QED
          BY <5>1
      <4>3. CASE m # d
        BY <2>2, <3>1, <4>1, <4>3
      <4> QED
        BY <4>2, <4>3
    <3> QED
      BY <2>4, <3>2, <3>3 DEF NoRowLost
  <2> QED
    BY <2>6, <2>7
<1> QED
  BY <1>1, <1>2, <1>3, <1>4 DEF Step

\* The inductive invariant so far.
Flooding == TypeOK /\ LinksKept /\ Rows /\ NoRowLost

LEMMA FloodingInit == Init => Flooding
<1> SUFFICES ASSUME Init PROVE Flooding
  OBVIOUS
<1>1. Rows
  <2>1. \A n, o \in Nodes : log[o] = <<>> /\ seq_map[n][o] = 0 /\ table[n][o] = Empty
    BY DEF Init
  <2>2. Len(<<>>) = 0
    OBVIOUS
  <2>3. HeldRows
    BY <2>1, <2>2 DEF HeldRows
  <2> QED
    BY <2>3 DEF Init, Rows, SentRows
<1>2. NoRowLost
  <2>1. \A n, o \in Nodes : seq_map[n][o] = 0
    BY DEF Init
  <2> QED
    BY <2>1, LastingPairs DEF NoRowLost
<1> QED
  BY <1>1, <1>2, TypeInit DEF Flooding

LEMMA FloodingStep == Flooding /\ [Next]_vars => Flooding'
<1> QED
  BY TypeStep, StepKinds, RowsStep, NoRowLostStep DEF Flooding

\* Whatever overtakes it, a row is never lost on a link that lasts (node.cc:156-161).
THEOREM NothingLost == Spec => []NoRowLost
<1>1. Flooding => NoRowLost
  BY DEF Flooding
<1> QED
  BY FloodingInit, FloodingStep, <1>1, PTL DEF Spec

-----------------------------------------------------------------------------
(***************************************************************************)
(* A quiet network agrees.                                                 *)
(***************************************************************************)

\* The source of an announced link knows its latency.
OwnRowTrue == \A l \in Lasting \ starting : crashed \/ table[l[1]][l[1]][l[2]] = links[l]

LEMMA OwnRowTrueStep ==
    ASSUME TypeOK, LinksKept, Rows, OwnRowTrue, Step PROVE OwnRowTrue'
<1>1. ASSUME Elsewhere PROVE OwnRowTrue'
  BY <1>1 DEF Elsewhere, OwnRowTrue, LinksKept, Lasting
<1>2. ASSUME NEW k \in Pairs, NEW lat \in Latencies, Told(k, lat) PROVE OwnRowTrue'
  <2> DEFINE n == k[1]
             row == ChangedRow(n, k[2], lat)
  <2>1. n \in Nodes /\ k[2] \in Nodes /\ k = <<k[1], k[2]>>
    BY DEF Pairs
  <2>2. row[k[2]] = lat /\ \A e \in Nodes \ {k[2]} : row[e] = table[n][n][e]
    BY <2>1, ChangedRowType
  <2> HIDE DEF row
  <2>3. /\ table' = [table EXCEPT ![n][n] = row]
        /\ links' = [j \in DOMAIN links |-> IF j = k THEN lat ELSE links[j]]
        /\ starting \subseteq starting' \cup {k}
        /\ crashed' = crashed
    BY <1>2 DEF Told, row
  <2>4. table'[n][n] = row /\ \A x \in Nodes \ {n} : table'[x][x] = table[x][x]
    BY <2>1, <2>3 DEF TypeOK
  <2>5. SUFFICES ASSUME NEW l \in Lasting, l \notin starting', ~ crashed
                 PROVE  table'[l[1]][l[1]][l[2]] = links'[l]
    BY <2>3 DEF OwnRowTrue, Lasting
  <2>6. l \in DOMAIN links /\ l[1] \in Nodes /\ l[2] \in Nodes /\ l = <<l[1], l[2]>>
    BY LastingPairs DEF LinksKept, Pairs
  <2>7. CASE l = k
    BY <2>2, <2>3, <2>4, <2>6, <2>7
  <2>8. CASE l # k
    <3>1. l \notin starting /\ links'[l] = links[l]
      BY <2>3, <2>5, <2>6, <2>8
    <3>2. table[l[1]][l[1]][l[2]] = links[l]
      BY <2>5, <3>1 DEF OwnRowTrue
    <3>3. CASE l[1] = n
      <4>1. l[2] # k[2]
        BY <2>1, <2>6, <2>8, <3>3
      <4> QED
        BY <2>2, <2>4, <2>6, <3>1, <3>2, <3>3, <4>1
    <3>4. CASE l[1] # n
      BY <2>4, <2>6, <3>1, <3>2, <3>4
    <3> QED
      BY <3>3, <3>4
  <2> QED
    BY <2>7, <2>8
<1>3. ASSUME NEW m \in queue, Dropped(m) PROVE OwnRowTrue'
  BY <1>3 DEF Dropped, OwnRowTrue, Lasting
<1>4. ASSUME NEW m \in queue, Learned(m) PROVE OwnRowTrue'
  <2>1. m.via[2] \in Nodes /\ m.node_id \in Nodes /\ m.node_id # m.via[2]
    BY <1>4, MessageType, OwnRowIsLatest DEF Learned
  <2>2. \A x \in Nodes : table'[x][x] = table[x][x]
    BY <1>4, <2>1 DEF Learned, TypeOK
  <2> QED
    BY <1>4, <2>2, LastingPairs DEF Learned, OwnRowTrue, Lasting
<1> QED
  BY <1>1, <1>2, <1>3, <1>4 DEF Step

LEMMA Agreement ==
    ASSUME Flooding, OwnRowTrue PROVE Converged
<1>1. SUFFICES ASSUME Quiet
               PROVE  /\ \A o, n \in Nodes : Reaches(o, n) => table[n][o] = table[o][o]
                      /\ \A l \in Lasting : table[l[1]][l[1]][l[2]] = links[l]
  BY DEF Converged
<1>2. \A l \in Lasting : table[l[1]][l[1]][l[2]] = links[l]
  BY <1>1 DEF Quiet, OwnRowTrue
<1>3. ASSUME NEW o \in Nodes, NEW n \in Nodes, Reaches(o, n) PROVE table[n][o] = table[o][o]
  <2> DEFINE S == {x \in Nodes : seq_map[x][o] = seq_map[o][o]}
  <2>1. \A x \in Nodes : seq_map[x][o] \in Nat /\ seq_map[x][o] <= seq_map[o][o]
    <3>1. TAKE x \in Nodes
    <3>2. seq_map[x][o] \in Nat /\ log[o] \in Seq(Row) /\ seq_map[o][o] = Len(log[o])
      BY DEF Flooding, TypeOK, Rows, HeldRows
    <3>3. seq_map[x][o] = 0 \/ seq_map[x][o] \in DOMAIN log[o]
      BY DEF Flooding, Rows, HeldRows
    <3> QED
      BY <3>2, <3>3
  <2>2. ASSUME NEW l \in Lasting, l[1] \in S PROVE l[2] \in S
    <3>1. seq_map[l[2]][o] >= seq_map[l[1]][o]
      BY <1>1 DEF Flooding, NoRowLost, Quiet
    <3> QED
      BY <2>1, <2>2, <3>1, LastingPairs
  <2>3. o \in S /\ S \in SUBSET Nodes
    OBVIOUS
  <2>4. n \in S
    <3> HIDE DEF S
    <3> QED
      BY <1>3, <2>2, <2>3 DEF Reaches
  <2>5. seq_map[n][o] = seq_map[o][o]
    BY <2>4
  <2>6. \A x \in Nodes :
          \/ seq_map[x][o] = 0 /\ table[x][o] = Empty
          \/ seq_map[x][o] \in DOMAIN log[o] /\ table[x][o] = log[o][seq_map[x][o]]
    BY DEF Flooding, Rows, HeldRows
  <2>7. log[o] \in Seq(Row)
    BY DEF Flooding, TypeOK
  <2> QED
    BY <2>5, <2>6, <2>7
<1> QED
  BY <1>2, <1>3

\* When no event is left, every node that can be reached over lasting links
\* holds the latest row of the others, and rows have the latencies of today.
THEOREM Convergence == Spec => []Converged
<1>1. Init => OwnRowTrue
  BY DEF Init, OwnRowTrue, Lasting
<1>2. Flooding /\ OwnRowTrue /\ [Next]_vars => OwnRowTrue'
  BY StepKinds, OwnRowTrueStep DEF Flooding
<1>3. Flooding /\ OwnRowTrue => Converged
  BY Agreement
<1> QED
  BY FloodingInit, FloodingStep, <1>1, <1>2, <1>3, PTL DEF Spec

-----------------------------------------------------------------------------
(***************************************************************************)
(* Views only move forward.                                                *)
(***************************************************************************)

LEMMA ViewInit == Init => Abstract!Init
<1> QED
  BY DEF Init, Abstract!Init

LEMMA ViewStep ==
    ASSUME TypeOK, Rows, Step PROVE [Abstract!Next]_(Abstract!vars)
<1>1. ASSUME Elsewhere PROVE UNCHANGED Abstract!vars
  BY <1>1 DEF Elsewhere, Abstract!vars
<1>2. ASSUME NEW l \in Pairs, NEW lat \in Latencies, Told(l, lat) PROVE Abstract!Next
  <2>1. l[1] \in Nodes /\ l[2] \in Nodes
    BY DEF Pairs
  <2>2. ChangedRow(l[1], l[2], lat) \in Row
    BY <2>1, ChangedRowType
  <2>3. seq_map[l[1]][l[1]] = Len(log[l[1]])
    BY <2>1 DEF Rows, HeldRows
  <2>4. seq_map' = [seq_map EXCEPT ![l[1]][l[1]] = Len(log[l[1]]) + 1]
    BY <1>2, <2>1, <2>3 DEF Told, TypeOK
  <2>5. Abstract!Publish(l[1])
    BY <1>2, <2>2, <2>4 DEF Told, Abstract!Publish
  <2> QED
    BY <2>1, <2>5 DEF Abstract!Next
<1>3. ASSUME NEW m \in queue, Dropped(m) PROVE UNCHANGED Abstract!vars
  BY <1>3 DEF Dropped, Abstract!vars
<1>4. ASSUME NEW m \in queue, Learned(m) PROVE Abstract!Next
  <2>1. m.via[2] \in Nodes /\ m.node_id \in Nodes
    BY MessageType
  <2>2. m.seq_num \in DOMAIN log[m.node_id] /\ m.neighbor_map = log[m.node_id][m.seq_num]
    BY DEF Rows, SentRows
  <2>3. Abstract!Learn(m.via[2], m.node_id)
    BY <1>4, <2>2 DEF Learned, Newer, Abstract!Learn
  <2> QED
    BY <2>1, <2>3 DEF Abstract!Next
<1> QED
  BY <1>1, <1>2, <1>3, <1>4 DEF Step

\* Every node's view of another only moves forward, to a row the other flooded.
THEOREM Implementation == Spec => Implements
<1>1. Flooding /\ [Next]_vars => [Abstract!Next]_(Abstract!vars)
  BY StepKinds, ViewStep DEF Flooding
<1> QED
  BY FloodingInit, FloodingStep, ViewInit, <1>1, PTL DEF Spec, Implements, Abstract!Spec

-----------------------------------------------------------------------------
(***************************************************************************)
(* Paths.  In a settled state every table is the map of the links, and the *)
(* search of Routes is Dijkstra's.  SearchInv is its invariant: distances  *)
(* come along a tree of links, no link of a visited node makes one         *)
(* shorter, and nodes are visited in the order of their distances.  The    *)
(* next hop is nearer to the destination by the latency of its link        *)
(* (HopNearer), whatever ties the nodes break; so the path that follows    *)
(* the hops arrives and is as short as any way (NoWayShorter).             *)
(***************************************************************************)

\* A node with a link that is announced has a table, and links are among those
\* that the files name.
Announced ==
    /\ DOMAIN links \subseteq Topology \cup Volatile
    /\ \A l \in Topology \ starting : crashed \/ l[1] \in made

LEMMA AnnouncedInit == Init => Announced
  BY DEF Init, Announced

LEMMA AnnouncedStep == Announced /\ [Next]_vars => Announced'
<1> SUFFICES ASSUME Announced, [Next]_vars PROVE Announced'
  OBVIOUS
<1>1. ASSUME NEW l, NEW lat, ChangeLink(l, lat), starting \subseteq starting' \cup {l}
      PROVE  Announced'
  BY <1>1 DEF Announced, ChangeLink, LinkHasBeenUpdated
<1>2. ASSUME NEW l \in Topology, FirstUpdate(l) PROVE Announced'
  BY <1>1, <1>2 DEF FirstUpdate
<1>3. ASSUME NEW m \in queue, ProcessIncomingRoutingMessage(m) PROVE Announced'
  BY <1>3 DEF Announced, ProcessIncomingRoutingMessage
<1>4. ASSUME NEW l, NEW lat, Changed(l, lat) PROVE Announced'
  BY <1>1, <1>4 DEF Changed, FileEvent
<1>5. ASSUME NEW l \in Volatile, NEW lat, AddLink(l, lat) PROVE Announced'
  BY <1>5 DEF Announced, AddLink, FileEvent
<1>6. ASSUME NEW l, DeleteLink(l) PROVE Announced'
  BY <1>6 DEF Announced, DeleteLink, FileEvent
<1>7. CASE UNCHANGED vars
  BY <1>7 DEF Announced, vars
<1> QED
  BY <1>2, <1>3, <1>4, <1>5, <1>6, <1>7 DEF Next, Dispatch

-----------------------------------------------------------------------------
(***************************************************************************)
(* Numbers, and the recursive functions of Routes.                         *)
(***************************************************************************)

LEMMA LeastOf ==
    ASSUME NEW S \in SUBSET Nat, S # {}
    PROVE  \E x \in S : \A y \in S : x <= y
<1>1. PICK x \in S : \A y \in S : <<y, x>> \notin OpToRel(<, Nat)
  BY NatLessThanWellFounded, WFMin
<1>2. \A y \in S : ~ (y < x)
  BY <1>1 DEF OpToRel
<1> QED
  BY <1>2

\* What holds at 0, and after each step, holds throughout.
LEMMA Throughout ==
    ASSUME NEW K \in Nat, NEW B, 0 \in B,
           \A k \in Nat : k \in B /\ k < K => k + 1 \in B
    PROVE  \A k \in 0..K : k \in B
<1> DEFINE Out == {k \in 0..K : k \notin B}
<1> SUFFICES ASSUME Out # {} PROVE FALSE
  OBVIOUS
<1>1. PICK k \in Out : \A j \in Out : k <= j
  <2>1. Out \in SUBSET Nat
    OBVIOUS
  <2> HIDE DEF Out
  <2> QED
    BY <2>1, LeastOf
<1>2. k # 0 /\ k - 1 \in Nat /\ k - 1 < K /\ k - 1 + 1 = k
  BY <1>1
<1>3. k - 1 \in B
  BY <1>1, <1>2
<1> QED
  BY <1>1, <1>2, <1>3

LEMMA GreatestOf ==
    ASSUME NEW S \in SUBSET Nat, S # {}, IsFiniteSet(S)
    PROVE  Max(S) \in S /\ \A x \in S : x <= Max(S)
<1> DEFINE B == {k \in Nat : \A T \in SUBSET Nat : IsFiniteSet(T) /\ Cardinality(T) = k + 1 =>
                                  \E x \in T : \A y \in T : y <= x}
<1>1. ASSUME NEW T \in SUBSET Nat, NEW x \in T, IsFiniteSet(T)
      PROVE  /\ T \ {x} \in SUBSET Nat /\ IsFiniteSet(T \ {x})
             /\ Cardinality(T) \in Nat /\ Cardinality(T \ {x}) = Cardinality(T) - 1
             /\ Cardinality(T) = 1 => T = {x}
  <2>1. IsFiniteSet(T \ {x}) /\ Cardinality(T \ {x}) = Cardinality(T) - 1
    BY <1>1, FS_RemoveElement
  <2>2. Cardinality(T) \in Nat
    BY <1>1, FS_CardinalityType
  <2>3. Cardinality(T) = 1 => T \ {x} = {}
    BY <2>1, FS_EmptySet
  <2> QED
    BY <2>1, <2>2, <2>3
<1>2. 0 \in B
  <2> SUFFICES ASSUME NEW T \in SUBSET Nat, IsFiniteSet(T), Cardinality(T) = 1
               PROVE  \E x \in T : \A y \in T : y <= x
    OBVIOUS
  <2>1. T # {}
    BY FS_EmptySet
  <2>2. PICK x \in T : T = {x}
    BY <1>1, <2>1
  <2> QED
    BY <2>2
<1>3. ASSUME NEW k \in Nat, k \in B PROVE k + 1 \in B
  <2> SUFFICES ASSUME NEW T \in SUBSET Nat, IsFiniteSet(T), Cardinality(T) = k + 1 + 1
               PROVE  \E x \in T : \A y \in T : y <= x
    OBVIOUS
  <2>1. T # {}
    BY FS_EmptySet
  <2>2. PICK x \in T : TRUE
    BY <2>1
  <2>3. Cardinality(T \ {x}) = k + 1 /\ T \ {x} \in SUBSET Nat /\ IsFiniteSet(T \ {x})
    BY <1>1
  <2>4. PICK m \in T \ {x} : \A y \in T \ {x} : y <= m
    BY <1>3, <2>3
  <2>5. CASE x <= m
    BY <2>4, <2>5
  <2>6. CASE ~ (x <= m)
    <3>1. \A y \in T : y <= x
      BY <2>4, <2>6
    <3> QED
      BY <3>1
  <2> QED
    BY <2>5, <2>6
<1>4. Cardinality(S) \in Nat /\ Cardinality(S) # 0
  BY FS_CardinalityType, FS_EmptySet
<1>5. \A k \in 0..(Cardinality(S) - 1) : k \in B
  <2>1. Cardinality(S) - 1 \in Nat
    BY <1>4
  <2> HIDE DEF B
  <2> QED
    BY <1>2, <1>3, <2>1, Throughout
<1>6. \E x \in S : \A y \in S : y <= x
  BY <1>4, <1>5
<1>7. \E x \in S : \A y \in S : x >= y
  BY <1>6
<1>8. Max(S) \in S /\ \A y \in S : Max(S) >= y
  BY <1>7 DEF Max
<1> QED
  BY <1>8

\* A smaller set without some element is smaller by one at least.
LEMMA SmallerBy ==
    ASSUME NEW T, IsFiniteSet(T), NEW S \in SUBSET T, NEW x \in T \ S
    PROVE  /\ IsFiniteSet(S) /\ Cardinality(S) \in Nat /\ Cardinality(T) \in Nat
           /\ Cardinality(S) + 1 <= Cardinality(T)
<1>1. IsFiniteSet(T \ {x}) /\ Cardinality(T \ {x}) = Cardinality(T) - 1
  BY FS_RemoveElement
<1>2. S \subseteq T \ {x}
  OBVIOUS
<1>3. IsFiniteSet(S) /\ Cardinality(S) <= Cardinality(T \ {x})
  BY <1>1, <1>2, FS_Subset
<1>4. Cardinality(S) \in Nat /\ Cardinality(T) \in Nat
  BY <1>3, FS_CardinalityType
<1> QED
  BY <1>1, <1>3, <1>4

Iterates(f, S, start, step, K) ==
    /\ f \in [0..K -> S]
    /\ f = [k \in 0..K |-> IF k = 0 THEN start ELSE step[<<k, f[k - 1]>>]]

LEMMA IteratesExist ==
    ASSUME NEW S, NEW start \in S, NEW step \in [Nat \X S -> S], NEW K \in Nat
    PROVE  \E f : Iterates(f, S, start, step, K)
<1> DEFINE B == {k \in Nat : \E f : Iterates(f, S, start, step, k)}
<1>1. 0 \in B
  <2> DEFINE f == [k \in 0..0 |-> start]
  <2>1. f = [k \in 0..0 |-> IF k = 0 THEN start ELSE step[<<k, f[k - 1]>>]]
    OBVIOUS
  <2> QED
    BY <2>1 DEF Iterates
<1>2. ASSUME NEW k \in Nat, k \in B PROVE k + 1 \in B
  <2>1. PICK f : /\ f \in [0..k -> S]
                 /\ f = [j \in 0..k |-> IF j = 0 THEN start ELSE step[<<j, f[j - 1]>>]]
    BY <1>2 DEF Iterates
  <2> DEFINE g == [j \in 0..(k + 1) |-> IF j = 0 THEN start ELSE step[<<j, f[j - 1]>>]]
  <2>2. \A j \in 0..k : g[j] = f[j]
    <3>1. \A j \in 0..k : j \in 0..(k + 1)
      OBVIOUS
    <3>2. \A j \in 0..k : f[j] = IF j = 0 THEN start ELSE step[<<j, f[j - 1]>>]
      BY <2>1, Zenon
    <3> QED
      BY <3>1, <3>2, Zenon
  <2>3. \A j \in 0..(k + 1) : j # 0 => j - 1 \in 0..k /\ j \in Nat
    OBVIOUS
  <2>4. \A j \in 0..(k + 1) : j # 0 => f[j - 1] = g[j - 1]
    BY <2>2, <2>3
  <2>5. g = [j \in 0..(k + 1) |-> IF j = 0 THEN start ELSE step[<<j, g[j - 1]>>]]
    BY <2>4
  <2>6. \A j \in 0..(k + 1) : g[j] \in S
    <3>1. \A j \in 0..(k + 1) : j # 0 => f[j - 1] \in S
      BY <2>1, <2>3
    <3>2. \A j \in 0..(k + 1) : j # 0 => step[<<j, f[j - 1]>>] \in S
      BY <2>3, <3>1
    <3> QED
      BY <3>2
  <2>7. g \in [0..(k + 1) -> S]
    BY <2>6
  <2> HIDE DEF g
  <2>8. Iterates(g, S, start, step, k + 1)
    BY <2>5, <2>7 DEF Iterates
  <2> QED
    BY <2>8
<1>3. \A k \in 0..K : k \in B
  <2> HIDE DEF B
  <2> QED
    BY <1>1, <1>2, Throughout
<1> QED
  BY <1>3
-----------------------------------------------------------------------------
(***************************************************************************)
(* The shortest paths.                                                     *)
(***************************************************************************)

Whole == {k * PerUnit : k \in Nat}

LEMMA WholeNumbers ==
    ASSUME NEW a \in Whole
    PROVE  /\ a \in Nat /\ Rounded(a) = a /\ 0 \in Whole
           /\ \A b \in Whole : a + b \in Whole
<1> PerUnit \in Nat /\ PerUnit > 0
  BY RouteAssumption
<1>1. PICK k \in Nat : a = k * PerUnit
  BY DEF Whole
<1>2. a \in Nat /\ 0 * PerUnit = 0
  BY <1>1
<1>3. Rounded(a) = a
  <2>1. (k * PerUnit) \div PerUnit = k
    OBVIOUS
  <2> QED
    BY <1>1, <2>1 DEF Rounded
<1>4. ASSUME NEW b \in Whole PROVE a + b \in Whole
  <2>1. PICK j \in Nat : b = j * PerUnit
    BY <1>4 DEF Whole
  <2>2. a + b = (k + j) * PerUnit /\ k + j \in Nat
    BY <1>1, <2>1
  <2> QED
    BY <2>2 DEF Whole
<1> QED
  BY <1>2, <1>3, <1>4 DEF Whole

SearchState ==
    [prev : [Nodes -> Nodes], dist : [Nodes -> Nat], visited_nodes : SUBSET Nodes, curr_pos : Nodes]

Found == [min_distance : Nat, curr_pos : Nodes]

\* The node that a round visits next.
LEMMA ClosestIs ==
    ASSUME NEW s \in SearchState
    PROVE  /\ Closest(s) \in Nodes
           /\ s.dist \in [Nodes -> Whole] /\ (\E x \in Nodes : Candidate(s, x)) =>
                 /\ Candidate(s, Closest(s))
                 /\ \A x \in Nodes : Candidate(s, x) => s.dist[Closest(s)] <= s.dist[x]
<1> DEFINE past == Max(Nodes) + 1
           start == [min_distance |-> 0, curr_pos |-> s.curr_pos]
           Takes(k, b) == /\ Candidate(s, k - 1)
                          /\ b.min_distance = 0 \/ s.dist[k - 1] < b.min_distance
           step == [a \in Nat \X Found |->
                       IF Takes(a[1], a[2])
                       THEN [min_distance |-> Rounded(s.dist[a[1] - 1]), curr_pos |-> a[1] - 1]
                       ELSE a[2]]
           IsBest(f) == f = [k \in 0..past |->
                       IF k = 0 THEN start
                       ELSE IF Takes(k, f[k - 1])
                            THEN [min_distance |-> Rounded(s.dist[k - 1]), curr_pos |-> k - 1]
                       ELSE f[k - 1]]
           best == CHOOSE f : IsBest(f)
<1>1. s.dist \in [Nodes -> Nat] /\ s.curr_pos \in Nodes /\ Nodes \subseteq Nat
  BY RouteAssumption DEF SearchState
<1>2. past \in Nat /\ \A x \in Nodes : x + 1 \in 1..past
  <2>1. PICK m \in Nat : m = Max(Nodes) /\ \A x \in Nodes : x <= m
    BY <1>1, GreatestOf, RouteAssumption
  <2>2. past = m + 1
    BY <2>1
  <2> QED
    BY <1>1, <2>1, <2>2
<1>3. start \in Found
  BY <1>1 DEF Found
<1>4. step \in [Nat \X Found -> Found]
  <2>1. ASSUME NEW k \in Nat, NEW b, Takes(k, b)
        PROVE  [min_distance |-> Rounded(s.dist[k - 1]), curr_pos |-> k - 1] \in Found
    <3>1. k - 1 \in Nodes /\ s.dist[k - 1] \in Nat
      BY <1>1, <2>1 DEF Candidate
    <3>2. Rounded(s.dist[k - 1]) \in Nat
      BY <3>1, RouteAssumption DEF Rounded
    <3> QED
      BY <3>1, <3>2 DEF Found
  <2> QED
    BY <2>1
<1>5. PICK f : Iterates(f, Found, start, step, past)
  <2> HIDE DEF start, step, past
  <2> QED
    BY <1>2, <1>3, <1>4, IteratesExist
<1> HIDE DEF past, start
<1>6. IsBest(f)
  <2>1. \A k \in 0..past : k # 0 => k - 1 \in 0..past /\ k \in Nat
    BY <1>2
  <2>2. \A k \in 0..past : k # 0 => f[k - 1] \in Found
    BY <1>5, <2>1 DEF Iterates
  <2>3. \A k \in 0..past : k # 0 =>
            step[<<k, f[k - 1]>>] = IF Takes(k, f[k - 1])
                                    THEN [min_distance |-> Rounded(s.dist[k - 1]), curr_pos |-> k - 1]
                                    ELSE f[k - 1]
    <3> HIDE DEF Takes
    <3> QED
      BY <2>1, <2>2
  <2> HIDE DEF step, Takes
  <2> QED
    BY <1>5, <2>3 DEF Iterates
<1>7. IsBest(best)
  <2> HIDE DEF IsBest
  <2> QED
    BY <1>6
<1>8. Closest(s) = best[past].curr_pos
  BY DEF Closest, past, start
<1> HIDE DEF best
<1>9. best[0] = start
  BY <1>2, <1>7
<1>10. ASSUME NEW k \in Nat, k < past
       PROVE  best[k + 1] = IF Takes(k + 1, best[k])
                            THEN [min_distance |-> Rounded(s.dist[k]), curr_pos |-> k]
                            ELSE best[k]
  <2>1. k + 1 \in 0..past /\ k + 1 # 0 /\ k + 1 - 1 = k
    BY <1>2, <1>10
  <2>2. \A j \in 0..past :
            best[j] = IF j = 0 THEN start
                      ELSE IF Takes(j, best[j - 1])
                           THEN [min_distance |-> Rounded(s.dist[j - 1]), curr_pos |-> j - 1]
                      ELSE best[j - 1]
    BY <1>7, Zenon
  <2> HIDE DEF Takes
  <2> QED
    BY <2>1, <2>2
<1> DEFINE Least(k, b) ==
             /\ b \in Found
             /\ s.dist \in [Nodes -> Whole] =>
                  /\ \A x \in Nodes : x < k /\ Candidate(s, x) => b.min_distance > 0 /\ b.min_distance <= s.dist[x]
                  /\ b.min_distance > 0 => Candidate(s, b.curr_pos) /\ b.min_distance = s.dist[b.curr_pos]
           B == {k \in Nat : k <= past => Least(k, best[k])}
<1>11. 0 \in B
  <2>1. start.min_distance = 0 /\ \A x \in Nodes : ~ (x < 0)
    BY <1>1 DEF start
  <2> QED
    BY <1>3, <1>9, <2>1
<1>12. ASSUME NEW k \in Nat, k \in B, k < past PROVE k + 1 \in B
  <2> DEFINE b == best[k]
             c == [min_distance |-> Rounded(s.dist[k]), curr_pos |-> k]
  <2>1. Least(k, b) /\ b \in Found /\ b.min_distance \in Nat
    BY <1>2, <1>12 DEF Found
  <2>2. best[k + 1] = IF Takes(k + 1, b) THEN c ELSE b
    BY <1>10, <1>12
  <2>3. Takes(k + 1, b) <=> Candidate(s, k) /\ (b.min_distance = 0 \/ s.dist[k] < b.min_distance)
    OBVIOUS
  <2> HIDE DEF b, Takes
  <2>4. CASE Takes(k + 1, b)
    <3>1. k \in Nodes /\ s.dist[k] \in Nat /\ s.dist[k] > 0 /\ Candidate(s, k)
      BY <1>1, <2>3, <2>4 DEF Candidate
    <3>2. c \in Found
      <4>1. Rounded(s.dist[k]) \in Nat
        BY <3>1, RouteAssumption DEF Rounded
      <4> QED
        BY <3>1, <4>1 DEF Found
    <3>3. ASSUME s.dist \in [Nodes -> Whole]
          PROVE  /\ \A x \in Nodes : x < k + 1 /\ Candidate(s, x) => c.min_distance > 0 /\ c.min_distance <= s.dist[x]
                 /\ Candidate(s, c.curr_pos) /\ c.min_distance = s.dist[c.curr_pos]
      <4>1. c.min_distance = s.dist[k] /\ c.curr_pos = k
        BY <3>1, <3>3, WholeNumbers
      <4>2. ASSUME NEW x \in Nodes, x < k + 1, Candidate(s, x) PROVE s.dist[k] <= s.dist[x]
        <5>1. x = k \/ x < k
          BY <1>1, <4>2
        <5>2. x < k => b.min_distance > 0 /\ b.min_distance <= s.dist[x]
          BY <2>1, <3>3, <4>2
        <5> QED
          BY <1>1, <2>1, <2>3, <2>4, <3>1, <5>1, <5>2
      <4> QED
        BY <3>1, <4>1, <4>2
    <3>4. best[k + 1] = c
      BY <2>2, <2>4
    <3> QED
      BY <3>2, <3>3, <3>4
  <2>5. CASE ~ Takes(k + 1, b)
    <3>1. best[k + 1] = b
      BY <2>2, <2>5
    <3>2. ASSUME s.dist \in [Nodes -> Whole], NEW x \in Nodes, x < k + 1, Candidate(s, x)
          PROVE  b.min_distance > 0 /\ b.min_distance <= s.dist[x]
      <4>1. x = k \/ x < k
        BY <1>1, <3>2
      <4>2. CASE x = k
        <5>1. ~ (b.min_distance = 0 \/ s.dist[k] < b.min_distance) /\ s.dist[k] \in Nat
          BY <1>1, <2>3, <2>5, <3>2, <4>2
        <5> QED
          BY <2>1, <4>2, <5>1
      <4>3. CASE x < k
        BY <2>1, <3>2, <4>3
      <4> QED
        BY <4>1, <4>2, <4>3
    <3> QED
      BY <2>1, <3>1, <3>2
  <2> QED
    BY <2>4, <2>5
<1>13. Least(past, best[past])
  <2> HIDE DEF B
  <2>1. \A k \in 0..past : k \in B
    BY <1>2, <1>11, <1>12, Throughout
  <2> QED
    BY <1>2, <2>1 DEF B
<1> DEFINE e == best[past]
<1>14. /\ e \in Found /\ e.curr_pos \in Nodes /\ Closest(s) = e.curr_pos
       /\ \A x \in Nodes : x < past
  BY <1>1, <1>2, <1>8, <1>13 DEF Found
<1> HIDE DEF e
<1> QED
  BY <1>13, <1>14 DEF e
-----------------------------------------------------------------------------
Linked(u, v) == <<u, v>> \in DOMAIN links

\* All that PathsShortest needs of a state.
Settled ==
    /\ TypeOK /\ LinksKept /\ Announced /\ Converged /\ Quiet /\ LinksKnown
    /\ Latencies \subseteq Whole

LEMMA LinkIs ==
    ASSUME Settled, NEW u, NEW v, Linked(u, v)
    PROVE  /\ u \in Nodes /\ v \in Nodes /\ u # v
           /\ links[<<u, v>>] \in Whole /\ links[<<u, v>>] \in Nat /\ links[<<u, v>>] > 0
           /\ links[<<u, v>>] # NONE
<1>1. <<u, v>> \in Pairs /\ links[<<u, v>>] \in Latencies /\ <<u, v>> \in Topology \cup Volatile
  BY DEF Settled, TypeOK, Announced, Linked
<1>2. u # v
  BY <1>1, RouteAssumption
<1>3. links[<<u, v>>] \in Nat /\ links[<<u, v>>] # 0
  BY <1>1, RouteAssumption
<1>4. links[<<u, v>>] \in Whole /\ links[<<u, v>>] # NONE
  BY <1>1, ConstAssumption DEF Settled
<1>5. u \in Nodes /\ v \in Nodes
  BY <1>1 DEF Pairs
<1> QED
  BY <1>2, <1>3, <1>4, <1>5

\* The rows of all nodes are in all tables.
LEMMA RowsAreLinks ==
    ASSUME Settled, NEW n \in Nodes, NEW u \in Nodes, NEW v \in Nodes
    PROVE  /\ table[n][u][v] # NONE <=> Linked(u, v)
           /\ Linked(u, v) => table[n][u][v] = links[<<u, v>>]
<1>1. table[n][u] = table[u][u]
  BY DEF Settled, Converged, LinksKnown
<1>2. table[u][u][v] = IF Linked(u, v) THEN links[<<u, v>>] ELSE NONE
  BY DEF Settled, LinksKnown, Linked
<1> QED
  BY <1>1, <1>2, LinkIs

\* A link leads out of each set of nodes.
LEMMA LinkOut ==
    ASSUME Settled, NEW S \in SUBSET Nodes, NEW n \in S, NEW d \in Nodes \ S
    PROVE  \E u \in S, v \in Nodes \ S : Linked(u, v) /\ u \in made
<1>1. Reaches(n, d)
  BY DEF Settled, LinksKnown
<1>2. PICK l \in Lasting : l[1] \in S /\ l[2] \notin S
  BY <1>1 DEF Reaches
<1>3. l \in Topology \ starting /\ l \in DOMAIN links /\ ~ crashed
  BY DEF Settled, Quiet, LinksKept, Lasting
<1>4. l[1] \in made /\ l = <<l[1], l[2]>> /\ l[2] \in Nodes
  BY <1>3, ConstAssumption DEF Settled, Announced, Pairs
<1> QED
  BY <1>2, <1>3, <1>4 DEF Linked

-----------------------------------------------------------------------------
(***************************************************************************)
(* There is a way of length a from n to d: <<d, a>> is in every set that   *)
(* <<n, 0>> is in and that links do not leave.                             *)
(***************************************************************************)

Spreads(S) == \A u, v \in Nodes, a \in Nat :
    <<u, a>> \in S /\ Linked(u, v) => <<v, a + links[<<u, v>>]>> \in S

Way(n, d, a) == \A S \in SUBSET (Nodes \X Nat) : <<n, 0>> \in S /\ Spreads(S) => <<d, a>> \in S

LEMMA WayHere == ASSUME NEW n PROVE Way(n, n, 0)
  BY DEF Way

LEMMA WayOn ==
    ASSUME NEW n, NEW u \in Nodes, NEW a \in Nat, Way(n, u, a), NEW v \in Nodes, Linked(u, v)
    PROVE  Way(n, v, a + links[<<u, v>>])
  BY DEF Way, Spreads

LEMMA WayJoin ==
    ASSUME Settled, NEW n \in Nodes, NEW u \in Nodes, NEW a \in Nat, Way(n, u, a),
           NEW d, NEW b \in Nat, Way(u, d, b)
    PROVE  Way(n, d, a + b)
<1> DEFINE S == {p \in Nodes \X Nat : Way(n, p[1], a + p[2])}
<1>1. <<u, 0>> \in S
  OBVIOUS
<1>2. Spreads(S)
  <2> SUFFICES ASSUME NEW x \in Nodes, NEW y \in Nodes, NEW c \in Nat, <<x, c>> \in S, Linked(x, y)
               PROVE  <<y, c + links[<<x, y>>]>> \in S
    BY DEF Spreads
  <2>1. links[<<x, y>>] \in Nat
    BY LinkIs
  <2> DEFINE w == links[<<x, y>>]
  <2>2. Way(n, y, (a + c) + w)
    <3>1. Way(n, x, a + c) /\ a + c \in Nat
      OBVIOUS
    <3> QED
      BY <3>1, WayOn
  <2> HIDE DEF w
  <2>3. (a + c) + w = a + (c + w) /\ c + w \in Nat
    BY <2>1 DEF w
  <2> QED
    BY <2>2, <2>3 DEF w
<1>3. <<d, b>> \in S
  <2> HIDE DEF S
  <2> QED
    BY <1>1, <1>2 DEF Way, S
<1> QED
  BY <1>3
-----------------------------------------------------------------------------
(***************************************************************************)
(* Dijkstra's search.  Base is 0 for the source: what the dist of it holds *)
(* is the length of a way back to it.                                      *)
(***************************************************************************)

Base(n, s, u) == IF u = n THEN 0 ELSE s.dist[u]

Relaxed(n, s) == IF s.visited_nodes = {} THEN {} ELSE (s.visited_nodes \ {s.curr_pos}) \cup {n}

\* Distances come by way of relaxed nodes,
Tree(n, s, R) == \A x \in Nodes : s.dist[x] > 0 =>
    /\ s.prev[x] \in R /\ Linked(s.prev[x], x)
    /\ s.dist[x] = Base(n, s, s.prev[x]) + links[<<s.prev[x], x>>]

\* no link of them makes one shorter,
Tight(n, s, R) == \A u \in R, v \in Nodes : Linked(u, v) =>
    s.dist[v] > 0 /\ s.dist[v] <= Base(n, s, u) + links[<<u, v>>]

\* and nodes are visited in the order of their distances.
Ascending(s) == \A u \in s.visited_nodes :
    /\ s.dist[u] > 0
    /\ s.dist[u] <= s.dist[s.curr_pos]
    /\ \A v \in Nodes \ s.visited_nodes : s.dist[v] > 0 => s.dist[u] <= s.dist[v]

SearchInv(n, s) ==
    /\ s \in SearchState /\ s.dist \in [Nodes -> Whole]
    /\ Tree(n, s, Relaxed(n, s)) /\ Tight(n, s, Relaxed(n, s)) /\ Ascending(s)
    /\ IF s.visited_nodes = {} THEN s = Start(n) ELSE s.curr_pos \in s.visited_nodes

LEMMA StartSearches == ASSUME NEW n \in Nodes PROVE SearchInv(n, Start(n))
<1>1. 0 \in Whole
  BY RouteAssumption DEF Whole
<1> QED
  BY <1>1 DEF SearchInv, Start, SearchState, Tree, Tight, Ascending, Relaxed

LEMMA UpdatedType ==
    ASSUME TypeOK, NEW n \in Nodes, NEW s \in SearchState
    PROVE  Updated(n, s) \in SearchState /\ Visit(Updated(n, s)) \in SearchState
<1>1. ASSUME NEW x \in Nodes, table[n][s.curr_pos][x] # NONE PROVE Distance(n, s, x) \in Nat
  <2>1. table[n][s.curr_pos][x] \in Latencies /\ s.dist[s.curr_pos] \in Nat
    BY <1>1 DEF TypeOK, Row, SearchState
  <2>2. table[n][s.curr_pos][x] \in Nat
    BY <2>1, RouteAssumption
  <2> QED
    BY <2>1, <2>2 DEF Distance
<1>2. Updated(n, s) \in SearchState
  BY <1>1 DEF Updated, SearchState
<1>3. ASSUME NEW t \in SearchState PROVE Visit(t) \in SearchState
  BY <1>3, ClosestIs DEF Visit, SearchState
<1> QED
  BY <1>2, <1>3

LEMMA UpdatedKeeps ==
    ASSUME Settled, NEW n \in Nodes, NEW s, SearchInv(n, s), NEW t, t = Updated(n, s)
    PROVE  /\ t \in SearchState /\ t.dist \in [Nodes -> Whole]
           /\ t.visited_nodes = s.visited_nodes
           /\ Tree(n, t, s.visited_nodes \cup {n}) /\ Tight(n, t, s.visited_nodes \cup {n})
           /\ Ascending(t)
<1> DEFINE c == s.curr_pos
           V == s.visited_nodes
           R == V \cup {n}
           D(x) == s.dist[c] + links[<<c, x>>]
           Closer(x) == x \notin V /\ Linked(c, x) /\ (s.dist[x] = 0 \/ D(x) < s.dist[x])
<1>1. /\ s \in SearchState /\ c \in Nodes /\ V \subseteq Nodes
      /\ \A x \in Nodes : s.dist[x] \in Whole /\ s.dist[x] \in Nat /\ s.prev[x] \in Nodes
  BY DEF SearchInv, SearchState
<1>2. /\ t \in SearchState /\ t.visited_nodes = V /\ t.curr_pos = c
      /\ \A x \in Nodes : t.prev[x] = (IF Closer(x) THEN c ELSE s.prev[x])
      /\ \A x \in Nodes : t.dist[x] = (IF Closer(x) THEN D(x) ELSE s.dist[x])
  <2>1. t \in SearchState
    BY <1>1, UpdatedType DEF Settled
  <2>2. \A x \in Nodes : Linked(c, x) => Distance(n, s, x) = D(x)
    BY <1>1, RowsAreLinks DEF Distance
  <2>3. \A x \in Nodes : Linked(c, x) <=> table[n][s.curr_pos][x] # NONE
    <3> TAKE x \in Nodes
    <3>1. c \in Nodes /\ s.curr_pos = c
      BY <1>1
    <3> HIDE DEF c
    <3>2. table[n][c][x] # NONE <=> Linked(c, x)
      BY <3>1, RowsAreLinks
    <3> QED
      BY <3>1, <3>2
  <2> DEFINE K == {x \in Nodes \ V : /\ table[n][s.curr_pos][x] # NONE
                                     /\ s.dist[x] = 0 \/ Distance(n, s, x) < s.dist[x]}
  <2>4. \A x \in Nodes : x \in K <=> Closer(x)
    BY <2>2, <2>3
  <2>5. t = [s EXCEPT !.prev = [x \in Nodes |-> IF x \in K THEN s.curr_pos ELSE @[x]],
                      !.dist = [x \in Nodes |-> IF x \in K THEN Distance(n, s, x) ELSE @[x]]]
    BY DEF Updated
  <2> HIDE DEF K
  <2>6. /\ t.visited_nodes = V /\ t.curr_pos = c
        /\ \A x \in Nodes : t.prev[x] = (IF x \in K THEN c ELSE s.prev[x])
        /\ \A x \in Nodes : t.dist[x] = (IF x \in K THEN Distance(n, s, x) ELSE s.dist[x])
    BY <1>1, <2>5 DEF SearchState
  <2> HIDE DEF Closer, D
  <2>7. \A x \in Nodes : t.prev[x] = (IF Closer(x) THEN c ELSE s.prev[x])
    BY <2>4, <2>6
  <2>8. \A x \in Nodes : t.dist[x] = (IF Closer(x) THEN D(x) ELSE s.dist[x])
    <3> TAKE x \in Nodes
    <3>1. CASE Closer(x)
      BY <2>2, <2>4, <2>6, <3>1 DEF Closer
    <3>2. CASE ~ Closer(x)
      BY <2>4, <2>6, <3>2
    <3> QED
      BY <3>1, <3>2
  <2> QED
    BY <2>1, <2>6, <2>7, <2>8
<1>3. \A x \in Nodes : Linked(c, x) =>
          D(x) \in Nat /\ D(x) > s.dist[c] /\ D(x) \in Whole /\ links[<<c, x>>] \in Nat
  BY <1>1, LinkIs, WholeNumbers
<1>4. /\ V = {} => c = n /\ \A x \in Nodes : s.dist[x] = 0
      /\ V # {} => c \in V /\ Relaxed(n, s) = (V \ {c}) \cup {n}
      /\ V = {} => Relaxed(n, s) = {}
      /\ Relaxed(n, s) \subseteq R /\ c \in R
  BY DEF SearchInv, Start, Relaxed
<1>5. Tree(n, s, Relaxed(n, s)) /\ Tight(n, s, Relaxed(n, s)) /\ Ascending(s)
  BY DEF SearchInv
<1>6. ASSUME NEW x \in Nodes, Closer(x) PROVE Base(n, s, c) = s.dist[c]
  <2>1. CASE c # n
    BY <2>1 DEF Base
  <2>2. CASE c = n /\ V = {}
    BY <1>4, <2>2 DEF Base
  <2>3. CASE c = n /\ V # {}
    <3>1. s.dist[x] > 0 /\ s.dist[x] <= 0 + links[<<c, x>>]
      BY <1>4, <1>5, <1>6, <2>3 DEF Tight, Base
    <3>2. D(x) >= links[<<c, x>>]
      BY <1>1, <1>3, <1>6
    <3> QED
      BY <1>1, <1>3, <1>6, <3>1, <3>2
  <2> QED
    BY <2>1, <2>2, <2>3
<1> HIDE DEF Closer, D
<1>7. \A u \in R : Base(n, t, u) = Base(n, s, u)
  BY <1>1, <1>2 DEF Base, Closer
<1>8. Tree(n, t, R)
  <2> SUFFICES ASSUME NEW x \in Nodes, t.dist[x] > 0
               PROVE  /\ t.prev[x] \in R /\ Linked(t.prev[x], x)
                      /\ t.dist[x] = Base(n, t, t.prev[x]) + links[<<t.prev[x], x>>]
    BY DEF Tree
  <2>1. CASE Closer(x)
    <3>1. t.prev[x] = c /\ t.dist[x] = Base(n, s, c) + links[<<c, x>>]
      BY <1>2, <1>6, <2>1 DEF D
    <3> QED
      BY <1>4, <1>7, <2>1, <3>1 DEF Closer
  <2>2. CASE ~ Closer(x)
    <3>1. t.prev[x] = s.prev[x] /\ t.dist[x] = s.dist[x]
      BY <1>2, <2>2
    <3>2. /\ s.prev[x] \in Relaxed(n, s) /\ Linked(s.prev[x], x)
          /\ s.dist[x] = Base(n, s, s.prev[x]) + links[<<s.prev[x], x>>]
      BY <1>5, <3>1 DEF Tree
    <3> QED
      BY <1>4, <1>7, <3>1, <3>2
  <2> QED
    BY <2>1, <2>2
<1>9. Tight(n, t, R)
  <2> SUFFICES ASSUME NEW u \in R, NEW v \in Nodes, Linked(u, v)
               PROVE  t.dist[v] > 0 /\ t.dist[v] <= Base(n, s, u) + links[<<u, v>>]
    BY <1>7 DEF Tight
  <2>1. s.dist[v] > 0 => t.dist[v] > 0 /\ t.dist[v] <= s.dist[v]
    <3>1. CASE Closer(v)
      <4>1. D(v) \in Nat /\ D(v) > s.dist[c] /\ s.dist[c] \in Nat /\ t.dist[v] = D(v)
        BY <1>1, <1>2, <1>3, <3>1 DEF Closer
      <4>2. s.dist[v] > 0 => D(v) < s.dist[v]
        BY <3>1 DEF Closer
      <4> QED
        BY <1>1, <4>1, <4>2
    <3>2. CASE ~ Closer(v)
      BY <1>1, <1>2, <3>2
    <3> QED
      BY <3>1, <3>2
  <2>2. links[<<u, v>>] \in Nat /\ links[<<u, v>>] > 0 /\ s.dist[v] \in Nat /\ t.dist[v] \in Nat
        /\ Base(n, s, u) \in Nat
    BY <1>1, <1>2, LinkIs DEF SearchState, Base
  <2>3. CASE u \in Relaxed(n, s)
    <3>1. s.dist[v] > 0 /\ s.dist[v] <= Base(n, s, u) + links[<<u, v>>]
      BY <1>5, <2>3 DEF Tight
    <3> QED
      BY <2>1, <2>2, <3>1
  <2>4. CASE u \notin Relaxed(n, s)
    <3>1. u = c /\ (V = {} \/ c # n)
      BY <1>4, <2>4
    <3>2. CASE Closer(v)
      <4>1. t.dist[v] = Base(n, s, u) + links[<<u, v>>]
        BY <1>2, <1>6, <3>1, <3>2 DEF D
      <4> QED
        BY <2>2, <4>1
    <3>3. CASE ~ Closer(v) /\ v \in V
      <4>1. c # n /\ Base(n, s, u) = s.dist[c] /\ s.dist[v] > 0 /\ s.dist[v] <= s.dist[c]
        BY <1>5, <3>1, <3>3 DEF Base, Ascending
      <4> QED
        BY <1>1, <2>1, <2>2, <3>1, <4>1
    <3>4. CASE ~ Closer(v) /\ v \notin V
      <4>1. s.dist[v] # 0 /\ ~ (D(v) < s.dist[v])
        BY <3>1, <3>4 DEF Closer
      <4>2. V # {} /\ c # n
        BY <1>4, <3>1, <4>1
      <4>3. D(v) = Base(n, s, u) + links[<<u, v>>]
        BY <3>1, <4>2 DEF D, Base
      <4> QED
        BY <2>1, <2>2, <4>1, <4>3
    <3> QED
      BY <3>2, <3>3, <3>4
  <2> QED
    BY <2>3, <2>4
<1>10. Ascending(t)
  <2> SUFFICES ASSUME NEW u \in V
               PROVE  /\ t.dist[u] > 0
                      /\ t.dist[u] <= t.dist[c]
                      /\ \A v \in Nodes \ V : t.dist[v] > 0 => t.dist[u] <= t.dist[v]
    BY <1>2 DEF Ascending
  <2>1. u \in Nodes /\ t.dist[u] = s.dist[u] /\ t.dist[c] = s.dist[c]
    BY <1>1, <1>2, <1>4 DEF Closer
  <2>2. s.dist[u] > 0 /\ s.dist[u] <= s.dist[c]
    BY <1>5 DEF Ascending
  <2>3. ASSUME NEW v \in Nodes \ V, t.dist[v] > 0 PROVE t.dist[u] <= t.dist[v]
    <3>1. CASE Closer(v)
      <4>1. Linked(c, v) /\ t.dist[v] = D(v)
        BY <1>2, <3>1 DEF Closer
      <4>2. D(v) > s.dist[c] /\ D(v) \in Nat
        BY <1>3, <4>1
      <4> QED
        BY <1>1, <2>1, <2>2, <4>1, <4>2
    <3>2. CASE ~ Closer(v)
      BY <1>2, <1>5, <2>1, <2>3, <3>2 DEF Ascending
    <3> QED
      BY <3>1, <3>2
  <2> QED
    BY <2>1, <2>2, <2>3
<1>11. t.dist \in [Nodes -> Whole]
  <2>1. \A x \in Nodes : t.dist[x] \in Whole
    BY <1>1, <1>2, <1>3 DEF Closer
  <2>2. DOMAIN t.dist = Nodes /\ t.dist \in [Nodes -> Nat]
    BY <1>2 DEF SearchState
  <2> QED
    BY <2>1, <2>2
<1> QED
  BY <1>2, <1>8, <1>9, <1>10, <1>11

LEMMA VisitKeeps ==
    ASSUME Settled, NEW n \in Nodes, NEW s, SearchInv(n, s),
           NEW d \in Nodes \ (s.visited_nodes \cup {n}), NEW z, z = Visit(Updated(n, s))
    PROVE  /\ SearchInv(n, z)
           /\ z.curr_pos \in Nodes \ s.visited_nodes
           /\ z.visited_nodes = s.visited_nodes \cup {z.curr_pos}
<1> DEFINE t == Updated(n, s)
           c == Closest(t)
           V == s.visited_nodes
           R == V \cup {n}
<1>1. /\ t \in SearchState /\ t.dist \in [Nodes -> Whole] /\ t.visited_nodes = V
      /\ Tree(n, t, R) /\ Tight(n, t, R) /\ Ascending(t)
  BY UpdatedKeeps
<1>2. z = [t EXCEPT !.curr_pos = c, !.visited_nodes = @ \cup {c}]
  BY DEF Visit
<1> HIDE DEF t
<1>3. \E x \in Nodes : Candidate(t, x)
  <2>1. V \subseteq Nodes
    BY <1>1 DEF SearchState
  <2>2. PICK u \in R, x \in Nodes \ R : Linked(u, x)
    BY <2>1, LinkOut
  <2>3. t.dist[x] > 0
    BY <1>1, <2>2 DEF Tight
  <2> QED
    BY <1>1, <2>2, <2>3 DEF Candidate
<1>4. /\ c \in Nodes /\ Candidate(t, c)
      /\ \A x \in Nodes : Candidate(t, x) => t.dist[c] <= t.dist[x]
  BY <1>1, <1>3, ClosestIs
<1> HIDE DEF c
<1>5. c \in Nodes \ V /\ t.dist[c] > 0
  BY <1>1, <1>4 DEF Candidate
<1>6. /\ z \in SearchState /\ z.dist = t.dist /\ z.prev = t.prev /\ z.curr_pos = c
      /\ z.visited_nodes = V \cup {c}
  BY <1>1, <1>2, <1>5 DEF SearchState
<1>7. Relaxed(n, z) = R
  BY <1>5, <1>6 DEF Relaxed
<1>8. Tree(n, z, R) /\ Tight(n, z, R)
  BY <1>1, <1>6 DEF Tree, Tight, Base
<1>9. Ascending(z)
  <2>1. \A x \in Nodes : t.dist[x] \in Nat
    BY <1>1 DEF SearchState
  <2>2. \A v \in Nodes \ V : t.dist[v] > 0 => t.dist[c] <= t.dist[v]
    BY <1>1, <1>4 DEF Candidate
  <2>3. \A u \in V : t.dist[u] > 0 /\ t.dist[u] <= t.dist[c]
                     /\ \A v \in Nodes \ V : t.dist[v] > 0 => t.dist[u] <= t.dist[v]
    BY <1>1, <1>5 DEF Ascending
  <2> QED
    BY <1>5, <1>6, <2>1, <2>2, <2>3 DEF Ascending
<1> QED
  BY <1>1, <1>5, <1>6, <1>7, <1>8, <1>9 DEF SearchInv

\* Each round visits a node, so the search finds what it is for.
LEMMA SearchEnds ==
    ASSUME Settled, NEW n \in Nodes, NEW d \in Nodes, n # d, NEW s, s = Search(n, d)
    PROVE  SearchInv(n, s) /\ s.curr_pos = d /\ d \in s.visited_nodes
<1> DEFINE K == Cardinality(Nodes)
           After(r) == IF d \in r.visited_nodes THEN r ELSE Visit(Updated(n, r))
           step == [a \in Nat \X SearchState |-> After(a[2])]
           IsRound(f) == f = [k \in 0..K |->
               IF k = 0 THEN Start(n)
               ELSE IF d \in f[k - 1].visited_nodes THEN f[k - 1]
               ELSE Visit(Updated(n, f[k - 1]))]
           round == CHOOSE f : IsRound(f)
<1>1. IsFiniteSet(Nodes) /\ K \in Nat
  BY RouteAssumption, FS_CardinalityType
<1>2. Start(n) \in SearchState
  BY StartSearches DEF SearchInv
<1>3. step \in [Nat \X SearchState -> SearchState]
  BY UpdatedType DEF Settled
<1> HIDE DEF K
<1>4. PICK f : Iterates(f, SearchState, Start(n), step, K)
  <2> HIDE DEF step
  <2> QED
    BY <1>1, <1>2, <1>3, IteratesExist
<1>5. IsRound(f)
  <2>1. \A k \in 0..K : k # 0 => k - 1 \in 0..K /\ k \in Nat
    BY <1>1
  <2>2. \A k \in 0..K : k # 0 => f[k - 1] \in SearchState
    BY <1>4, <2>1 DEF Iterates
  <2>3. \A k \in 0..K : k # 0 => step[<<k, f[k - 1]>>] = After(f[k - 1])
    <3> HIDE DEF After
    <3> QED
      BY <2>1, <2>2
  <2> HIDE DEF step
  <2> QED
    BY <1>4, <2>3 DEF Iterates
<1>6. IsRound(round)
  <2> HIDE DEF IsRound
  <2> QED
    BY <1>5
<1>7. s = round[K]
  BY DEF Search, K
<1> HIDE DEF round
<1>8. /\ round[0] = Start(n)
      /\ \A k \in Nat : k < K => round[k + 1] = After(round[k])
  <2>1. \A k \in 0..K : round[k] = IF k = 0 THEN Start(n)
                                   ELSE IF d \in round[k - 1].visited_nodes THEN round[k - 1]
                                   ELSE Visit(Updated(n, round[k - 1]))
    BY <1>6, Zenon
  <2>2. \A k \in Nat : k < K => k + 1 \in 0..K /\ k + 1 # 0 /\ k + 1 - 1 = k
    BY <1>1
  <2>3. 0 \in 0..K
    BY <1>1
  <2> QED
    BY <2>1, <2>2, <2>3
<1> HIDE DEF After
<1> DEFINE Good(k, r) == /\ SearchInv(n, r)
                         /\ IF d \in r.visited_nodes THEN r.curr_pos = d
                            ELSE Cardinality(r.visited_nodes) = k
           B == {k \in Nat : k <= K => Good(k, round[k])}
<1>9. 0 \in B
  <2>1. Start(n).visited_nodes = {} /\ Cardinality({}) = 0
    BY FS_EmptySet DEF Start
  <2> QED
    BY <1>8, <2>1, StartSearches
<1>10. ASSUME NEW k \in Nat, k \in B, k < K PROVE k + 1 \in B
  <2> DEFINE r == round[k]
             z == round[k + 1]
  <2>1. Good(k, r) /\ z = After(r)
    BY <1>1, <1>8, <1>10
  <2> HIDE DEF r, z
  <2>2. CASE d \in r.visited_nodes
    <3>1. z = r
      BY <2>1, <2>2 DEF After
    <3> QED
      BY <2>1, <2>2, <3>1 DEF z
  <2>3. CASE d \notin r.visited_nodes
    <3>1. z = Visit(Updated(n, r)) /\ SearchInv(n, r)
      BY <2>1, <2>3 DEF After
    <3>2. /\ SearchInv(n, z) /\ z.curr_pos \in Nodes \ r.visited_nodes
          /\ z.visited_nodes = r.visited_nodes \cup {z.curr_pos}
      BY <2>3, <3>1, VisitKeeps
    <3>3. d \in z.visited_nodes => z.curr_pos = d
      BY <2>3, <3>2
    <3>4. Cardinality(z.visited_nodes) = k + 1
      <4>1. IsFiniteSet(r.visited_nodes)
        BY <1>1, <3>1, FS_Subset DEF SearchInv, SearchState
      <4> QED
        BY <2>1, <2>3, <3>2, <4>1, FS_AddElement
    <3> QED
      BY <3>2, <3>3, <3>4 DEF z
  <2> QED
    BY <2>2, <2>3
<1>11. Good(K, s)
  <2> HIDE DEF B
  <2>1. \A k \in 0..K : k \in B
    BY <1>1, <1>9, <1>10, Throughout
  <2> QED
    BY <1>1, <1>7, <2>1 DEF B
<1>12. d \in s.visited_nodes
  <2> SUFFICES ASSUME d \notin s.visited_nodes PROVE FALSE
    OBVIOUS
  <2>1. Cardinality(s.visited_nodes) = K /\ s.visited_nodes \in SUBSET Nodes
    BY <1>11 DEF SearchInv, SearchState
  <2>2. Cardinality(s.visited_nodes) + 1 <= K
    BY <1>1, <2>1, SmallerBy DEF K
  <2> QED
    BY <1>1, <2>1, <2>2
<1> QED
  BY <1>11, <1>12

\* How far d is from n.
Far(n, d) == IF n = d THEN 0 ELSE Search(n, d).dist[d]

LEMMA FarIsNat == ASSUME Settled, NEW n \in Nodes, NEW d \in Nodes PROVE Far(n, d) \in Nat
<1>1. n # d => Search(n, d) \in SearchState
  BY SearchEnds DEF SearchInv
<1> QED
  BY <1>1 DEF Far, SearchState

LEMMA NoWayShorter ==
    ASSUME Settled, NEW n \in Nodes, NEW d \in Nodes, NEW a \in Nat, Way(n, d, a)
    PROVE  Far(n, d) <= a
<1>1. CASE n = d
  BY <1>1 DEF Far
<1>2. CASE n # d
  <2> DEFINE s == Search(n, d)
             In(u, b) == \/ b >= s.dist[d]
                         \/ u \in s.visited_nodes \cup {n} /\ b >= Base(n, s, u)
             S == {p \in Nodes \X Nat : In(p[1], p[2])}
  <2>1. SearchInv(n, s) /\ s.curr_pos = d /\ d \in s.visited_nodes
    BY <1>2, SearchEnds
  <2> HIDE DEF s
  <2>2. /\ \A x \in Nodes : s.dist[x] \in Nat /\ Base(n, s, x) \in Nat
        /\ Relaxed(n, s) = (s.visited_nodes \ {d}) \cup {n}
        /\ Tight(n, s, Relaxed(n, s)) /\ Ascending(s)
    BY <2>1 DEF SearchInv, SearchState, Base, Relaxed
  <2>3. <<n, 0>> \in S
    BY <2>2 DEF Base
  <2>4. Spreads(S)
    <3> SUFFICES ASSUME NEW u \in Nodes, NEW v \in Nodes, NEW b \in Nat, <<u, b>> \in S, Linked(u, v)
                 PROVE  <<v, b + links[<<u, v>>]>> \in S
      BY DEF Spreads
    <3> DEFINE w == links[<<u, v>>]
    <3>1. w \in Nat /\ w > 0
      BY LinkIs
    <3>2. \/ b >= s.dist[d]
          \/ u \in s.visited_nodes \cup {n} /\ b >= Base(n, s, u)
      <4>1. In(u, b)
        <5> HIDE DEF In
        <5> QED
          OBVIOUS
      <4> QED
        BY <4>1
    <3>3. CASE b >= s.dist[d]
      <4>1. b + w >= s.dist[d] /\ b + w \in Nat
        BY <2>2, <3>1, <3>3
      <4> QED
        BY <4>1
    <3>4. CASE u \in Relaxed(n, s) /\ b >= Base(n, s, u)
      <4>1. s.dist[v] > 0 /\ s.dist[v] <= Base(n, s, u) + w
        BY <2>2, <3>4 DEF Tight
      <4>2. b + w >= s.dist[v] /\ b + w \in Nat
        BY <2>2, <3>1, <3>4, <4>1
      <4>3. CASE v \in s.visited_nodes
        <5>1. b + w >= Base(n, s, v)
          BY <3>1, <4>2 DEF Base
        <5> QED
          BY <4>2, <4>3, <5>1
      <4>4. CASE v \notin s.visited_nodes
        <5>1. s.dist[d] <= s.dist[v]
          BY <2>1, <2>2, <4>1, <4>4 DEF Ascending
        <5>2. b + w >= s.dist[d]
          BY <2>2, <4>2, <5>1
        <5> QED
          BY <4>2, <5>2
      <4> QED
        BY <4>3, <4>4
    <3>5. CASE u \notin Relaxed(n, s) /\ u \in s.visited_nodes /\ b >= Base(n, s, u)
      <4>1. u = d /\ b >= s.dist[d]
        BY <1>2, <2>2, <3>5 DEF Base
      <4> QED
        BY <3>3, <4>1
    <3> QED
      BY <2>2, <3>2, <3>3, <3>4, <3>5
  <2>5. <<d, a>> \in S
    <3> HIDE DEF S
    <3>1. S \in SUBSET (Nodes \X Nat)
      BY DEF S
    <3> QED
      BY <2>3, <2>4, <3>1 DEF Way
  <2>6. a >= s.dist[d]
    BY <1>2, <2>5 DEF Base
  <2> QED
    BY <1>2, <2>2, <2>6 DEF Far, s
<1> QED
  BY <1>1, <1>2

Below(s, x) == {y \in Nodes : s.dist[y] < s.dist[x]}

\* Back along the tree from d to the node next to n.
LEMMA FirstHopIs ==
    ASSUME Settled, NEW n \in Nodes, NEW d \in Nodes, n # d, NEW s, s = Search(n, d),
           NEW h, h = FirstHop(n, d, s)
    PROVE  /\ h \in Nodes /\ Linked(n, h)
           /\ links[<<n, h>>] <= s.dist[d] /\ Way(h, d, s.dist[d] - links[<<n, h>>])
<1> DEFINE K == Cardinality(Nodes)
           After(x) == IF s.prev[x] = n THEN x ELSE s.prev[x]
           step == [a \in Nat \X Nodes |-> After(a[2])]
           IsBack(f) == f = [k \in 0..K |->
               IF k = 0 THEN d
               ELSE IF s.prev[f[k - 1]] = n THEN f[k - 1]
               ELSE s.prev[f[k - 1]]]
           back == CHOOSE f : IsBack(f)
<1>1. IsFiniteSet(Nodes) /\ K \in Nat
  BY RouteAssumption, FS_CardinalityType
<1>2. SearchInv(n, s) /\ s.curr_pos = d /\ d \in s.visited_nodes
  BY SearchEnds
<1>3. /\ \A x \in Nodes : s.dist[x] \in Nat /\ s.prev[x] \in Nodes
      /\ Relaxed(n, s) = (s.visited_nodes \ {d}) \cup {n} /\ s.visited_nodes \subseteq Nodes
      /\ Tree(n, s, Relaxed(n, s)) /\ Ascending(s)
  BY <1>2 DEF SearchInv, SearchState, Relaxed
<1>4. step \in [Nat \X Nodes -> Nodes]
  BY <1>3
<1> HIDE DEF K
<1>5. PICK f : Iterates(f, Nodes, d, step, K)
  <2> HIDE DEF step
  <2> QED
    BY <1>1, <1>4, IteratesExist
<1>6. IsBack(f)
  <2>1. \A k \in 0..K : k # 0 => k - 1 \in 0..K /\ k \in Nat
    BY <1>1
  <2>2. \A k \in 0..K : k # 0 => f[k - 1] \in Nodes
    BY <1>5, <2>1 DEF Iterates
  <2>3. \A k \in 0..K : k # 0 => step[<<k, f[k - 1]>>] = After(f[k - 1])
    <3> HIDE DEF After
    <3> QED
      BY <2>1, <2>2
  <2> HIDE DEF step
  <2> QED
    BY <1>5, <2>3 DEF Iterates
<1>7. IsBack(back)
  <2> HIDE DEF IsBack
  <2> QED
    BY <1>6
<1>8. h = back[K]
  BY DEF FirstHop, K
<1> HIDE DEF back
<1>9. /\ back[0] = d
      /\ \A k \in Nat : k < K => back[k + 1] = After(back[k])
  <2>1. \A k \in 0..K : back[k] = IF k = 0 THEN d
                                  ELSE IF s.prev[back[k - 1]] = n THEN back[k - 1]
                                  ELSE s.prev[back[k - 1]]
    BY <1>7, Zenon
  <2>2. \A k \in Nat : k < K => k + 1 \in 0..K /\ k + 1 # 0 /\ k + 1 - 1 = k
    BY <1>1
  <2>3. 0 \in 0..K
    BY <1>1
  <2> QED
    BY <2>1, <2>2, <2>3
<1> DEFINE Good(k, x) ==
             /\ x \in s.visited_nodes /\ s.dist[x] <= s.dist[d]
             /\ Way(x, d, s.dist[d] - s.dist[x])
             /\ s.prev[x] # n => Cardinality(Below(s, x)) + k + 1 <= K
           B == {k \in Nat : k <= K => Good(k, back[k])}
<1>10. 0 \in B
  <2>1. s.dist[d] - s.dist[d] = 0
    BY <1>3
  <2>2. Cardinality(Below(s, d)) + 0 + 1 <= K
    <3>1. d \notin Below(s, d) /\ Below(s, d) \in SUBSET Nodes
      BY <1>3 DEF Below
    <3> QED
      BY <1>1, <3>1, SmallerBy DEF K
  <2> QED
    BY <1>2, <1>3, <1>9, <2>1, <2>2, WayHere
<1>11. ASSUME NEW k \in Nat, k \in B, k < K PROVE k + 1 \in B
  <2> DEFINE x == back[k]
             y == s.prev[x]
  <2>1. Good(k, x) /\ back[k + 1] = After(x)
    BY <1>1, <1>9, <1>11
  <2> HIDE DEF x
  <2>2. CASE y = n
    <3>1. back[k + 1] = x
      BY <2>1, <2>2
    <3> QED
      BY <2>1, <2>2, <3>1
  <2>3. CASE y # n
    <3>1. back[k + 1] = y /\ x \in Nodes /\ s.dist[x] > 0
      BY <1>3, <2>1, <2>3 DEF Ascending
    <3>2. /\ y \in Relaxed(n, s) /\ Linked(y, x)
          /\ s.dist[x] = Base(n, s, y) + links[<<y, x>>]
      BY <1>3, <3>1 DEF Tree
    <3>3. y \in s.visited_nodes /\ y \in Nodes /\ Base(n, s, y) = s.dist[y]
      BY <1>3, <2>3, <3>2 DEF Base
    <3>4. links[<<y, x>>] \in Nat /\ links[<<y, x>>] > 0
      BY <3>2, LinkIs
    <3>5. /\ s.dist[y] < s.dist[x] /\ s.dist[y] <= s.dist[d]
          /\ s.dist[d] - s.dist[x] \in Nat
          /\ s.dist[d] - s.dist[y] = links[<<y, x>>] + (s.dist[d] - s.dist[x])
      BY <1>3, <2>1, <3>1, <3>2, <3>3, <3>4
    <3>6. Way(y, d, s.dist[d] - s.dist[y])
      <4>1. Way(y, x, 0 + links[<<y, x>>])
        BY <3>1, <3>2, <3>3, WayHere, WayOn
      <4>2. Way(y, x, links[<<y, x>>])
        BY <3>4, <4>1
      <4> QED
        BY <2>1, <3>1, <3>3, <3>4, <3>5, <4>2, WayJoin
    <3>7. Cardinality(Below(s, y)) + (k + 1) + 1 <= K
      <4>1. y \in Below(s, x) \ Below(s, y) /\ Below(s, y) \in SUBSET Below(s, x)
        BY <1>3, <3>1, <3>3, <3>5 DEF Below
      <4>2. IsFiniteSet(Below(s, x))
        BY <1>1, FS_Subset DEF Below
      <4>3. /\ Cardinality(Below(s, y)) \in Nat /\ Cardinality(Below(s, x)) \in Nat
            /\ Cardinality(Below(s, y)) + 1 <= Cardinality(Below(s, x))
        BY <4>1, <4>2, SmallerBy
      <4>4. Cardinality(Below(s, x)) + k + 1 <= K
        BY <2>1, <2>3
      <4> QED
        BY <1>1, <4>3, <4>4
    <3> HIDE DEF y
    <3> QED
      BY <3>1, <3>3, <3>5, <3>6, <3>7
  <2> QED
    BY <2>2, <2>3
<1>12. Good(K, h)
  <2> HIDE DEF B
  <2>1. \A k \in 0..K : k \in B
    BY <1>1, <1>10, <1>11, Throughout
  <2> QED
    BY <1>1, <1>8, <2>1 DEF B
<1>13. h \in Nodes /\ s.dist[h] > 0
  BY <1>3, <1>12 DEF Ascending
<1>14. s.prev[h] = n
  <2> SUFFICES ASSUME s.prev[h] # n PROVE FALSE
    OBVIOUS
  <2>1. Cardinality(Below(s, h)) \in Nat
    <3>1. IsFiniteSet(Below(s, h))
      BY <1>1, FS_Subset DEF Below
    <3> QED
      BY <3>1, FS_CardinalityType
  <2> QED
    BY <1>1, <1>12, <2>1
<1>15. Linked(n, h) /\ s.dist[h] = 0 + links[<<n, h>>]
  BY <1>3, <1>13, <1>14 DEF Tree, Base
<1>16. s.dist[h] = links[<<n, h>>]
  BY <1>15, LinkIs
<1> QED
  BY <1>12, <1>13, <1>15, <1>16

LEMMA HopNearer ==
    ASSUME Settled, NEW n \in Nodes, NEW d \in Nodes, n # d, NEW h, h = GetNextHop(n, d)
    PROVE  /\ h \in Nodes /\ Linked(n, h)
           /\ links[<<n, h>>] + Far(h, d) <= Far(n, d) /\ Far(h, d) < Far(n, d)
<1> DEFINE s == Search(n, d)
           hop == FirstHop(n, d, s)
<1>1. d \in s.visited_nodes
  BY SearchEnds
<1>2. /\ hop \in Nodes /\ Linked(n, hop)
      /\ links[<<n, hop>>] <= s.dist[d] /\ Way(hop, d, s.dist[d] - links[<<n, hop>>])
  BY FirstHopIs
<1>3. n \in made
  <2>1. PICK u \in {n}, v \in Nodes \ {n} : Linked(u, v) /\ u \in made
    <3>1. {n} \in SUBSET Nodes /\ n \in {n} /\ d \in Nodes \ {n}
      OBVIOUS
    <3> QED
      BY <3>1, LinkOut
  <2> QED
    BY <2>1
<1>4. h = hop
  BY <1>1, <1>2, <1>3 DEF GetNextHop, FindNeighbor, Linked
<1>5. Far(n, d) = s.dist[d] /\ Far(n, d) \in Nat
  BY FarIsNat DEF Far
<1> HIDE DEF s, hop
<1> DEFINE w == links[<<n, h>>]
<1>6. w \in Nat /\ w > 0
  BY <1>2, <1>4, LinkIs
<1>7. Far(n, d) - w \in Nat /\ Way(h, d, Far(n, d) - w)
  BY <1>2, <1>4, <1>5, <1>6
<1>8. Far(h, d) <= Far(n, d) - w /\ Far(h, d) \in Nat
  BY <1>2, <1>4, <1>7, NoWayShorter, FarIsNat
<1> QED
  BY <1>2, <1>4, <1>5, <1>6, <1>8
-----------------------------------------------------------------------------
(***************************************************************************)
(* The path that is drawn.                                                 *)
(***************************************************************************)

PathSeq == {p \in Seq(Nodes) : p # <<>> /\ IsPath(p)}

LEMMA PathLinks ==
    ASSUME Settled, NEW p \in PathSeq
    PROVE  /\ p \in Seq(Nodes) /\ Len(p) \in Nat /\ Len(p) - 1 \in Nat /\ DOMAIN p = 1..Len(p)
           /\ Last(p) = p[Len(p)] /\ Last(p) \in Nodes /\ p[1] \in Nodes
           /\ \A k \in 1..(Len(p) - 1) :
                 /\ p[k] \in Nodes /\ p[k + 1] \in Nodes /\ Linked(p[k], p[k + 1])
                 /\ links[<<p[k], p[k + 1]>>] \in Nat
<1>1. p \in Seq(Nodes) /\ Len(p) \in Nat /\ Len(p) # 0 /\ DOMAIN p = 1..Len(p)
  BY DEF PathSeq
<1>2. \A k \in 1..Len(p) : p[k] \in Nodes
  BY <1>1
<1>3. \A k \in 1..(Len(p) - 1) : p[k] \in Nodes /\ p[k + 1] \in Nodes /\ Linked(p[k], p[k + 1])
  <2>1. \A k \in 1..(Len(p) - 1) : k \in 1..Len(p) /\ k + 1 \in 1..Len(p)
    BY <1>1
  <2> QED
    BY <1>2, <2>1 DEF PathSeq, IsPath, Linked
<1>4. Last(p) = p[Len(p)] /\ Len(p) \in 1..Len(p) /\ 1 \in 1..Len(p)
  BY <1>1 DEF Last
<1> QED
  BY <1>1, <1>2, <1>3, <1>4, LinkIs

Sums(f, p) ==
    /\ f \in [0..(Len(p) - 1) -> Nat] /\ f[0] = 0
    /\ \A k \in Nat : k < Len(p) - 1 => f[k + 1] = f[k] + links[<<p[k + 1], p[k + 1 + 1]>>]
    /\ Latency(p) = f[Len(p) - 1]

LEMMA LatencySums ==
    ASSUME Settled, NEW p \in PathSeq
    PROVE  \E f : Sums(f, p)
<1> DEFINE K == Len(p) - 1
           w(k) == links[<<p[k], p[k + 1]>>]
           step == [a \in Nat \X Nat |-> IF a[1] \in 1..K THEN a[2] + w(a[1]) ELSE 0]
           IsSum(f) == f = [k \in 0..K |-> IF k = 0 THEN 0 ELSE f[k - 1] + links[<<p[k], p[k + 1]>>]]
           sum == CHOOSE f : IsSum(f)
<1>1. K \in Nat /\ \A k \in 1..K : w(k) \in Nat
  BY PathLinks
<1>2. Latency(p) = sum[K]
  BY DEF Latency
<1> HIDE DEF K, w
<1>3. step \in [Nat \X Nat -> Nat]
  BY <1>1
<1>4. PICK f : Iterates(f, Nat, 0, step, K)
  <2> HIDE DEF step
  <2> QED
    BY <1>1, <1>3, IteratesExist
<1>5. IsSum(f)
  <2>1. \A k \in 0..K : k # 0 => k - 1 \in 0..K /\ k \in 1..K /\ k \in Nat
    BY <1>1
  <2>2. \A k \in 0..K : k # 0 => f[k - 1] \in Nat
    BY <1>4, <2>1 DEF Iterates
  <2>3. \A k \in 0..K : k # 0 => step[<<k, f[k - 1]>>] = f[k - 1] + w(k)
    BY <2>1, <2>2
  <2> HIDE DEF step
  <2>4. f = [k \in 0..K |-> IF k = 0 THEN 0 ELSE f[k - 1] + w(k)]
    BY <1>4, <2>3 DEF Iterates
  <2> QED
    BY <2>4, Zenon DEF w
<1>6. IsSum(sum)
  <2> HIDE DEF IsSum
  <2> QED
    BY <1>5
<1> HIDE DEF sum
<1>7. /\ sum[0] = 0
      /\ \A k \in Nat : k < K => sum[k + 1] = sum[k] + w(k + 1)
  <2>1. \A k \in 0..K : sum[k] = IF k = 0 THEN 0 ELSE sum[k - 1] + w(k)
    BY <1>6, Zenon DEF w
  <2>2. \A k \in Nat : k < K => k + 1 \in 0..K /\ k + 1 # 0 /\ k + 1 - 1 = k
    BY <1>1
  <2>3. 0 \in 0..K
    BY <1>1
  <2> QED
    BY <2>1, <2>2, <2>3
<1>8. sum \in [0..K -> Nat]
  <2> DEFINE B == {k \in Nat : k <= K => sum[k] \in Nat}
  <2>1. 0 \in B
    BY <1>7
  <2>2. ASSUME NEW k \in Nat, k \in B, k < K PROVE k + 1 \in B
    <3>1. k + 1 \in 1..K /\ sum[k] \in Nat
      BY <1>1, <2>2
    <3> QED
      BY <1>1, <1>7, <2>2, <3>1
  <2>3. \A k \in 0..K : k \in B
    <3> HIDE DEF B
    <3> QED
      BY <1>1, <2>1, <2>2, Throughout
  <2>4. DOMAIN sum = 0..K /\ sum = [k \in 0..K |-> sum[k]]
    BY <1>6
  <2>5. \A k \in 0..K : sum[k] \in Nat
    BY <1>1, <2>3
  <2> QED
    BY <2>4, <2>5
<1> QED
  BY <1>2, <1>7, <1>8 DEF Sums, K, w

LEMMA PathIsWay ==
    ASSUME Settled, NEW p \in PathSeq
    PROVE  Latency(p) \in Nat /\ Way(p[1], Last(p), Latency(p))
<1> DEFINE K == Len(p) - 1
<1>1. PICK f : Sums(f, p)
  BY LatencySums
<1>2. /\ K \in Nat /\ Last(p) = p[K + 1]
      /\ \A k \in Nat : k < K =>
            p[k + 1] \in Nodes /\ p[k + 1 + 1] \in Nodes /\ Linked(p[k + 1], p[k + 1 + 1])
  <2>1. /\ K \in Nat /\ Last(p) = p[Len(p)] /\ Len(p) \in Nat
        /\ \A j \in 1..K : p[j] \in Nodes /\ p[j + 1] \in Nodes /\ Linked(p[j], p[j + 1])
    BY PathLinks
  <2>2. Len(p) = K + 1 /\ \A k \in Nat : k < K => k + 1 \in 1..K
    BY <2>1
  <2> HIDE DEF K
  <2> QED
    BY <2>1, <2>2
<1> HIDE DEF K
<1>3. /\ f \in [0..K -> Nat] /\ f[0] = 0 /\ Latency(p) = f[K]
      /\ \A k \in Nat : k < K => f[k + 1] = f[k] + links[<<p[k + 1], p[k + 1 + 1]>>]
  BY <1>1 DEF Sums, K
<1> DEFINE B == {k \in Nat : k <= K => Way(p[1], p[k + 1], f[k])}
<1>4. 0 \in B
  BY <1>3, WayHere
<1>5. ASSUME NEW k \in Nat, k \in B, k < K PROVE k + 1 \in B
  <2>1. Way(p[1], p[k + 1], f[k]) /\ f[k] \in Nat
    BY <1>2, <1>3, <1>5
  <2>2. Way(p[1], p[k + 1 + 1], f[k] + links[<<p[k + 1], p[k + 1 + 1]>>])
    BY <1>2, <1>5, <2>1, WayOn
  <2> QED
    BY <1>3, <1>5, <2>2
<1>6. K \in B
  <2> HIDE DEF B
  <2>1. \A k \in 0..K : k \in B
    BY <1>2, <1>4, <1>5, Throughout
  <2> QED
    BY <1>2, <2>1
<1> QED
  BY <1>2, <1>3, <1>6

LEMMA PathGrows ==
    ASSUME Settled, NEW p \in PathSeq, NEW h \in Nodes, Linked(Last(p), h)
    PROVE  /\ Append(p, h) \in PathSeq /\ Last(Append(p, h)) = h
           /\ Latency(Append(p, h)) = Latency(p) + links[<<Last(p), h>>]
<1> DEFINE q == Append(p, h)
           K == Len(p) - 1
<1>1. /\ p \in Seq(Nodes) /\ Len(p) \in Nat /\ K \in Nat /\ Len(p) = K + 1 /\ Last(p) = p[Len(p)]
      /\ \A k \in 1..K : Linked(p[k], p[k + 1])
  <2>1. /\ p \in Seq(Nodes) /\ Len(p) \in Nat /\ K \in Nat /\ Last(p) = p[Len(p)]
        /\ \A k \in 1..K : Linked(p[k], p[k + 1])
    BY PathLinks
  <2>2. Len(p) = K + 1
    BY <2>1
  <2> QED
    BY <2>1, <2>2
<1>2. /\ q \in Seq(Nodes) /\ q # <<>> /\ Len(q) = Len(p) + 1 /\ q[Len(p) + 1] = h
      /\ \A k \in 1..Len(p) : q[k] = p[k]
  BY <1>1
<1> HIDE DEF q, K
<1>3. \A k \in 1..(Len(q) - 1) : Linked(q[k], q[k + 1])
  <2> TAKE k \in 1..(Len(q) - 1)
  <2>1. CASE k = Len(p)
    <3>1. q[k] = p[Len(p)] /\ q[k + 1] = h
      BY <1>1, <1>2, <2>1
    <3> QED
      BY <1>1, <3>1
  <2>2. CASE k # Len(p)
    <3>1. k \in 1..K /\ k \in 1..Len(p) /\ k + 1 \in 1..Len(p)
      BY <1>1, <1>2, <2>2
    <3> QED
      BY <1>1, <1>2, <3>1
  <2> QED
    BY <2>1, <2>2
<1>4. q \in PathSeq /\ Last(q) = h
  BY <1>1, <1>2, <1>3 DEF PathSeq, IsPath, Linked, Last
<1>5. PICK f : Sums(f, p)
  BY LatencySums
<1>6. PICK g : Sums(g, q)
  BY <1>4, LatencySums
<1>7. /\ f \in [0..K -> Nat] /\ f[0] = 0 /\ Latency(p) = f[K]
      /\ \A k \in Nat : k < K => f[k + 1] = f[k] + links[<<p[k + 1], p[k + 1 + 1]>>]
  BY <1>5 DEF Sums, K
<1>8. /\ g[0] = 0 /\ Latency(q) = g[K + 1]
      /\ \A k \in Nat : k < K + 1 => g[k + 1] = g[k] + links[<<q[k + 1], q[k + 1 + 1]>>]
  <2>1. Len(q) - 1 = K + 1
    BY <1>1, <1>2
  <2> QED
    BY <1>6, <2>1 DEF Sums
<1> DEFINE B == {k \in Nat : k <= K => g[k] = f[k]}
<1>9. 0 \in B
  BY <1>7, <1>8
<1>10. ASSUME NEW k \in Nat, k \in B, k < K PROVE k + 1 \in B
  <2>1. k + 1 \in 1..Len(p) /\ k + 1 + 1 \in 1..Len(p) /\ k < K + 1
    BY <1>1, <1>10
  <2>2. q[k + 1] = p[k + 1] /\ q[k + 1 + 1] = p[k + 1 + 1]
    BY <1>2, <2>1
  <2>3. g[k + 1] = g[k] + links[<<q[k + 1], q[k + 1 + 1]>>]
    BY <1>8, <2>1
  <2>4. f[k + 1] = f[k] + links[<<p[k + 1], p[k + 1 + 1]>>]
    BY <1>7, <1>10
  <2>5. g[k] = f[k]
    BY <1>1, <1>10
  <2> QED
    BY <2>2, <2>3, <2>4, <2>5
<1>11. g[K] = f[K]
  <2> HIDE DEF B
  <2>1. \A k \in 0..K : k \in B
    BY <1>1, <1>9, <1>10, Throughout
  <2> QED
    BY <1>1, <2>1 DEF B
<1>12. g[K + 1] = g[K] + links[<<q[K + 1], q[K + 1 + 1]>>]
  BY <1>1, <1>8
<1>13. q[K + 1] = Last(p) /\ q[K + 1 + 1] = h
  BY <1>1, <1>2
<1> QED
  BY <1>4, <1>7, <1>8, <1>11, <1>12, <1>13 DEF q

LEMMA HopType ==
    ASSUME TypeOK, NEW n \in Nodes, NEW d \in Nodes
    PROVE  GetNextHop(n, d) \in Nodes \cup {NONE}
<1>1. ASSUME NEW x, <<n, x>> \in DOMAIN links PROVE x \in Nodes
  BY <1>1 DEF TypeOK, Pairs
<1> QED
  BY <1>1 DEF GetNextHop, FindNeighbor

\* From each node on the path the next is nearer, so the path ends.
LEMMA PathArrives ==
    ASSUME Settled, NEW src \in Nodes, NEW dest \in Nodes, NEW p, p = CollectPathLinks(src, dest)
    PROVE  p \in PathSeq /\ Last(p) = dest /\ Latency(p) <= Far(src, dest)
<1> DEFINE C == Cardinality(Nodes)
           K == 2 * C + 1
           S == {q \in Seq(Nodes \cup {NONE}) : q # <<>>}
           After(q) == IF Last(q) \in {dest, NONE} THEN q ELSE Append(q, GetNextHop(Last(q), dest))
           step == [a \in Nat \X S |-> After(a[2])]
           IsRoute(f) == f = [k \in 0..K |->
               IF k = 0 THEN <<src>>
               ELSE IF Last(f[k - 1]) \in {dest, NONE} THEN f[k - 1]
               ELSE Append(f[k - 1], GetNextHop(Last(f[k - 1]), dest))]
           path == CHOOSE f : IsRoute(f)
           Nearer(x) == {y \in Nodes : Far(y, dest) < Far(x, dest)}
<1>1. IsFiniteSet(Nodes) /\ C \in Nat /\ K \in Nat /\ C <= K
  BY RouteAssumption, FS_CardinalityType
<1>2. p = path[K]
  BY DEF CollectPathLinks
<1> HIDE DEF C, K
<1>3. <<src>> \in S /\ Len(<<src>>) = 1 /\ <<src>>[1] = src
  OBVIOUS
<1>4. step \in [Nat \X S -> S]
  <2> SUFFICES ASSUME NEW q \in S PROVE After(q) \in S
    OBVIOUS
  <2>1. q \in Seq(Nodes \cup {NONE}) /\ q # <<>> /\ Last(q) \in Nodes \cup {NONE}
    BY DEF Last
  <2>2. CASE Last(q) \in {dest, NONE}
    BY <2>2
  <2>3. CASE Last(q) \notin {dest, NONE}
    <3> DEFINE h == GetNextHop(Last(q), dest)
    <3>1. h \in Nodes \cup {NONE}
      BY <2>1, <2>3, HopType DEF Settled
    <3> HIDE DEF h
    <3>2. Append(q, h) \in Seq(Nodes \cup {NONE}) /\ Append(q, h) # <<>>
      BY <2>1, <3>1
    <3> QED
      BY <2>3, <3>2 DEF h
  <2> QED
    BY <2>2, <2>3
<1>5. PICK f : Iterates(f, S, <<src>>, step, K)
  <2> HIDE DEF step, S
  <2> QED
    BY <1>1, <1>3, <1>4, IteratesExist
<1>6. IsRoute(f)
  <2>1. \A k \in 0..K : k # 0 => k - 1 \in 0..K /\ k \in Nat
    BY <1>1
  <2>2. \A k \in 0..K : k # 0 => f[k - 1] \in S
    <3> HIDE DEF S
    <3> QED
      BY <1>5, <2>1 DEF Iterates
  <2>3. \A k \in 0..K : k # 0 => step[<<k, f[k - 1]>>] = After(f[k - 1])
    <3> HIDE DEF After, S
    <3> QED
      BY <2>1, <2>2
  <2> HIDE DEF step
  <2> QED
    BY <1>5, <2>3 DEF Iterates
<1>7. IsRoute(path)
  <2> HIDE DEF IsRoute
  <2> QED
    BY <1>6
<1> HIDE DEF path, S
<1>8. /\ path[0] = <<src>>
      /\ \A k \in Nat : k < K => path[k + 1] = After(path[k])
  <2>1. \A k \in 0..K : path[k] = IF k = 0 THEN <<src>>
                                  ELSE IF Last(path[k - 1]) \in {dest, NONE} THEN path[k - 1]
                                  ELSE Append(path[k - 1], GetNextHop(Last(path[k - 1]), dest))
    BY <1>7, Zenon
  <2>2. \A k \in Nat : k < K => k + 1 \in 0..K /\ k + 1 # 0 /\ k + 1 - 1 = k
    BY <1>1
  <2>3. 0 \in 0..K
    BY <1>1
  <2> QED
    BY <2>1, <2>2, <2>3
<1> DEFINE Good(k, q) ==
             /\ q \in PathSeq
             /\ Latency(q) + Far(Last(q), dest) <= Far(src, dest)
             /\ Last(q) # dest => Cardinality(Nearer(Last(q))) + k + 1 <= C
           B == {k \in Nat : k <= K => Good(k, path[k])}
<1> HIDE DEF After
<1>9. 0 \in B
  <2> DEFINE q == <<src>>
  <2>1. q \in PathSeq /\ Last(q) = src /\ Len(q) = 1
    BY <1>3 DEF PathSeq, IsPath, Last
  <2> HIDE DEF q
  <2>2. Latency(q) = 0
    <3>1. PICK g : Sums(g, q)
      BY <2>1, LatencySums
    <3> QED
      BY <2>1, <3>1 DEF Sums
  <2>3. Far(src, dest) \in Nat
    BY FarIsNat
  <2>4. Cardinality(Nearer(src)) + 0 + 1 <= C
    <3>1. src \notin Nearer(src) /\ Nearer(src) \in SUBSET Nodes
      BY <2>3
    <3> QED
      BY <1>1, <3>1, SmallerBy DEF C
  <2> QED
    BY <1>8, <2>1, <2>2, <2>3, <2>4 DEF q
<1>10. ASSUME NEW k \in Nat, k \in B, k < K PROVE k + 1 \in B
  <2> DEFINE q == path[k]
             h == GetNextHop(Last(q), dest)
  <2>1. Good(k, q) /\ path[k + 1] = After(q)
    BY <1>1, <1>8, <1>10
  <2> HIDE DEF q
  <2>2. Last(q) \in Nodes /\ Last(q) # NONE
    BY <2>1, PathLinks, RouteAssumption
  <2>3. CASE Last(q) = dest
    <3>1. path[k + 1] = q
      BY <2>1, <2>3 DEF After
    <3> QED
      BY <2>1, <2>3, <3>1
  <2>4. CASE Last(q) # dest
    <3>1. path[k + 1] = Append(q, h)
      BY <2>1, <2>2, <2>4 DEF After
    <3>2. /\ h \in Nodes /\ Linked(Last(q), h)
          /\ links[<<Last(q), h>>] + Far(h, dest) <= Far(Last(q), dest)
          /\ Far(h, dest) < Far(Last(q), dest)
      BY <2>2, <2>4, HopNearer
    <3> HIDE DEF h
    <3>3. /\ Append(q, h) \in PathSeq /\ Last(Append(q, h)) = h
          /\ Latency(Append(q, h)) = Latency(q) + links[<<Last(q), h>>]
      BY <2>1, <3>2, PathGrows
    <3>4. Latency(Append(q, h)) + Far(h, dest) <= Far(src, dest)
      <4>1. Latency(q) \in Nat
        BY <2>1, PathIsWay
      <4>2. links[<<Last(q), h>>] \in Nat
        BY <3>2, LinkIs
      <4>3. Far(src, dest) \in Nat /\ Far(h, dest) \in Nat /\ Far(Last(q), dest) \in Nat
        BY <2>2, <3>2, FarIsNat
      <4>4. Latency(q) + Far(Last(q), dest) <= Far(src, dest)
        BY <2>1
      <4> QED
        BY <3>2, <3>3, <4>1, <4>2, <4>3, <4>4
    <3>5. Cardinality(Nearer(h)) + (k + 1) + 1 <= C
      <4>1. \A y \in Nodes : Far(y, dest) \in Nat
        BY FarIsNat
      <4>2. h \in Nearer(Last(q)) \ Nearer(h) /\ Nearer(h) \in SUBSET Nearer(Last(q))
        BY <2>2, <3>2, <4>1
      <4>3. IsFiniteSet(Nearer(Last(q)))
        BY <1>1, FS_Subset
      <4> HIDE DEF Nearer
      <4>4. /\ Cardinality(Nearer(h)) \in Nat /\ Cardinality(Nearer(Last(q))) \in Nat
            /\ Cardinality(Nearer(h)) + 1 <= Cardinality(Nearer(Last(q)))
        BY <4>2, <4>3, SmallerBy
      <4>5. Cardinality(Nearer(Last(q))) + k + 1 <= C
        BY <2>1, <2>4
      <4> QED
        BY <1>1, <4>4, <4>5
    <3> HIDE DEF Nearer
    <3> DEFINE z == Append(q, h)
    <3>6. /\ z \in PathSeq /\ Last(z) = h
          /\ Latency(z) + Far(Last(z), dest) <= Far(src, dest)
          /\ Cardinality(Nearer(Last(z))) + (k + 1) + 1 <= C
      BY <3>3, <3>4, <3>5
    <3>7. path[k + 1] = z
      BY <3>1
    <3> HIDE DEF z
    <3> QED
      BY <3>6, <3>7
  <2> QED
    BY <2>3, <2>4
<1>11. Good(K, p)
  <2> HIDE DEF B
  <2>1. \A k \in 0..K : k \in B
    BY <1>1, <1>9, <1>10, Throughout
  <2>2. K \in B
    BY <1>1, <2>1
  <2> HIDE DEF Good
  <2>3. Good(K, path[K])
    BY <1>1, <2>2 DEF B
  <2> QED
    BY <1>2, <2>3
<1>12. Last(p) = dest
  <2> SUFFICES ASSUME Last(p) # dest PROVE FALSE
    OBVIOUS
  <2>1. Cardinality(Nearer(Last(p))) \in Nat
    <3>1. IsFiniteSet(Nearer(Last(p)))
      BY <1>1, FS_Subset
    <3> QED
      BY <3>1, FS_CardinalityType
  <2> HIDE DEF Nearer
  <2> QED
    BY <1>1, <1>11, <2>1
<1>13. Far(dest, dest) = 0 /\ Latency(p) \in Nat
  BY <1>11, PathIsWay DEF Far
<1> QED
  BY <1>11, <1>12, <1>13

\* The link-state nodes route along shortest paths, for any number of nodes, any
\* topology without a link from a node to itself and any whole latencies: once
\* the rows have spread, the path that the simulator draws by asking one node
\* after the other arrives and is as short as any.  Latencies that are not whole
\* are rounded on the way (node.cc:196), and paths may then be longer.
THEOREM ShortestPaths == Latencies \subseteq Whole /\ Spec => []PathsShortest
<1> SUFFICES ASSUME Latencies \subseteq Whole PROVE Spec => []PathsShortest
  OBVIOUS
<1>1. TypeOK /\ LinksKept /\ Announced /\ Converged => PathsShortest
  <2> SUFFICES ASSUME TypeOK, LinksKept, Announced, Converged, Quiet, LinksKnown,
                      NEW src \in Nodes, NEW dest \in Nodes, src # dest
               PROVE  LET p == CollectPathLinks(src, dest)
                      IN  /\ Last(p) = dest /\ IsPath(p)
                          /\ \A q \in PathsBetween(src, dest) : Latency(p) <= Latency(q)
    BY DEF PathsShortest
  <2> DEFINE p == CollectPathLinks(src, dest)
  <2>1. Settled
    BY DEF Settled
  <2>2. p \in PathSeq /\ Last(p) = dest /\ Latency(p) <= Far(src, dest)
    BY <2>1, PathArrives
  <2> HIDE DEF p
  <2>3. ASSUME NEW q \in PathsBetween(src, dest) PROVE Latency(p) <= Latency(q)
    <3>1. PICK k \in 2..Cardinality(Nodes) : q \in [1..k -> Nodes]
      BY DEF PathsBetween
    <3>2. q \in Seq(Nodes) /\ q # <<>> /\ IsPath(q) /\ q[1] = src /\ Last(q) = dest
      BY <3>1 DEF PathsBetween
    <3>3. Latency(q) \in Nat /\ Way(src, dest, Latency(q))
      <4>1. q \in PathSeq
        BY <3>2 DEF PathSeq
      <4> QED
        BY <2>1, <3>2, <4>1, PathIsWay
    <3>4. Far(src, dest) <= Latency(q) /\ Far(src, dest) \in Nat /\ Latency(p) \in Nat
      BY <2>1, <2>2, <3>3, NoWayShorter, FarIsNat, PathIsWay
    <3> QED
      BY <2>2, <3>3, <3>4
  <2>4. IsPath(p)
    BY <2>2 DEF PathSeq
  <2> QED
    BY <2>2, <2>3, <2>4 DEF p
<1>2. Init => TypeOK /\ LinksKept
  BY TypeInit
<1> QED
  BY <1>1, <1>2, TypeStep, AnnouncedInit, AnnouncedStep, Convergence, PTL DEF Spec
=============================================================================
