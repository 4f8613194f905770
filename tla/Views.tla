------------------------------- MODULE Views --------------------------------
(***************************************************************************)
(* What link-state flooding promises (routelab-w15): every node publishes  *)
(* a growing sequence of rows of its own links, and every node's view of   *)
(* another only ever moves forward to a row that the other has published.  *)
(***************************************************************************)
EXTENDS Naturals, Sequences

CONSTANTS Nodes, Row, Empty

VARIABLES published, \* the rows each node has published, oldest first
          version,   \* version[n][o]: which of o's rows n holds, 0 for none
          view       \* view[n][o]: that row

vars == <<published, version, view>>

Init ==
    /\ published = [o \in Nodes |-> <<>>]
    /\ version = [n \in Nodes |-> [o \in Nodes |-> 0]]
    /\ view = [n \in Nodes |-> [o \in Nodes |-> Empty]]

Publish(o) == \E row \in Row :
    /\ published' = [published EXCEPT ![o] = Append(@, row)]
    /\ version' = [version EXCEPT ![o][o] = Len(published[o]) + 1]
    /\ view' = [view EXCEPT ![o][o] = row]

Learn(n, o) == \E k \in DOMAIN published[o] :
    /\ k > version[n][o]
    /\ version' = [version EXCEPT ![n][o] = k]
    /\ view' = [view EXCEPT ![n][o] = published[o][k]]
    /\ UNCHANGED published

Next == \/ \E o \in Nodes : Publish(o)
        \/ \E n, o \in Nodes : Learn(n, o)

Spec == Init /\ [][Next]_vars
=============================================================================
