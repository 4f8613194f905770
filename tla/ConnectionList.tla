--------------------------- MODULE ConnectionList ---------------------------
(***************************************************************************)
(* The connection table shared by the Minet transport modules:             *)
(* libminet/sockint.cc (Connection) and libminet/constate.h                *)
(* (ConnectionList, a std::deque of ConnectionToStateMapping).             *)
(*                                                                         *)
(* A connection is a record of two endpoints, src (this machine) and dest. *)
(* An endpoint stands for an (address, port) pair; ANY stands for the pair *)
(* (IP_ADDRESS_ANY, PORT_ANY).  Each table holds one protocol, so the      *)
(* protocol comparison of Connection::Matches always succeeds.             *)
(*                                                                         *)
(* An entry has at least the fields conn, tmr (bTmrActive) and due         *)
(* (timeout).  The list operations are stated as predicates on an index    *)
(* ("i is the first match") and not as searches.                           *)
(***************************************************************************)
EXTENDS Naturals, Sequences

CONSTANT ANY

EndpointMatches(a, b) == a = ANY \/ b = ANY \/ a = b

\* A wildcard matches in both directions: a stored LISTEN matches any remote
\* end, and a request with a wildcard matches any stored connection.
Matches(c, d) == EndpointMatches(c.src, d.src) /\ EndpointMatches(c.dest, d.dest)

\* FindMatching returns the first entry that matches...
IsFirstMatch(cl, c, i) ==
    /\ i \in DOMAIN cl
    /\ Matches(cl[i].conn, c)
    /\ \A j \in 1..(i - 1) : ~ Matches(cl[j].conn, c)

\* ... or end().
NoMatch(cl, c) == \A i \in DOMAIN cl : ~ Matches(cl[i].conn, c)

\* FindEarliest on a list of two or more entries starts its minimum at the
\* first entry's timeout, whether or not that entry's timer is active.
TimerCandidates(cl) ==
    {i \in DOMAIN cl : cl[i].tmr /\ (Len(cl) > 1 => cl[i].due <= cl[1].due)}

\* The scan keeps the last of equal minima (constate.h compares with <=).
IsEarliest(cl, i) ==
    /\ i \in TimerCandidates(cl)
    /\ \A j \in TimerCandidates(cl) :
          cl[i].due < cl[j].due \/ (cl[i].due = cl[j].due /\ j <= i)

\* erase(i); every caller but the timer then pushes a copy back at the front.
Without(cl, i) == [j \in 1..(Len(cl) - 1) |-> IF j < i THEN cl[j] ELSE cl[j + 1]]

ToFront(cl, i, e) == <<e>> \o Without(cl, i)
=============================================================================
