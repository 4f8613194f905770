----------------------------- MODULE TcpClaims ------------------------------
(***************************************************************************)
(* What the comments of core/tcp_module.cc and docs/sockint.semantics say  *)
(* of the TCP module, stated of the model of MCTcp.  The code does         *)
(* otherwise.                                                              *)
(***************************************************************************)
EXTENDS MCTcp

FullConns == [src : Locals, dest : Remotes]

\* tcp_module.cc:460, addAcceptSocketConnection: "remove any old accept that might
\* be there."  An ACCEPT request must leave every established connection alone.
AcceptErasesOnlyAccepts ==
    [][\A p \in listening : Ready /\ SockAccept([src |-> p, dest |-> ANY]) =>
          \A i \in DOMAIN clist : clist[i].st = "ESTABLISHED" =>
              \E j \in DOMAIN clist' : clist'[j] = clist[i]]_vars

\* docs/sockint.semantics:127, SOCK->TCP WRITE: "bytes=num bytes actually queued by
\* TCP".  The send buffer must grow by the number the STATUS reports.
WriteReportsQueued ==
    [][\A c \in FullConns, i \in DOMAIN clist, w \in Writes :
          IsFirstMatch(clist, c, i) /\ Ready /\ Queue(i, c, w) =>
              Len(clist'[1].snd) = Len(clist[i].snd) + sock'[1].bytes]_vars

\* tcp_module.cc:890, case TIME_WAIT of checkForTimedOutConnection: "connection has
\* timed out and it is time to delete the connection".
TimeWaitErasesItself ==
    [][TimeWaitOver => \E i \in DOMAIN clist : Expired(i) /\ clist' = Without(clist, i)]_vars

\* tcp_module.cc:710, sendFin: "no more segments to send, send a fin / otherwise,
\* wait for timeout to check".  When the timer of a closed connection that still
\* holds data expires, the data or the FIN must be sent.
TimeoutChecksClose ==
    [][\A i \in DOMAIN clist :
          /\ Expired(i) /\ clist[i].tries > 0
          /\ clist[i].st \in {"FIN_WAIT1", "LAST_ACK"} /\ clist[i].snd # <<>>
          => mux' # {}]_vars

\* tcp_module.cc:571, case SEND_DATA of handleAck: "first check if the ack is in
\* order".  The bytes in flight are the last ones before last_sent: an ACK in order
\* may take off the send buffer none from its own number on.
AckTakesOnlyItsBytes ==
    [][\A i \in DOMAIN clist, s \in Segments :
          LET e == clist[i]
              unacked == Wrap(e.sent - s.ack)
          IN  /\ Ready /\ AckEstablished(s)
              /\ IsFirstMatch(clist, s.conn, i) /\ e.st = "SEND_DATA"
              /\ unacked <= Offset(e) /\ unacked <= Len(e.snd)
              => Len(clist'[1].snd) >= unacked]_vars
=============================================================================
