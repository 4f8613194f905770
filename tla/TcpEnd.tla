------------------------------- MODULE TcpEnd --------------------------------
(***************************************************************************)
(* The TCP module as the sock module sees it: which requests it answers    *)
(* and what it sends unasked.  TcpModule models the same code in full for  *)
(* one side; here only the messages between TCP and sock count, and of a   *)
(* table entry the connection and the kind of its state.                   *)
(*                                                                         *)
(* A SockRequestResponse built without arguments has no defined bytes and  *)
(* error until they are assigned: Garbage.                                 *)
(***************************************************************************)
EXTENDS Naturals, Sequences

CONSTANTS
    ANY, NONE, Remotes,
    MaxPipe

VARIABLES
    tcps,         \* the table: [conn, st] records
    toTcp, fromTcp

Table == INSTANCE ConnectionList

Found(c, i) == Table!IsFirstMatch(tcps, c, i)

NotInTable(c) == Table!NoMatch(tcps, c)

Enter(i, st) == tcps' = Table!ToFront(tcps, i, [tcps[i] EXCEPT !.st = st])

Garbage == {0, 1}

Answer(type, c, n, err) ==
    /\ Len(fromTcp) < MaxPipe
    /\ fromTcp' = Append(fromTcp, [type |-> type, conn |-> c, bytes |-> n, error |-> err])

\* A STATUS without an answer's connection has the empty one.
NoConnection == [src |-> ANY, dest |-> ANY, protocol |-> NONE]

TcpRequest(type) == toTcp # <<>> /\ Head(toTcp).type = type /\ toTcp' = Tail(toTcp)

\* The first match makes way for the listener, whatever it is.
TcpAccept ==
    LET c == Head(toTcp).conn
        entry == [conn |-> c, st |-> "LISTEN"]
    IN  /\ TcpRequest("ACCEPT")
        /\ \/ NotInTable(c) /\ tcps' = Append(tcps, entry)
           \/ \E i \in DOMAIN tcps :
                Found(c, i) /\ tcps' = Append(Table!Without(tcps, i), entry)
        /\ \E n \in Garbage : Answer("STATUS", NoConnection, n, "EOK")

TcpConnect ==
    LET c == Head(toTcp).conn
    IN  /\ TcpRequest("CONNECT")
        /\ tcps' = <<[conn |-> c, st |-> "SYN_SENT"]>> \o tcps
        /\ \E n \in Garbage : Answer("STATUS", c, n, "EOK")

\* A WRITE is answered while the connection is open or closed by us, and not
\* when it is gone or half closed by the peer.
TcpWrite ==
    LET req == Head(toTcp)
        c == req.conn
    IN  /\ TcpRequest("WRITE")
        /\ \/ \E i \in DOMAIN tcps :
                /\ Found(c, i)
                /\ \/ /\ tcps[i].st = "ESTABLISHED"
                      /\ Enter(i, "ESTABLISHED")
                      /\ \E n \in 0..req.bytes : Answer("STATUS", c, n, "EOK")
                   \/ /\ tcps[i].st = "CLOSED_BY_US"
                      /\ \E n \in Garbage : Answer("STATUS", c, n, "-1")
                      /\ UNCHANGED tcps
                   \/ /\ tcps[i].st \notin {"ESTABLISHED", "CLOSED_BY_US"}
                      /\ UNCHANGED <<tcps, fromTcp>>
           \/ NotInTable(c) /\ UNCHANGED <<tcps, fromTcp>>

\* A CLOSE is never answered; without an entry the look-up runs off the table.
TcpClose ==
    LET c == Head(toTcp).conn
    IN  /\ TcpRequest("CLOSE")
        /\ \/ \E i \in DOMAIN tcps : Found(c, i) /\ Enter(i, "CLOSED_BY_US")
           \/ NotInTable(c) /\ UNCHANGED tcps
        /\ UNCHANGED fromTcp

\* handleSocketStatus.
TcpTakeStatus ==
    LET c == Head(toTcp).conn
    IN  /\ TcpRequest("STATUS")
        /\ \/ \E i \in DOMAIN tcps : Found(c, i) /\ Enter(i, tcps[i].st)
           \/ NotInTable(c) /\ UNCHANGED tcps
        /\ UNCHANGED fromTcp

\* A handshake ends, a passive one (addSynAckMapping, then handleAck) or an
\* active one: sendNewConnectionToSocket.
TcpNewConnection ==
    /\ \/ \E i \in DOMAIN tcps, d \in Remotes :
            LET c == [tcps[i].conn EXCEPT !.dest = d]
            IN  /\ Found(c, i) /\ tcps[i].st = "LISTEN"
                /\ tcps' = <<[conn |-> c, st |-> "ESTABLISHED"]>> \o tcps
                /\ Answer("WRITE", c, 0, "EOK")
       \/ \E i \in DOMAIN tcps :
            /\ Found(tcps[i].conn, i) /\ tcps[i].st = "SYN_SENT"
            /\ Enter(i, "ESTABLISHED")
            /\ Answer("WRITE", tcps[i].conn, 0, "EOK")
    /\ UNCHANGED toTcp

\* sendDataToSocket leaves the error of its message undefined.
TcpData ==
    /\ \E i \in DOMAIN tcps, err \in {"EOK", "garbage"} :
         /\ Found(tcps[i].conn, i) /\ tcps[i].st = "ESTABLISHED"
         /\ Enter(i, "ESTABLISHED")
         /\ Answer("WRITE", tcps[i].conn, 1, err)
    /\ UNCHANGED toTcp

\* The peer's FIN, the first or a copy: sendCloseToSocket.
TcpPeerClosed ==
    /\ \E i \in DOMAIN tcps :
         /\ Found(tcps[i].conn, i)
         /\ \/ tcps[i].st \in {"ESTABLISHED", "CLOSE_WAIT"} /\ Enter(i, "CLOSE_WAIT")
            \/ tcps[i].st = "CLOSED_BY_US" /\ Enter(i, "CLOSED_BY_US")
         /\ Answer("WRITE", tcps[i].conn, 0, "EOK")
    /\ UNCHANGED toTcp

\* After TIME_WAIT or LAST_ACK.
TcpGone ==
    /\ \E i \in DOMAIN tcps : tcps[i].st = "CLOSED_BY_US" /\ tcps' = Table!Without(tcps, i)
    /\ UNCHANGED <<toTcp, fromTcp>>

TcpStep == TcpAccept \/ TcpConnect \/ TcpWrite \/ TcpClose \/ TcpTakeStatus
=============================================================================
