------------------------------ MODULE UdpModule ------------------------------
(***************************************************************************)
(* core/udp_module.cc.  A list of forwards, one per socket, says which     *)
(* datagrams go up.  Requests other than STATUS get exactly one STATUS.    *)
(* mux is opened before sock, so datagrams are taken before requests.      *)
(* Payload is one byte; what goes out through mux is left out.             *)
(***************************************************************************)
EXTENDS ConnectionList

CONSTANTS
    MaxPipe

VARIABLES
    clist,        \* the forwards
    mux,          \* datagrams that have arrived, as connections of this machine
    toUdp, fromUdp

\* SockRequestResponse repl.
UdpStatus(req, n, err) ==
    [type |-> "STATUS", conn |-> req.conn, bytes |-> n, error |-> err]

Send(m) == Len(fromUdp) < MaxPipe /\ fromUdp' = Append(fromUdp, m)

\* A datagram goes up under the connection of the forward; the checksum is
\* looked at and ignored.
ForwardDatagram ==
    /\ mux # <<>>
    /\ \E i \in DOMAIN clist :
         /\ IsFirstMatch(clist, Head(mux), i)
         /\ Send([type |-> "WRITE", conn |-> clist[i].conn, bytes |-> 1, error |-> "EOK"])
    /\ mux' = Tail(mux)
    /\ UNCHANGED <<clist, toUdp>>

\* Nobody wants it: an ICMP error goes out.
RejectDatagram ==
    /\ mux # <<>>
    /\ NoMatch(clist, Head(mux))
    /\ mux' = Tail(mux)
    /\ UNCHANGED <<clist, toUdp, fromUdp>>

UdpRequest(type) ==
    /\ mux = <<>>
    /\ toUdp # <<>> /\ Head(toUdp).type = type
    /\ toUdp' = Tail(toUdp)
    /\ UNCHANGED mux

UdpIgnoreStatus ==
    /\ UdpRequest("STATUS")
    /\ UNCHANGED <<clist, fromUdp>>

UdpWrite ==
    /\ UdpRequest("WRITE")
    /\ Send(UdpStatus(Head(toUdp), Head(toUdp).bytes, "EOK"))
    /\ UNCHANGED clist

\* Mutant: the old forward stays in front of the new one.
ForwardKept(c) == clist

\* The first match makes way, whatever it is.
ForwardReplaced(c) ==
    IF NoMatch(clist, c) THEN clist
    ELSE LET i == CHOOSE k \in DOMAIN clist : IsFirstMatch(clist, c, k) IN Without(clist, i)

UdpForward ==
    LET req == Head(toUdp)
    IN  /\ UdpRequest("FORWARD")
        /\ clist' = Append(ForwardReplaced(req.conn), [conn |-> req.conn])
        /\ Send(UdpStatus(req, 0, "EOK"))

\* The code leaves the byte count of this answer undefined; sock does not read it.
UdpClose ==
    LET req == Head(toUdp)
    IN  /\ UdpRequest("CLOSE")
        /\ \/ /\ NoMatch(clist, req.conn)
              /\ Send(UdpStatus(req, 0, "ENOMATCH"))
              /\ UNCHANGED clist
           \/ \E i \in DOMAIN clist :
                /\ IsFirstMatch(clist, req.conn, i)
                /\ clist' = Without(clist, i)
                /\ Send(UdpStatus(req, 0, "EOK"))

UdpInit == clist = <<>> /\ mux = <<>>

UdpStep ==
    \/ ForwardDatagram \/ RejectDatagram
    \/ UdpIgnoreStatus \/ UdpWrite \/ UdpForward \/ UdpClose
=============================================================================
