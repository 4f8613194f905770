------------------------------ MODULE SockModule -----------------------------
(***************************************************************************)
(* core/sock_module.cc with the tables of libminet/sock_mod_structs.cc.    *)
(*                                                                         *)
(* The sock module stands between the socket library of one application    *)
(* and the TCP and UDP modules.  Every request to a lower module is also   *)
(* put in a queue; a STATUS from that module is taken as the answer to the *)
(* request at the head of the queue.                                       *)
(*                                                                         *)
(* An endpoint is a port of this machine or a remote end; ANY stands for   *)
(* IP_ADDRESS_ANY with PORT_ANY, which is also what an unbound socket has. *)
(* Data is a number of bytes.  MinetGetNextEvent looks at the FIFOs in the *)
(* order in which they were opened: TCP, UDP, the application.             *)
(***************************************************************************)
EXTENDS Naturals, Sequences

CONSTANTS
    NUM_SOCKS, NUM_PORTS, BIN_SIZE,
    ANY,
    NONE,         \* no protocol
    MaxPipe       \* bound: messages in a FIFO to a lower module, or in tcpq

VARIABLES
    socks,        \* SockStatus
    ports,        \* PortStatus: the row of IP_ADDRESS_ANY, the only one there is
    tcpq, udpq,   \* requests without an answer
    fromApp, toApp,
    toTcp, fromTcp,
    toUdp, fromUdp

Fd == 1..(NUM_SOCKS - 1)

Port == 1..(NUM_PORTS - 1)

Unbound == [src |-> ANY, dest |-> ANY, protocol |-> NONE]

\* SockRecord::SockRecord.
Free == [status |-> "FREE", conn |-> Unbound, bin |-> 0]

Pending == {"ACCEPT_PENDING", "CONNECT_PENDING", "READ_PENDING", "WRITE_PENDING"}
-----------------------------------------------------------------------------
\* Mutant: any free socket will do, and a used one too.
AnySock(fd) == fd \in Fd

IsFreeSock(fd) ==
    /\ fd \in Fd
    /\ socks[fd].status = "FREE"
    /\ \A k \in 1..(fd - 1) : socks[k].status # "FREE"

NoFreeSock == \A fd \in Fd : socks[fd].status # "FREE"

\* A socket that waits in accept also answers for all remote ends.
Answers(fd, c) ==
    \/ socks[fd].conn = c
    \/ /\ socks[fd].conn = [c EXCEPT !.dest = ANY]
       /\ socks[fd].status = "ACCEPT_PENDING"

IsFound(fd, c) == fd \in Fd /\ Answers(fd, c) /\ \A k \in 1..(fd - 1) : ~ Answers(k, c)

NotFound(c) == \A fd \in Fd : ~ Answers(fd, c)

SetStatus(fd, st) == socks' = [socks EXCEPT ![fd].status = st]

SetConn(fd, c, st) == socks' = [socks EXCEPT ![fd].conn = c, ![fd].status = st]

CloseSocket(fd) == socks' = [socks EXCEPT ![fd] = Free]

\* Mutant: a port that is asked for by number is not looked up.
PortUnchecked(r, p) ==
    /\ r.ip = ANY /\ p \in Port
    /\ r.conn.src # ANY => p = r.conn.src

\* ResolveSrcPort with PortStatus::FindFreePort and PortStatus::Socket: no row
\* of the table is for an address of its own, so such requests find no port.
Resolved(r, p) ==
    /\ r.ip = ANY /\ p \in Port /\ ports[p] = 0
    /\ IF r.conn.src = ANY THEN \A q \in 1..(p - 1) : ports[q] # 0 ELSE p = r.conn.src

Unresolved(r) == \A p \in Port : ~ Resolved(r, p)
-----------------------------------------------------------------------------
\* SockRequestResponse.
Srr(type, c, n, err) == [type |-> type, conn |-> c, bytes |-> n, error |-> err]

\* The message turned into a STATUS goes back to the module it came from.
SendStatus(m, n, err) ==
    \/ /\ m.conn.protocol = "udp" /\ Len(toUdp) < MaxPipe
       /\ toUdp' = Append(toUdp, Srr("STATUS", m.conn, n, err))
       /\ UNCHANGED toTcp
    \/ /\ m.conn.protocol # "udp" /\ Len(toTcp) < MaxPipe
       /\ toTcp' = Append(toTcp, Srr("STATUS", m.conn, n, err))
       /\ UNCHANGED toUdp

\* SendAppMessage, and the answer that ProcessAppRequest makes in place.
Reply(fd, n, err) == toApp' = Append(toApp, [sockfd |-> fd, bytes |-> n, error |-> err])

\* Mutant: nobody waits for the answer to a close.
QueuedUnlessClose(q, type, fd, c) ==
    IF type = "CLOSE" THEN q ELSE Append(q, [type |-> type, conn |-> c, sock |-> fd])

\* RequestRecord and Queue::Insert.
Queued(q, type, fd, c) == Append(q, [type |-> type, conn |-> c, sock |-> fd])

SendUDPRequest(type, fd, c, n) ==
    /\ Len(toUdp) < MaxPipe
    /\ toUdp' = Append(toUdp, Srr(type, c, n, "EOK"))
    /\ udpq' = Queued(udpq, type, fd, c)
    /\ UNCHANGED <<toTcp, tcpq>>

SendTCPRequest(type, fd, c, n) ==
    /\ Len(toTcp) < MaxPipe /\ Len(tcpq) < MaxPipe
    /\ toTcp' = Append(toTcp, Srr(type, c, n, "EOK"))
    /\ tcpq' = Queued(tcpq, type, fd, c)
    /\ UNCHANGED <<toUdp, udpq>>

SendRequest(type, fd, c, n) ==
    \/ c.protocol = "udp" /\ SendUDPRequest(type, fd, c, n)
    \/ c.protocol # "udp" /\ SendTCPRequest(type, fd, c, n)

NothingSent == UNCHANGED <<toTcp, tcpq, toUdp, udpq>>
-----------------------------------------------------------------------------
(* ProcessAppRequest.                                                      *)

\* The states in which a request is accepted; all but FREE for a close, since
\* a free socket has no FIFO to the application.
ReadyStatus ==
    [mBIND |-> {"UNBOUND"}, mLISTEN |-> {"BOUND"}, mACCEPT |-> {"LISTENING"},
     mCONNECT |-> {"UNBOUND", "BOUND"}, mREAD |-> {"CONNECTED"},
     mWRITE |-> {"CONNECTED"},
     mCLOSE |-> {"UNBOUND", "BOUND", "LISTENING", "CONNECTED"} \cup Pending]

Ready(r) ==
    \/ socks[r.fd].status \in ReadyStatus[r.type]
    \/ /\ r.type = "mREAD"
       /\ socks[r.fd].status = "BOUND" /\ socks[r.fd].conn.protocol = "udp"

AppRequest(type) ==
    /\ fromTcp = <<>> /\ fromUdp = <<>>
    /\ fromApp # <<>> /\ Head(fromApp).type = type
    /\ fromApp' = Tail(fromApp)
    /\ UNCHANGED <<fromTcp, fromUdp>>

AppSocket ==
    LET r == Head(fromApp)
    IN  /\ AppRequest("mSOCKET")
        /\ \/ \E fd \in Fd :
                /\ IsFreeSock(fd)
                /\ SetConn(fd, [socks[fd].conn EXCEPT !.protocol = r.conn.protocol], "UNBOUND")
                /\ Reply(fd, 0, "EOK")
           \/ /\ NoFreeSock
              /\ Reply(r.fd, 0, "ERESOURCE_UNAVAIL")
              /\ UNCHANGED socks
        /\ UNCHANGED ports /\ NothingSent

AppRefused ==
    LET r == Head(fromApp)
    IN  /\ \E type \in DOMAIN ReadyStatus : AppRequest(type)
        /\ ~ Ready(r)
        /\ Reply(r.fd, 0, "EINVALID_OP")
        /\ UNCHANGED <<socks, ports>> /\ NothingSent

\* Bind with no port to be had, and likewise connect.
AppNoPort ==
    LET r == Head(fromApp)
    IN  /\ \/ AppRequest("mBIND")
           \/ AppRequest("mCONNECT") /\ socks[r.fd].status = "UNBOUND"
        /\ Ready(r)
        /\ Unresolved(r)
        /\ Reply(r.fd, 0, "ERESOURCE_UNAVAIL")
        /\ UNCHANGED <<socks, ports>> /\ NothingSent

\* A UDP socket stays UNBOUND until the STATUS of its FORWARD.
AppBind ==
    LET r == Head(fromApp)
    IN  /\ AppRequest("mBIND") /\ Ready(r)
        /\ \E p \in Port :
             /\ Resolved(r, p)
             /\ ports' = [ports EXCEPT ![p] = r.fd]
             /\ LET c == [socks[r.fd].conn EXCEPT !.src = p]
                IN  \/ /\ c.protocol = "udp"
                       /\ SetConn(r.fd, c, "UNBOUND")
                       /\ SendUDPRequest("FORWARD", r.fd, c, 0)
                       /\ UNCHANGED toApp
                    \/ /\ c.protocol # "udp"
                       /\ SetConn(r.fd, c, "BOUND")
                       /\ Reply(r.fd, 0, "EOK")
                       /\ NothingSent

AppListen ==
    LET r == Head(fromApp)
    IN  /\ AppRequest("mLISTEN") /\ Ready(r)
        /\ \/ /\ socks[r.fd].conn.protocol = "udp"
              /\ Reply(0, 0, "ENOT_SUPPORTED")
              /\ UNCHANGED socks
           \/ /\ socks[r.fd].conn.protocol # "udp"
              /\ SetConn(r.fd, [socks[r.fd].conn EXCEPT !.dest = ANY], "LISTENING")
              /\ Reply(r.fd, 0, "EOK")
        /\ UNCHANGED ports /\ NothingSent

\* Only TCP sockets listen.
AppAccept ==
    LET r == Head(fromApp)
    IN  /\ AppRequest("mACCEPT") /\ Ready(r)
        /\ SendTCPRequest("ACCEPT", r.fd, socks[r.fd].conn, 0)
        /\ SetStatus(r.fd, "ACCEPT_PENDING")
        /\ UNCHANGED <<ports, toApp>>

AppConnect ==
    LET r == Head(fromApp)
    IN  /\ AppRequest("mCONNECT") /\ Ready(r)
        /\ \E p \in Port :
             /\ \/ /\ socks[r.fd].status = "UNBOUND"
                   /\ Resolved(r, p)
                   /\ ports' = [ports EXCEPT ![p] = r.fd]
                \/ /\ socks[r.fd].status = "BOUND"
                   /\ p = socks[r.fd].conn.src
                   /\ UNCHANGED ports
             /\ LET c == [socks[r.fd].conn EXCEPT !.src = p, !.dest = r.conn.dest]
                IN  \/ /\ c.protocol = "udp"
                       /\ SetConn(r.fd, c, "CONNECTED")
                       /\ SendUDPRequest("FORWARD", r.fd, c, 0)
                    \/ /\ c.protocol # "udp"
                       /\ SetConn(r.fd, c, "CONNECT_PENDING")
                       /\ SendTCPRequest("CONNECT", r.fd, c, 0)
        /\ UNCHANGED toApp

\* A read takes a copy of the bytes in store and leaves them there.
AppRead ==
    LET r == Head(fromApp)
    IN  /\ AppRequest("mREAD") /\ Ready(r)
        /\ \/ /\ socks[r.fd].bin > 0
              /\ Reply(r.fd, socks[r.fd].bin, "EOK")
              /\ UNCHANGED socks
           \/ /\ socks[r.fd].bin = 0
              /\ SetStatus(r.fd, "READ_PENDING")
              /\ UNCHANGED toApp
        /\ UNCHANGED ports /\ NothingSent

AppWrite ==
    LET r == Head(fromApp)
    IN  /\ AppRequest("mWRITE") /\ Ready(r)
        /\ SendRequest("WRITE", r.fd, socks[r.fd].conn, r.bytes)
        /\ SetStatus(r.fd, "WRITE_PENDING")
        /\ UNCHANGED <<ports, toApp>>

\* The application does not wait for the lower module; the port stays taken.
AppClose ==
    LET r == Head(fromApp)
    IN  /\ AppRequest("mCLOSE") /\ Ready(r)
        /\ SendRequest("CLOSE", r.fd, socks[r.fd].conn, 0)
        /\ Reply(r.fd, 0, "EOK")
        /\ CloseSocket(r.fd)
        /\ UNCHANGED ports

\* The requests of the default branch come back as they are, with the error 0
\* they came with.
AppDefault ==
    /\ \E type \in {"mRECVFROM", "mSENDTO", "mSET_NONBLOCKING"} : AppRequest(type)
    /\ Reply(Head(fromApp).fd, 0, "EOK")
    /\ UNCHANGED <<socks, ports>> /\ NothingSent

ProcessAppRequest ==
    \/ AppSocket \/ AppRefused \/ AppNoPort \/ AppBind \/ AppListen
    \/ AppAccept \/ AppConnect \/ AppRead \/ AppWrite \/ AppClose \/ AppDefault
-----------------------------------------------------------------------------
(* ProcessTCPMessage and ProcessUDPMessage.                                *)

Lesser(m, n) == IF m < n THEN m ELSE n

Room(fd) == BIN_SIZE - socks[fd].bin

\* Mutant: the store grows past its size.
TakenAll(fd, m) == m.bytes

\* What a connected socket takes into its store.
Taken(fd, m) == Lesser(m.bytes, Room(fd))

\* Data for a socket that is connected or waits in read.  The STATUS has the
\* number of bytes taken.
Deliver(fd, m) ==
    \/ /\ socks[fd].status = "CONNECTED"
       /\ socks' = [socks EXCEPT ![fd].bin = @ + Taken(fd, m)]
       /\ SendStatus(m, Taken(fd, m), IF Taken(fd, m) > 0 THEN "EOK" ELSE "EBUF_SPACE")
       /\ UNCHANGED toApp
    \/ /\ socks[fd].status = "READ_PENDING"
       /\ Reply(fd, m.bytes, m.error)
       /\ SetStatus(fd, "CONNECTED")
       /\ SendStatus(m, m.bytes, "EOK")

\* The data is dropped, though the byte count goes back as it came.
Refuse(m) ==
    /\ SendStatus(m, m.bytes, "EINVALID_OP")
    /\ UNCHANGED <<socks, toApp>>

Unknown(m) ==
    /\ NotFound(m.conn)
    /\ SendStatus(m, 0, "ENOMATCH")
    /\ UNCHANGED <<socks, toApp>>

\* HandleTCPWrite for a socket in accept: the connection gets a socket of its own.
Accepted(fd, m) ==
    /\ socks[fd].status = "ACCEPT_PENDING"
    /\ \/ /\ m.error # "EOK"
          /\ Reply(fd, m.bytes, m.error)
          /\ SetStatus(fd, "LISTENING")
          /\ SendStatus(m, m.bytes, "EOK")
       \/ /\ m.error = "EOK"
          /\ \E new \in Fd :
               /\ IsFreeSock(new)
               /\ socks' = [socks EXCEPT ![fd].status = "LISTENING", ![new].conn = m.conn,
                                         ![new].status = "CONNECTED"]
               /\ Reply(new, m.bytes, "EOK")
               /\ SendStatus(m, m.bytes, "EOK")
       \/ /\ m.error = "EOK" /\ NoFreeSock
          /\ SetStatus(fd, "LISTENING")
          /\ SendStatus(m, m.bytes, "ERESOURCE_UNAVAIL")
          /\ UNCHANGED toApp

Connected(fd, m) ==
    /\ socks[fd].status = "CONNECT_PENDING"
    /\ Reply(fd, m.bytes, m.error)
    /\ \/ m.error = "EOK" /\ SetStatus(fd, "CONNECTED")
       \/ m.error # "EOK" /\ CloseSocket(fd)
    /\ SendStatus(m, m.bytes, "EOK")

HandleTCPWrite ==
    LET m == Head(fromTcp)
    IN  /\ fromTcp # <<>> /\ m.type = "WRITE"
        /\ fromTcp' = Tail(fromTcp)
        /\ \/ Unknown(m)
           \/ \E fd \in Fd :
                /\ IsFound(fd, m.conn)
                /\ \/ Deliver(fd, m) \/ Accepted(fd, m) \/ Connected(fd, m)
                   \/ /\ socks[fd].status \notin
                           {"CONNECTED", "READ_PENDING", "ACCEPT_PENDING", "CONNECT_PENDING"}
                      /\ Refuse(m)
        /\ UNCHANGED <<ports, tcpq, udpq, fromApp, fromUdp>>

HandleTCPStatus ==
    LET m == Head(fromTcp)
        r == Head(tcpq)
    IN  /\ fromTcp # <<>> /\ m.type = "STATUS" /\ tcpq # <<>>
        /\ fromTcp' = Tail(fromTcp)
        /\ tcpq' = Tail(tcpq)
        /\ \/ /\ r.type = "CONNECT" /\ m.error # "EOK"
              /\ Reply(r.sock, m.bytes, m.error)
              /\ CloseSocket(r.sock)
           \/ /\ r.type = "ACCEPT" /\ m.error # "EOK"
              /\ Reply(r.sock, m.bytes, m.error)
              /\ SetStatus(r.sock, "LISTENING")
           \/ /\ r.type = "WRITE"
              /\ Reply(r.sock, m.bytes, m.error)
              /\ SetStatus(r.sock, "CONNECTED")
           \/ /\ r.type = "CLOSE" \/ (r.type \in {"CONNECT", "ACCEPT"} /\ m.error = "EOK")
              /\ UNCHANGED <<socks, toApp>>
        /\ UNCHANGED <<ports, udpq, fromApp, toTcp, toUdp, fromUdp>>

HandleUDPWrite ==
    LET m == Head(fromUdp)
    IN  /\ fromTcp = <<>> /\ fromUdp # <<>> /\ m.type = "WRITE"
        /\ fromUdp' = Tail(fromUdp)
        /\ \/ Unknown(m)
           \/ \E fd \in Fd :
                /\ IsFound(fd, m.conn)
                /\ \/ Deliver(fd, m)
                   \/ /\ socks[fd].status \notin {"CONNECTED", "READ_PENDING"}
                      /\ Refuse(m)
        /\ UNCHANGED <<ports, tcpq, udpq, fromApp, fromTcp>>

\* Mutant: the answer to a write leaves the socket as it was.
StatusKept(fd) == UNCHANGED socks

\* With a remote end a UDP socket counts as connected.
StatusByDest(fd) ==
    SetStatus(fd, IF socks[fd].conn.dest # ANY THEN "CONNECTED" ELSE "BOUND")

HandleUDPStatus ==
    LET m == Head(fromUdp)
        r == Head(udpq)
    IN  /\ fromTcp = <<>> /\ fromUdp # <<>> /\ m.type = "STATUS" /\ udpq # <<>>
        /\ fromUdp' = Tail(fromUdp)
        /\ udpq' = Tail(udpq)
        /\ \/ /\ r.type = "FORWARD"
              /\ Reply(r.sock, m.bytes, m.error)
              /\ \/ m.error = "EOK" /\ StatusByDest(r.sock)
                 \/ m.error # "EOK" /\ CloseSocket(r.sock)
           \/ /\ r.type = "WRITE"
              /\ Reply(r.sock, m.bytes, m.error)
              /\ StatusByDest(r.sock)
           \/ /\ r.type = "CLOSE"
              /\ UNCHANGED <<socks, toApp>>
        /\ UNCHANGED <<ports, tcpq, fromApp, toTcp, fromTcp, toUdp>>

ProcessTCPMessage == HandleTCPWrite \/ HandleTCPStatus

ProcessUDPMessage == HandleUDPWrite \/ HandleUDPStatus
-----------------------------------------------------------------------------
SockInit ==
    /\ socks = [fd \in Fd |-> Free]
    /\ ports = [p \in Port |-> 0]
    /\ tcpq = <<>> /\ udpq = <<>>
    /\ fromApp = <<>> /\ toApp = <<>>
    /\ toTcp = <<>> /\ fromTcp = <<>>
    /\ toUdp = <<>> /\ fromUdp = <<>>

SockStep == ProcessAppRequest \/ ProcessTCPMessage \/ ProcessUDPMessage
=============================================================================
