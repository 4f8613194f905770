----------------------------- MODULE SocketStack -----------------------------
(***************************************************************************)
(* One application on the socket library (libminet/minet_socket.cc), the   *)
(* sock module, the UDP module, and the TCP module as sock sees it.        *)
(*                                                                         *)
(* Each library call sends one request and blocks until the answer comes,  *)
(* so there is one call at a time.                                         *)
(***************************************************************************)
EXTENDS Naturals, Sequences

CONSTANTS
    NUM_SOCKS, NUM_PORTS, BIN_SIZE, ANY, NONE, Remotes, MaxPipe,
    Apps,         \* applications: the sockets they use, and whether they close
                  \* them as they like or exit after the first close
    MaxDatagrams, \* bound: datagrams from the network
    MaxSegments   \* bound: events of TCP connections that sock hears of

ASSUME StackAssumption ==
    /\ {NUM_SOCKS, NUM_PORTS, BIN_SIZE, MaxPipe, MaxDatagrams, MaxSegments} \subseteq Nat
    /\ NUM_SOCKS > 1
    /\ ANY \notin Nat /\ ANY \notin Remotes
    /\ Apps \subseteq SUBSET {"tcp", "udp", "close", "exit"}
    /\ NONE \notin {"tcp", "udp"} /\ NONE # ANY

VARIABLES
    app,          \* the application, {} after its exit
    call,         \* the call in progress, NONE if there is none
    arrived,
    socks, ports, tcpq, udpq, fromApp, toApp,
    tcps, toTcp, fromTcp,
    clist, mux, toUdp, fromUdp,
    strayClose    \* history: UDP has been asked to close an unbound connection

INSTANCE SockModule
INSTANCE UdpModule
INSTANCE TcpEnd

appVars == <<app, call, arrived>>
sockVars == <<socks, ports, tcpq, udpq, fromApp, toApp>>
pipes == <<toTcp, fromTcp, toUdp, fromUdp>>
vars == <<appVars, sockVars, pipes, tcps, clist, mux, strayClose>>
-----------------------------------------------------------------------------
SlrrConn(s, d, p) == [src |-> s, dest |-> d, protocol |-> p]

\* SockLibRequestResponse with the arguments that each function of the library
\* passes; bind is the only one with an address of this machine.
Slrr(type, fd, ip, c, n) == [type |-> type, fd |-> fd, ip |-> ip, conn |-> c, bytes |-> n]

minet_socket == {Slrr("mSOCKET", 0, ANY, SlrrConn(ANY, ANY, p), 0) : p \in app \cap {"tcp", "udp"}}

minet_bind ==
    {Slrr("mBIND", fd, ip, SlrrConn(p, ANY, NONE), 0) :
        fd \in Fd, ip \in {ANY, NONE}, p \in Port \cup {ANY}}

minet_listen == {Slrr("mLISTEN", fd, ANY, Unbound, 0) : fd \in Fd}

minet_accept == {Slrr("mACCEPT", fd, ANY, Unbound, 0) : fd \in Fd}

minet_connect == {Slrr("mCONNECT", fd, ANY, SlrrConn(ANY, d, NONE), 0) : fd \in Fd, d \in Remotes}

minet_read == {Slrr("mREAD", fd, ANY, Unbound, 0) : fd \in Fd}

minet_write == {Slrr("mWRITE", fd, ANY, Unbound, 1) : fd \in Fd}

minet_close ==
    IF app \cap {"close", "exit"} # {} THEN {Slrr("mCLOSE", fd, ANY, Unbound, 0) : fd \in Fd} ELSE {}

minet_recvfrom == {Slrr("mRECVFROM", fd, ANY, Unbound, 0) : fd \in Fd}

minet_sendto == {Slrr("mSENDTO", fd, ANY, Unbound, 1) : fd \in Fd}

\* set_nonblocking, set_blocking, can_write_now, can_read_now.
minet_modes == {Slrr("mSET_NONBLOCKING", fd, ANY, Unbound, 0) : fd \in Fd}

Requests ==
    minet_socket \cup minet_bind \cup minet_listen \cup minet_accept \cup minet_connect
    \cup minet_read \cup minet_write \cup minet_close
    \cup minet_recvfrom \cup minet_sendto \cup minet_modes

\* MinetSend(sock, slrr) ...
Call ==
    /\ call = NONE /\ app # {}
    /\ \E r \in Requests :
        /\ call' = r
        /\ fromApp' = Append(fromApp, r)
        /\ app' = IF r.type = "mCLOSE" /\ "exit" \in app THEN {} ELSE app
    /\ UNCHANGED <<arrived, socks, ports, tcpq, udpq, toApp, pipes, tcps, clist, mux, strayClose>>

\* ... and MinetReceive(sock, slrr).
Return ==
    /\ call # NONE /\ toApp # <<>>
    /\ call' = NONE
    /\ toApp' = Tail(toApp)
    /\ UNCHANGED <<app, arrived, socks, ports, tcpq, udpq, fromApp, pipes, tcps, clist, mux, strayClose>>

Sock ==
    /\ SockStep
    /\ strayClose' = (strayClose \/ \E i \in DOMAIN toUdp' :
                         toUdp'[i].type = "CLOSE" /\ toUdp'[i].conn.src = ANY)
    /\ UNCHANGED <<appVars, tcps, clist, mux>>

Udp == UdpStep /\ UNCHANGED <<appVars, sockVars, toTcp, fromTcp, tcps, strayClose>>

Tcp == TcpStep /\ UNCHANGED <<appVars, sockVars, toUdp, fromUdp, clist, mux, strayClose>>

\* A datagram for a port of this machine.
Datagram ==
    /\ arrived < MaxDatagrams
    /\ arrived' = arrived + 1
    /\ \E p \in Port, d \in Remotes : mux' = Append(mux, SlrrConn(p, d, "udp"))
    /\ UNCHANGED <<app, call, sockVars, pipes, tcps, clist, strayClose>>

Segment ==
    /\ arrived < MaxDatagrams + MaxSegments
    /\ arrived' = arrived + 1
    /\ TcpNewConnection \/ TcpData \/ TcpPeerClosed \/ TcpGone
    /\ UNCHANGED <<app, call, sockVars, toUdp, fromUdp, clist, mux, strayClose>>

Init ==
    /\ app \in Apps
    /\ call = NONE /\ arrived = 0
    /\ SockInit /\ UdpInit
    /\ tcps = <<>>
    /\ strayClose = FALSE

Next == Call \/ Return \/ Sock \/ Udp \/ Tcp \/ Datagram \/ Segment

Spec == Init /\ [][Next]_vars

\* Each process is in its event loop for ever; the application waits for its
\* answer.  Nothing is asked of the network, nor that a next call is made.
FairSpec == Spec /\ WF_vars(Sock) /\ WF_vars(Udp) /\ WF_vars(Tcp) /\ WF_vars(Return)
-----------------------------------------------------------------------------
Connection == [src : Port \cup {ANY}, dest : Remotes \cup {ANY}, protocol : {"tcp", "udp", NONE}]

Errors == {"EOK", "ENOMATCH", "EINVALID_OP", "EBUF_SPACE", "ERESOURCE_UNAVAIL",
           "ENOT_SUPPORTED", "-1", "garbage"}

RequestTypes == {"ACCEPT", "CONNECT", "FORWARD", "WRITE", "CLOSE"}

RequestRecord == [type : RequestTypes, conn : Connection, sock : Fd]

Srrs == [type : RequestTypes \cup {"STATUS"}, conn : Connection, bytes : Nat, error : Errors]

LibraryCall ==
    [type : {"mSOCKET"}, fd : {0}, ip : {ANY}, conn : Connection, bytes : Nat]
    \cup [type : {"mRECVFROM", "mSENDTO", "mSET_NONBLOCKING"} \cup DOMAIN ReadyStatus,
          fd : Fd, ip : {ANY, NONE}, conn : Connection, bytes : Nat]

Replies == [sockfd : Fd \cup {0}, bytes : Nat, error : Errors]

ASSUME NoCallAssumption == NONE \notin LibraryCall \cup Replies

AppOK ==
    /\ app \in Apps \cup {{}}
    /\ arrived \in Nat
    /\ call \in LibraryCall \cup {NONE}
    /\ fromApp \in Seq(LibraryCall)
    /\ toApp \in Seq(Replies)

\* A store never holds more than its size.
SocksOK ==
    socks \in [Fd -> [status : {"FREE", "UNBOUND", "BOUND", "LISTENING", "CONNECTED"}
                                  \cup Pending,
                      conn : Connection, bin : 0..BIN_SIZE]]

PortsOK == ports \in [Port -> Fd \cup {0}]

QueuesOK == tcpq \in Seq(RequestRecord) /\ udpq \in Seq(RequestRecord)

PipesOK ==
    /\ toTcp \in Seq(Srrs) /\ fromTcp \in Seq(Srrs)
    /\ toUdp \in Seq(Srrs) /\ fromUdp \in Seq(Srrs)

TcpOK ==
    tcps \in Seq([conn : Connection,
                  st : {"LISTEN", "SYN_SENT", "ESTABLISHED", "CLOSED_BY_US", "CLOSE_WAIT"}])

UdpOK == clist \in Seq([conn : Connection]) /\ mux \in Seq(Connection)

\* The type invariant of the application, of sock and of the modules below.
TypeOK ==
    /\ AppOK /\ SocksOK /\ PortsOK /\ QueuesOK /\ PipesOK /\ TcpOK /\ UdpOK
    /\ strayClose \in BOOLEAN

\* Of the messages on their way up, followed by those on their way down, the
\* positions of answers and of requests still to be answered.
Due(up, down) ==
    {i \in DOMAIN (up \o down) : (i <= Len(up)) = ((up \o down)[i].type = "STATUS")}

\* The records of a queue are due in its order, one by one, each for its
\* connection unless the answer names none.
InOrder(q, up, down) ==
    \E f \in [1..Len(q) -> Due(up, down)] :
        /\ \A i, j \in 1..Len(q) : i < j => f[i] < f[j]
        /\ \A d \in Due(up, down) : \E i \in 1..Len(q) : f[i] = d
        /\ \A i \in 1..Len(q) : (up \o down)[f[i]].conn \in {q[i].conn, Unbound}

\* Sock takes each STATUS for the answer to the oldest request in its queue;
\* UDP makes this right, whatever datagrams go up in between: the queue names
\* the same connections, in the same order, as the answers on their way up and
\* the requests on their way down.
UdpAnswersInOrder == InOrder(udpq, fromUdp, toUdp)

\* docs/sockint.semantics says the same of TCP: "responses are returned in the
\* same order that their requests are made", a CLOSE among them.  Nothing is
\* claimed of a CLOSE for a connection that TCP does not know.
TcpAnswersInOrder ==
    (\A i \in DOMAIN tcpq : tcpq[i].type = "CLOSE" =>
        \E j \in DOMAIN tcps : tcps[j].conn = tcpq[i].conn)
    => InOrder(tcpq, fromTcp, toTcp)

\* A socket waits in accept, connect, read or write exactly while the library
\* call of that name waits for it: no answer of a lower module leaves a socket
\* waiting that nobody waits for, or answers a call that is not made.
PendingSockets ==
    LET type == [ACCEPT_PENDING |-> "mACCEPT", CONNECT_PENDING |-> "mCONNECT",
                 READ_PENDING |-> "mREAD", WRITE_PENDING |-> "mWRITE"]
    IN  /\ \A fd \in Fd : socks[fd].status \in Pending =>
              call # NONE /\ call.fd = fd /\ call.type = type[socks[fd].status]
        /\ call = NONE => fromApp = <<>> /\ toApp = <<>>
        /\ Len(fromApp) + Len(toApp) <= 1

\* Two sockets have the same port only when one came from accept.
UdpPortsUnique ==
    \A fd1, fd2 \in Fd :
        fd1 # fd2 /\ socks[fd1].conn.src # ANY /\ socks[fd1].conn.src = socks[fd2].conn.src
            => socks[fd1].conn.protocol = "tcp" /\ socks[fd2].conn.protocol = "tcp"

Asked(type, c) == \E i \in DOMAIN toUdp : toUdp[i].type = type /\ toUdp[i].conn = c

\* The forwards of UDP are the bound UDP sockets of sock, up to requests on
\* their way; a close of an unbound socket, which asks for all connections,
\* takes the forward of another.
ForwardInPlace ==
    \/ strayClose
    \/ /\ \A fd \in Fd :
            socks[fd].conn.protocol = "udp" /\ socks[fd].conn.src # ANY =>
                \/ Asked("FORWARD", socks[fd].conn)
                \/ \E i \in DOMAIN clist : clist[i].conn = socks[fd].conn
       /\ \A i \in DOMAIN clist :
            \/ \E fd \in Fd : socks[fd].conn = clist[i].conn
            \/ Asked("CLOSE", clist[i].conn)
            \/ \E d \in Remotes : Asked("FORWARD", [clist[i].conn EXCEPT !.dest = d])

\* A call on UDP sockets other than read returns.
UdpCallsReturn ==
    call # NONE /\ "tcp" \notin app /\ call.type # "mREAD" ~> call = NONE

\* What the application sees is the socket service.
Service == INSTANCE SocketService
    WITH Fds <- Fd, None <- NONE,
         answer <- IF toApp = <<>> THEN NONE ELSE Head(toApp),
         open <- {fd \in Fd : socks[fd].status # "FREE"}

Implements == Service!Spec
=============================================================================
