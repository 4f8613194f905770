-------------------------- MODULE SocketStack_proofs --------------------------
(***************************************************************************)
(* Theorems of SocketStack for every value of its constants: the types,    *)
(* what waits for what, the ports, and the service that it implements.     *)
(***************************************************************************)
EXTENDS SocketStack, TLAPS

-----------------------------------------------------------------------------
(***************************************************************************)
(* Types: what the operators of sock make of well-typed arguments.         *)
(***************************************************************************)

LEMMA Constants ==
    /\ NUM_SOCKS \in Nat /\ BIN_SIZE \in Nat /\ MaxPipe \in Nat
    /\ Fd \subseteq Nat /\ Port \subseteq Nat
    /\ Unbound \in Connection /\ Free.conn \in Connection
    /\ 0 \in 0..BIN_SIZE /\ 0..BIN_SIZE \subseteq Nat
<1> QED
  BY StackAssumption DEF Fd, Port, Unbound, Free, Connection

LEMMA StatusSent ==
    ASSUME PipesOK, NEW m \in Srrs, NEW n \in Nat, NEW err \in Errors,
           fromTcp' \in Seq(Srrs), fromUdp' \in Seq(Srrs),
           SendStatus(m, n, err)
    PROVE  PipesOK'
<1>1. Srr("STATUS", m.conn, n, err) \in Srrs
  BY DEF Srr, Srrs
<1>2. toUdp' \in Seq(Srrs) /\ toTcp' \in Seq(Srrs)
  <2> DEFINE status == Srr("STATUS", m.conn, n, err)
  <2> HIDE DEF status
  <2>1. CASE toUdp' = Append(toUdp, status) /\ toTcp' = toTcp
    BY <1>1, <2>1 DEF PipesOK, status
  <2>2. CASE toTcp' = Append(toTcp, status) /\ toUdp' = toUdp
    BY <1>1, <2>2 DEF PipesOK, status
  <2> QED
    BY <2>1, <2>2 DEF SendStatus, status
<1> QED
  BY <1>2 DEF PipesOK

LEMMA Replied ==
    ASSUME toApp \in Seq(Replies), NEW fd \in Fd \cup {0}, NEW n \in Nat, NEW err \in Errors,
           Reply(fd, n, err)
    PROVE  toApp' \in Seq(Replies)
  BY DEF Reply, Replies

LEMMA RequestSent ==
    ASSUME PipesOK, QueuesOK, NEW type \in RequestTypes, NEW fd \in Fd,
           NEW c \in Connection, NEW n \in Nat,
           fromTcp' = fromTcp, fromUdp' = fromUdp,
           \/ SendUDPRequest(type, fd, c, n)
           \/ SendTCPRequest(type, fd, c, n)
    PROVE  PipesOK' /\ QueuesOK'
<1>1. Srr(type, c, n, "EOK") \in Srrs
  BY DEF Srr, Srrs, Errors
<1>2. [type |-> type, conn |-> c, sock |-> fd] \in RequestRecord
  BY DEF RequestRecord
<1>3. CASE SendUDPRequest(type, fd, c, n)
  BY <1>1, <1>2, <1>3 DEF PipesOK, QueuesOK, SendUDPRequest, Queued
<1>4. CASE SendTCPRequest(type, fd, c, n)
  BY <1>1, <1>2, <1>4 DEF PipesOK, QueuesOK, SendTCPRequest, Queued
<1> QED
  BY <1>3, <1>4

Statuses == {"UNBOUND", "BOUND", "LISTENING", "CONNECTED"} \cup Pending

LEMMA SocketChanged ==
    ASSUME SocksOK, NEW fd \in Fd
    PROVE  /\ socks[fd].conn \in Connection
           /\ socks[fd].bin \in 0..BIN_SIZE
           /\ CloseSocket(fd) => SocksOK'
           /\ \A st \in Statuses : SetStatus(fd, st) => SocksOK'
           /\ \A st \in Statuses, c \in Connection : SetConn(fd, c, st) => SocksOK'
<1>1. Free \in [status : {"FREE", "UNBOUND", "BOUND", "LISTENING", "CONNECTED"} \cup Pending,
               conn : Connection, bin : 0..BIN_SIZE]
  BY Constants DEF Free
<1> QED
  BY <1>1 DEF SocksOK, CloseSocket, SetStatus, SetConn, Statuses

LEMMA RequestTaken ==
    ASSUME AppOK, NEW type, AppRequest(type)
    PROVE  /\ Head(fromApp) \in LibraryCall
           /\ Head(fromApp).type = type
           /\ Head(fromApp).conn \in Connection
           /\ Head(fromApp).bytes \in Nat
           /\ Head(fromApp).fd \in Fd \cup {0}
           /\ type # "mSOCKET" => Head(fromApp).fd \in Fd
           /\ fromApp' \in Seq(LibraryCall)
           /\ fromTcp' = fromTcp /\ fromUdp' = fromUdp
<1>1. Head(fromApp) \in LibraryCall /\ fromApp' \in Seq(LibraryCall)
  BY DEF AppOK, AppRequest
<1> QED
  BY <1>1 DEF AppRequest, LibraryCall

-----------------------------------------------------------------------------
(***************************************************************************)
(* ProcessAppRequest keeps the types.                                      *)
(***************************************************************************)

SockTypes == AppOK /\ SocksOK /\ PortsOK /\ QueuesOK /\ PipesOK

LEMMA SocketOpened ==
    ASSUME SockTypes, UNCHANGED appVars, AppSocket
    PROVE  SockTypes'
<1> DEFINE r == Head(fromApp)
<1>1. /\ r.conn \in Connection /\ r.fd \in Fd \cup {0}
      /\ fromApp' \in Seq(LibraryCall) /\ fromTcp' = fromTcp /\ fromUdp' = fromUdp
  BY RequestTaken DEF AppSocket, SockTypes
<1>2. toApp' \in Seq(Replies) /\ SocksOK'
  <2>1. CASE NoFreeSock /\ Reply(r.fd, 0, "ERESOURCE_UNAVAIL") /\ UNCHANGED socks
    <3>1. toApp' \in Seq(Replies)
      BY <1>1, <2>1, Replied DEF SockTypes, AppOK, Errors
    <3> QED
      BY <2>1, <3>1 DEF SockTypes, SocksOK
  <2>2. ASSUME NEW fd \in Fd,
               SetConn(fd, [socks[fd].conn EXCEPT !.protocol = r.conn.protocol], "UNBOUND"),
               Reply(fd, 0, "EOK")
        PROVE  toApp' \in Seq(Replies) /\ SocksOK'
    <3>1. toApp' \in Seq(Replies)
      BY <2>2, Replied DEF SockTypes, AppOK, Errors
    <3>2. [socks[fd].conn EXCEPT !.protocol = r.conn.protocol] \in Connection
      BY <1>1 DEF SockTypes, SocksOK, Connection
    <3> QED
      BY <2>2, <3>1, <3>2, SocketChanged DEF SockTypes, Statuses
  <2> QED
    BY <2>1, <2>2 DEF AppSocket
<1>3. PortsOK' /\ QueuesOK' /\ PipesOK'
  BY <1>1 DEF AppSocket, NothingSent, SockTypes, PortsOK, QueuesOK, PipesOK
<1> QED
  BY <1>1, <1>2, <1>3 DEF SockTypes, AppOK, appVars

LEMMA RequestAnswered ==
    ASSUME SockTypes, UNCHANGED appVars,
           AppRefused \/ AppNoPort \/ AppListen \/ AppDefault
    PROVE  SockTypes'
<1> DEFINE r == Head(fromApp)
<1>1. /\ r.fd \in Fd
      /\ fromApp' \in Seq(LibraryCall) /\ fromTcp' = fromTcp /\ fromUdp' = fromUdp
  <2>1. PICK type : AppRequest(type) /\ type # "mSOCKET"
    BY DEF AppRefused, AppNoPort, AppListen, AppDefault, ReadyStatus
  <2> QED
    BY <2>1, RequestTaken DEF SockTypes
<1>2. toApp' \in Seq(Replies)
  <2>1. \E err \in Errors : Reply(r.fd, 0, err) \/ Reply(0, 0, err)
    BY DEF AppRefused, AppNoPort, AppListen, AppDefault, Errors
  <2>2. toApp \in Seq(Replies) /\ 0 \in Nat
    BY DEF SockTypes, AppOK
  <2> QED
    BY <1>1, <2>1, <2>2, Replied
<1>3. SocksOK'
  <2>1. CASE SetConn(r.fd, [socks[r.fd].conn EXCEPT !.dest = ANY], "LISTENING")
    <3>1. [socks[r.fd].conn EXCEPT !.dest = ANY] \in Connection
      BY <1>1 DEF SockTypes, SocksOK, Connection
    <3> QED
      BY <1>1, <2>1, <3>1, SocketChanged DEF SockTypes, Statuses
  <2>2. CASE UNCHANGED socks
    BY <2>2 DEF SockTypes, SocksOK
  <2> QED
    BY <2>1, <2>2 DEF AppRefused, AppNoPort, AppListen, AppDefault
<1>4. PortsOK' /\ QueuesOK' /\ PipesOK'
  BY <1>1 DEF AppRefused, AppNoPort, AppListen, AppDefault, NothingSent, SockTypes, PortsOK,
              QueuesOK, PipesOK
<1> QED
  BY <1>1, <1>2, <1>3, <1>4 DEF SockTypes, AppOK, appVars

LEMMA SocketBound ==
    ASSUME SockTypes, UNCHANGED appVars, AppBind
    PROVE  SockTypes'
<1> DEFINE r == Head(fromApp)
<1>1. /\ r.fd \in Fd
      /\ fromApp' \in Seq(LibraryCall) /\ fromTcp' = fromTcp /\ fromUdp' = fromUdp
  BY RequestTaken DEF AppBind, SockTypes
<1>2. PICK p \in Port :
        /\ ports' = [ports EXCEPT ![p] = r.fd]
        /\ LET c == [socks[r.fd].conn EXCEPT !.src = p]
           IN  \/ /\ SetConn(r.fd, c, "UNBOUND")
                  /\ SendUDPRequest("FORWARD", r.fd, c, 0)
                  /\ UNCHANGED toApp
               \/ /\ SetConn(r.fd, c, "BOUND")
                  /\ Reply(r.fd, 0, "EOK")
                  /\ NothingSent
  BY DEF AppBind
<1> DEFINE c == [socks[r.fd].conn EXCEPT !.src = p]
<1>3. c \in Connection
  BY <1>1 DEF SockTypes, SocksOK, Connection
<1>4. PortsOK'
  BY <1>1, <1>2 DEF SockTypes, PortsOK
<1> HIDE DEF c
<1>5. SocksOK'
  BY <1>1, <1>2, <1>3, SocketChanged DEF SockTypes, Statuses, c
<1>6. toApp' \in Seq(Replies) /\ QueuesOK' /\ PipesOK'
  <2>1. CASE SendUDPRequest("FORWARD", r.fd, c, 0) /\ UNCHANGED toApp
    BY <1>1, <1>3, <2>1, RequestSent DEF SockTypes, AppOK, RequestTypes
  <2>2. CASE Reply(r.fd, 0, "EOK") /\ NothingSent
    <3>1. toApp' \in Seq(Replies)
      BY <1>1, <2>2, Replied DEF SockTypes, AppOK, Errors
    <3> QED
      BY <1>1, <2>2, <3>1 DEF NothingSent, SockTypes, QueuesOK, PipesOK
  <2> QED
    BY <1>2, <2>1, <2>2 DEF c
<1> QED
  BY <1>1, <1>4, <1>5, <1>6 DEF SockTypes, AppOK, appVars

LEMMA ConnectAsked ==
    ASSUME SockTypes, UNCHANGED appVars, AppConnect
    PROVE  SockTypes'
<1> DEFINE r == Head(fromApp)
<1>1. /\ r.fd \in Fd /\ r.conn \in Connection
      /\ fromApp' \in Seq(LibraryCall) /\ fromTcp' = fromTcp /\ fromUdp' = fromUdp
  BY RequestTaken DEF AppConnect, SockTypes
<1>2. PICK p \in Port :
        /\ ports' = [ports EXCEPT ![p] = r.fd] \/ UNCHANGED ports
        /\ LET c == [socks[r.fd].conn EXCEPT !.src = p, !.dest = r.conn.dest]
           IN  \/ /\ SetConn(r.fd, c, "CONNECTED")
                  /\ SendUDPRequest("FORWARD", r.fd, c, 0)
               \/ /\ SetConn(r.fd, c, "CONNECT_PENDING")
                  /\ SendTCPRequest("CONNECT", r.fd, c, 0)
  BY DEF AppConnect
<1> DEFINE c == [socks[r.fd].conn EXCEPT !.src = p, !.dest = r.conn.dest]
<1>3. c \in Connection
  BY <1>1 DEF SockTypes, SocksOK, Connection
<1>4. PortsOK'
  BY <1>1, <1>2 DEF SockTypes, PortsOK
<1> HIDE DEF c
<1>5. SocksOK'
  BY <1>1, <1>2, <1>3, SocketChanged DEF SockTypes, Statuses, Pending, c
<1>6. QueuesOK' /\ PipesOK'
  BY <1>1, <1>2, <1>3, RequestSent DEF SockTypes, RequestTypes, c
<1> QED
  BY <1>1, <1>4, <1>5, <1>6 DEF SockTypes, AppOK, appVars, AppConnect

LEMMA RequestPassedOn ==
    ASSUME SockTypes, UNCHANGED appVars, AppAccept \/ AppWrite \/ AppClose
    PROVE  SockTypes'
<1> DEFINE r == Head(fromApp)
           c == socks[r.fd].conn
<1>1. /\ r.fd \in Fd /\ r.bytes \in Nat
      /\ fromApp' \in Seq(LibraryCall) /\ fromTcp' = fromTcp /\ fromUdp' = fromUdp
  BY RequestTaken DEF AppAccept, AppWrite, AppClose, SockTypes
<1>2. c \in Connection
  BY <1>1, SocketChanged DEF SockTypes
<1> HIDE DEF c
<1>3. QueuesOK' /\ PipesOK'
  <2>1. PICK type \in RequestTypes, n \in Nat :
            SendUDPRequest(type, r.fd, c, n) \/ SendTCPRequest(type, r.fd, c, n)
    BY <1>1 DEF AppAccept, AppWrite, AppClose, SendRequest, RequestTypes, c
  <2> QED
    BY <1>1, <1>2, <2>1, RequestSent DEF SockTypes
<1>4. SocksOK'
  BY <1>1, SocketChanged DEF SockTypes, Statuses, Pending, AppAccept, AppWrite, AppClose
<1>5. toApp' \in Seq(Replies)
  <2>1. CASE Reply(r.fd, 0, "EOK")
    BY <1>1, <2>1, Replied DEF SockTypes, AppOK, Errors
  <2>2. CASE UNCHANGED toApp
    BY <2>2 DEF SockTypes, AppOK
  <2> QED
    BY <2>1, <2>2 DEF AppAccept, AppWrite, AppClose
<1> QED
  BY <1>1, <1>3, <1>4, <1>5 DEF SockTypes, AppOK, PortsOK, appVars, AppAccept, AppWrite, AppClose

LEMMA ReadAsked ==
    ASSUME SockTypes, UNCHANGED appVars, AppRead
    PROVE  SockTypes'
<1> DEFINE r == Head(fromApp)
<1>1. /\ r.fd \in Fd
      /\ fromApp' \in Seq(LibraryCall) /\ fromTcp' = fromTcp /\ fromUdp' = fromUdp
  BY RequestTaken DEF AppRead, SockTypes
<1>2. toApp' \in Seq(Replies) /\ SocksOK'
  <2>1. CASE Reply(r.fd, socks[r.fd].bin, "EOK") /\ UNCHANGED socks
    <3>1. socks[r.fd].bin \in Nat
      BY <1>1, SocketChanged, Constants DEF SockTypes
    <3>2. toApp' \in Seq(Replies)
      BY <1>1, <2>1, <3>1, Replied DEF SockTypes, AppOK, Errors
    <3> QED
      BY <2>1, <3>2 DEF SockTypes, SocksOK
  <2>2. CASE SetStatus(r.fd, "READ_PENDING") /\ UNCHANGED toApp
    BY <1>1, <2>2, SocketChanged DEF SockTypes, AppOK, Statuses, Pending
  <2> QED
    BY <2>1, <2>2 DEF AppRead
<1>3. PortsOK' /\ QueuesOK' /\ PipesOK'
  BY <1>1 DEF AppRead, NothingSent, SockTypes, PortsOK, QueuesOK, PipesOK
<1> QED
  BY <1>1, <1>2, <1>3 DEF SockTypes, AppOK, appVars

LEMMA RequestTypesKept ==
    ASSUME SockTypes, UNCHANGED appVars, ProcessAppRequest
    PROVE  SockTypes'
  BY SocketOpened, RequestAnswered, SocketBound, ConnectAsked, RequestPassedOn, ReadAsked
     DEF ProcessAppRequest

-----------------------------------------------------------------------------
(***************************************************************************)
(* ProcessTCPMessage and ProcessUDPMessage keep the types.                 *)
(***************************************************************************)

LEMMA MessageFields ==
    ASSUME NEW m \in Srrs
    PROVE  m.conn \in Connection /\ m.bytes \in Nat /\ m.error \in Errors
  BY DEF Srrs

\* What the handlers of a WRITE have in common.
WriteTypes == toApp' \in Seq(Replies) /\ SocksOK' /\ PipesOK'

LEMMA Delivered ==
    ASSUME SockTypes, NEW m \in Srrs, NEW fd \in Fd, Deliver(fd, m),
           fromTcp' \in Seq(Srrs), fromUdp' \in Seq(Srrs)
    PROVE  WriteTypes
<1>1. CASE /\ socks' = [socks EXCEPT ![fd].bin = @ + Taken(fd, m)]
           /\ \E err \in Errors : SendStatus(m, Taken(fd, m), err)
           /\ UNCHANGED toApp
  <2>1. /\ Taken(fd, m) \in Nat
        /\ socks[fd].bin + Taken(fd, m) \in 0..BIN_SIZE
    BY SocketChanged, MessageFields, Constants DEF Taken, Lesser, Room, SockTypes
  <2>2. SocksOK'
    BY <1>1, <2>1 DEF SockTypes, SocksOK
  <2>3. PipesOK'
    BY <1>1, <2>1, StatusSent DEF SockTypes
  <2> QED
    BY <1>1, <2>2, <2>3 DEF WriteTypes, SockTypes, AppOK
<1>2. CASE /\ Reply(fd, m.bytes, m.error)
           /\ SetStatus(fd, "CONNECTED")
           /\ SendStatus(m, m.bytes, "EOK")
  <2>1. toApp' \in Seq(Replies)
    BY <1>2, MessageFields, Replied DEF SockTypes, AppOK
  <2>2. PipesOK'
    BY <1>2, MessageFields, StatusSent DEF SockTypes, Errors
  <2> QED
    BY <1>2, <2>1, <2>2, SocketChanged DEF WriteTypes, SockTypes, Statuses
<1> QED
  BY <1>1, <1>2 DEF Deliver, Errors

LEMMA Refused ==
    ASSUME SockTypes, NEW m \in Srrs, Refuse(m) \/ Unknown(m),
           fromTcp' \in Seq(Srrs), fromUdp' \in Seq(Srrs)
    PROVE  WriteTypes
<1>1. PICK n \in Nat, err \in Errors : SendStatus(m, n, err)
  BY MessageFields DEF Refuse, Unknown, Errors
<1>2. PipesOK'
  BY <1>1, StatusSent DEF SockTypes
<1> QED
  BY <1>2 DEF WriteTypes, Refuse, Unknown, SockTypes, SocksOK, AppOK

LEMMA ConnectionAccepted ==
    ASSUME SockTypes, NEW m \in Srrs, NEW fd \in Fd, Accepted(fd, m),
           fromTcp' \in Seq(Srrs), fromUdp' \in Seq(Srrs)
    PROVE  WriteTypes
<1>1. PICK sent \in Errors : SendStatus(m, m.bytes, sent)
  BY DEF Accepted, Errors
<1>2. PipesOK'
  BY <1>1, StatusSent, MessageFields DEF SockTypes
<1>3. toApp' \in Seq(Replies)
  <2>1. \/ UNCHANGED toApp
        \/ \E k \in Fd, err \in Errors : Reply(k, m.bytes, err)
    BY MessageFields DEF Accepted, Errors
  <2> QED
    BY <2>1, MessageFields, Replied DEF SockTypes, AppOK
<1>4. SocksOK'
  <2>1. CASE SetStatus(fd, "LISTENING")
    BY <2>1, SocketChanged DEF SockTypes, Statuses
  <2>2. ASSUME NEW new \in Fd,
               socks' = [socks EXCEPT ![fd].status = "LISTENING", ![new].conn = m.conn,
                                      ![new].status = "CONNECTED"]
        PROVE  SocksOK'
    <3>1. m.conn \in Connection
      BY MessageFields
    <3> QED
      BY <2>2, <3>1 DEF SockTypes, SocksOK
  <2> QED
    BY <2>1, <2>2 DEF Accepted
<1> QED
  BY <1>2, <1>3, <1>4 DEF WriteTypes

LEMMA ConnectionMade ==
    ASSUME SockTypes, NEW m \in Srrs, NEW fd \in Fd, Connected(fd, m),
           fromTcp' \in Seq(Srrs), fromUdp' \in Seq(Srrs)
    PROVE  WriteTypes
<1>1. toApp' \in Seq(Replies)
  BY MessageFields, Replied DEF Connected, SockTypes, AppOK
<1>2. PipesOK'
  BY MessageFields, StatusSent DEF Connected, SockTypes, Errors
<1>3. SocksOK'
  BY SocketChanged DEF Connected, SockTypes, Statuses
<1> QED
  BY <1>1, <1>2, <1>3 DEF WriteTypes

LEMMA WriteTypesKept ==
    ASSUME SockTypes, UNCHANGED appVars, HandleTCPWrite \/ HandleUDPWrite
    PROVE  SockTypes'
<1>1. CASE HandleTCPWrite
  <2>1. /\ Head(fromTcp) \in Srrs
        /\ fromTcp' \in Seq(Srrs) /\ fromUdp' \in Seq(Srrs)
    BY <1>1 DEF HandleTCPWrite, SockTypes, PipesOK
  <2>2. WriteTypes
    BY <1>1, <2>1, Delivered, Refused, ConnectionAccepted, ConnectionMade
       DEF HandleTCPWrite, IsFound
  <2> QED
    BY <1>1, <2>2 DEF WriteTypes, HandleTCPWrite, SockTypes, AppOK, PortsOK, QueuesOK, appVars
<1>2. CASE HandleUDPWrite
  <2>1. /\ Head(fromUdp) \in Srrs
        /\ fromTcp' \in Seq(Srrs) /\ fromUdp' \in Seq(Srrs)
    BY <1>2 DEF HandleUDPWrite, SockTypes, PipesOK
  <2>2. WriteTypes
    BY <1>2, <2>1, Delivered, Refused DEF HandleUDPWrite, IsFound
  <2> QED
    BY <1>2, <2>2 DEF WriteTypes, HandleUDPWrite, SockTypes, AppOK, PortsOK, QueuesOK, appVars
<1> QED
  BY <1>1, <1>2

LEMMA StatusTypesKept ==
    ASSUME SockTypes, UNCHANGED appVars, HandleTCPStatus \/ HandleUDPStatus
    PROVE  SockTypes'
<1>1. PICK m \in Srrs, r \in RequestRecord :
        /\ \/ Reply(r.sock, m.bytes, m.error)
           \/ UNCHANGED toApp
        /\ \/ CloseSocket(r.sock)
           \/ \E st \in Statuses : SetStatus(r.sock, st)
           \/ UNCHANGED socks
  <2>1. CASE HandleTCPStatus
    <3>1. Head(fromTcp) \in Srrs /\ Head(tcpq) \in RequestRecord
      BY <2>1 DEF HandleTCPStatus, SockTypes, PipesOK, QueuesOK
    <3> QED
      BY <2>1, <3>1 DEF HandleTCPStatus, Statuses
  <2>2. CASE HandleUDPStatus
    <3>1. Head(fromUdp) \in Srrs /\ Head(udpq) \in RequestRecord
      BY <2>2 DEF HandleUDPStatus, SockTypes, PipesOK, QueuesOK
    <3> QED
      BY <2>2, <3>1 DEF HandleUDPStatus, StatusByDest, Statuses
  <2> QED
    BY <2>1, <2>2
<1>2. r.sock \in Fd
  BY DEF RequestRecord
<1>3. toApp' \in Seq(Replies)
  BY <1>1, <1>2, MessageFields, Replied DEF SockTypes, AppOK
<1>4. SocksOK'
  <2>1. CASE UNCHANGED socks
    BY <2>1 DEF SockTypes, SocksOK
  <2> QED
    BY <1>1, <1>2, <2>1, SocketChanged DEF SockTypes
<1>5. QueuesOK' /\ PipesOK' /\ PortsOK' /\ fromApp' = fromApp
  <2>1. CASE HandleTCPStatus
    BY <2>1 DEF HandleTCPStatus, SockTypes, QueuesOK, PipesOK, PortsOK
  <2>2. CASE HandleUDPStatus
    BY <2>2 DEF HandleUDPStatus, SockTypes, QueuesOK, PipesOK, PortsOK
  <2> QED
    BY <2>1, <2>2
<1> QED
  BY <1>3, <1>4, <1>5 DEF SockTypes, AppOK, appVars

-----------------------------------------------------------------------------
(***************************************************************************)
(* UDP, TCP and the network keep the types.                                *)
(***************************************************************************)

LEMMA WithoutType ==
    ASSUME NEW S, NEW cl \in Seq(S), NEW i, cl # <<>>
    PROVE  Without(cl, i) \in Seq(S) /\ Table!Without(cl, i) \in Seq(S)
<1>1. Len(cl) \in Nat /\ Len(cl) > 0
  OBVIOUS
<1>2. \A j \in 1..(Len(cl) - 1) : cl[j] \in S /\ cl[j + 1] \in S
  BY <1>1
<1> DEFINE w == [j \in 1..(Len(cl) - 1) |-> IF j < i THEN cl[j] ELSE cl[j + 1]]
<1>3. w \in [1..(Len(cl) - 1) -> S]
  BY <1>2
<1>4. w \in Seq(S)
  BY <1>1, <1>3
<1> QED
  BY <1>4 DEF Without, Table!Without

LEMMA UdpTypesKept ==
    ASSUME UdpOK, PipesOK, UNCHANGED <<toTcp, fromTcp>>, UdpStep
    PROVE  UdpOK' /\ PipesOK'
<1> DEFINE req == Head(toUdp)
           Entry == [conn : Connection]
<1> SUFFICES /\ clist' \in Seq(Entry) /\ mux' \in Seq(Connection)
             /\ toUdp' \in Seq(Srrs) /\ fromUdp' \in Seq(Srrs)
  BY DEF UdpOK, PipesOK
<1>1. /\ clist \in Seq(Entry) /\ mux \in Seq(Connection)
      /\ toUdp \in Seq(Srrs) /\ fromUdp \in Seq(Srrs)
  BY DEF UdpOK, PipesOK
<1>2. ASSUME NEW m \in Srrs, Send(m)
      PROVE  fromUdp' \in Seq(Srrs)
  BY <1>1, <1>2 DEF Send
<1>3. CASE ForwardDatagram \/ RejectDatagram
  <2>1. mux # <<>> /\ mux' = Tail(mux) /\ UNCHANGED <<clist, toUdp>>
    BY <1>3 DEF ForwardDatagram, RejectDatagram
  <2>2. fromUdp' \in Seq(Srrs)
    <3>1. ASSUME NEW i \in DOMAIN clist
          PROVE  [type |-> "WRITE", conn |-> clist[i].conn, bytes |-> 1, error |-> "EOK"] \in Srrs
      <4>1. clist[i] \in Entry
        <5> HIDE DEF Entry
        <5> QED
          BY <1>1
      <4> QED
        BY <4>1 DEF Srrs, RequestTypes, Errors
    <3> QED
      BY <1>1, <1>2, <1>3, <3>1 DEF ForwardDatagram, RejectDatagram
  <2> QED
    BY <1>1, <2>1, <2>2
<1>4. ASSUME NEW type, UdpRequest(type)
      PROVE  /\ toUdp' \in Seq(Srrs) /\ UNCHANGED mux
             /\ req \in Srrs
             /\ \A n \in Nat, err \in {"EOK", "ENOMATCH"} : UdpStatus(req, n, err) \in Srrs
  <2>1. req \in Srrs /\ toUdp' \in Seq(Srrs) /\ UNCHANGED mux
    BY <1>1, <1>4 DEF UdpRequest
  <2> QED
    BY <2>1, MessageFields DEF UdpStatus, Srrs, Errors
<1>5. CASE UdpIgnoreStatus
  BY <1>1, <1>4, <1>5 DEF UdpIgnoreStatus
<1>6. CASE UdpWrite
  BY <1>1, <1>2, <1>4, <1>6, MessageFields DEF UdpWrite
<1>7. CASE UdpForward
  <2>1. ForwardReplaced(req.conn) \in Seq(Entry)
    <3>1. clist # <<>> => \A i : Without(clist, i) \in Seq(Entry)
      BY <1>1, WithoutType
    <3>2. clist = <<>> => NoMatch(clist, req.conn)
      BY DEF NoMatch
    <3> HIDE DEF req, Entry
    <3> QED
      BY <1>1, <3>1, <3>2 DEF ForwardReplaced
  <2>2. [conn |-> req.conn] \in Entry
    BY <1>4, <1>7, MessageFields DEF UdpForward
  <2>3. fromUdp' \in Seq(Srrs) /\ toUdp' \in Seq(Srrs) /\ UNCHANGED mux
    BY <1>2, <1>4, <1>7 DEF UdpForward
  <2> QED
    BY <1>1, <1>7, <2>1, <2>2, <2>3 DEF UdpForward
<1>8. CASE UdpClose
  <2>1. fromUdp' \in Seq(Srrs) /\ toUdp' \in Seq(Srrs) /\ UNCHANGED mux
    BY <1>2, <1>4, <1>8 DEF UdpClose
  <2>2. ASSUME NEW i \in DOMAIN clist
        PROVE  Without(clist, i) \in Seq(Entry)
    BY <1>1, WithoutType
  <2> QED
    BY <1>1, <1>8, <2>1, <2>2 DEF UdpClose
<1> QED
  BY <1>3, <1>5, <1>6, <1>7, <1>8 DEF UdpStep

TcpEntry == [conn : Connection,
             st : {"LISTEN", "SYN_SENT", "ESTABLISHED", "CLOSED_BY_US", "CLOSE_WAIT"}]

LEMMA TableChanged ==
    ASSUME TcpOK, NEW i \in DOMAIN tcps
    PROVE  /\ tcps[i] \in TcpEntry /\ tcps[i].conn \in Connection
           /\ Table!Without(tcps, i) \in Seq(TcpEntry)
           /\ \A st \in {"LISTEN", "SYN_SENT", "ESTABLISHED", "CLOSED_BY_US", "CLOSE_WAIT"} :
                 Enter(i, st) => TcpOK'
           /\ Enter(i, tcps[i].st) => TcpOK'
<1>1. tcps \in Seq(TcpEntry) /\ tcps[i] \in TcpEntry
  <2>1. tcps \in Seq(TcpEntry)
    BY DEF TcpOK, TcpEntry
  <2> QED
    BY <2>1
<1>2. Table!Without(tcps, i) \in Seq(TcpEntry)
  BY <1>1, WithoutType
<1>3. ASSUME NEW st \in {"LISTEN", "SYN_SENT", "ESTABLISHED", "CLOSED_BY_US", "CLOSE_WAIT"},
             Enter(i, st)
      PROVE  TcpOK'
  <2>1. [tcps[i] EXCEPT !.st = st] \in TcpEntry
    BY <1>1 DEF TcpEntry
  <2>2. <<[tcps[i] EXCEPT !.st = st]>> \in Seq(TcpEntry)
    BY <2>1
  <2>3. tcps' \in Seq(TcpEntry)
    BY <1>2, <1>3, <2>2 DEF Enter, Table!ToFront
  <2> QED
    BY <2>3 DEF TcpOK, TcpEntry
<1> QED
  BY <1>1, <1>2, <1>3 DEF TcpEntry

LEMMA AnswerType ==
    ASSUME PipesOK, NEW type \in {"STATUS", "WRITE"}, NEW c \in Connection, NEW n \in Nat,
           NEW err \in Errors, Answer(type, c, n, err)
    PROVE  fromTcp' \in Seq(Srrs)
<1>1. [type |-> type, conn |-> c, bytes |-> n, error |-> err] \in Srrs
  BY DEF Srrs, RequestTypes
<1> QED
  BY <1>1 DEF PipesOK, Answer

LEMMA TcpTypesKept ==
    ASSUME TcpOK, PipesOK, UNCHANGED <<toUdp, fromUdp>>, TcpStep
    PROVE  TcpOK' /\ PipesOK'
<1> DEFINE req == Head(toTcp)
<1> SUFFICES TcpOK' /\ toTcp' \in Seq(Srrs) /\ fromTcp' \in Seq(Srrs)
  BY DEF PipesOK
<1>1. ASSUME NEW type, TcpRequest(type)
      PROVE  req \in Srrs /\ req.conn \in Connection /\ req.bytes \in Nat
             /\ toTcp' \in Seq(Srrs)
  <2>1. req \in Srrs /\ toTcp' \in Seq(Srrs)
    BY <1>1 DEF TcpRequest, PipesOK
  <2> QED
    BY <2>1, MessageFields
<1>2. fromTcp \in Seq(Srrs) /\ (UNCHANGED tcps => TcpOK')
  BY DEF PipesOK, TcpOK
<1> HIDE DEF req
<1>3. CASE TcpAccept
  <2>1. req.conn \in Connection /\ toTcp' \in Seq(Srrs)
    BY <1>1, <1>3 DEF TcpAccept
  <2>2. fromTcp' \in Seq(Srrs)
    <3>1. NoConnection \in Connection
      BY DEF NoConnection, Connection
    <3> QED
      BY <1>3, <3>1, AnswerType DEF TcpAccept, Garbage, Errors
  <2>3. [conn |-> req.conn, st |-> "LISTEN"] \in TcpEntry
    BY <2>1 DEF TcpEntry
  <2>4. tcps' \in Seq(TcpEntry)
    <3>1. tcps \in Seq(TcpEntry)
      BY DEF TcpOK, TcpEntry
    <3>2. CASE tcps' = Append(tcps, [conn |-> req.conn, st |-> "LISTEN"])
      BY <2>3, <3>1, <3>2
    <3>3. ASSUME NEW i \in DOMAIN tcps,
                 tcps' = Append(Table!Without(tcps, i), [conn |-> req.conn, st |-> "LISTEN"])
          PROVE  tcps' \in Seq(TcpEntry)
      BY <2>3, <3>3, TableChanged
    <3> QED
      BY <1>3, <3>2, <3>3 DEF TcpAccept, req
  <2> QED
    BY <2>1, <2>2, <2>4 DEF TcpOK, TcpEntry
<1>4. CASE TcpConnect
  <2>1. req.conn \in Connection /\ toTcp' \in Seq(Srrs)
    BY <1>1, <1>4 DEF TcpConnect
  <2>2. fromTcp' \in Seq(Srrs)
    BY <1>4, <2>1, AnswerType DEF TcpConnect, Garbage, Errors, req
  <2>3. <<[conn |-> req.conn, st |-> "SYN_SENT"]>> \in Seq(TcpEntry)
    BY <2>1 DEF TcpEntry
  <2>4. tcps' \in Seq(TcpEntry)
    BY <1>4, <2>3 DEF TcpConnect, TcpOK, TcpEntry, req
  <2> QED
    BY <2>1, <2>2, <2>4 DEF TcpOK, TcpEntry
<1>5. CASE TcpWrite
  <2>1. req.conn \in Connection /\ req.bytes \in Nat /\ toTcp' \in Seq(Srrs)
    BY <1>1, <1>5 DEF TcpWrite
  <2>2. fromTcp' \in Seq(Srrs)
    BY <1>2, <1>5, <2>1, AnswerType DEF TcpWrite, Garbage, Errors, req
  <2>3. TcpOK'
    BY <1>2, <1>5, TableChanged DEF TcpWrite, req
  <2> QED
    BY <2>1, <2>2, <2>3
<1>6. CASE TcpClose \/ TcpTakeStatus
  <2>1. toTcp' \in Seq(Srrs)
    BY <1>1, <1>6 DEF TcpClose, TcpTakeStatus
  <2>2. TcpOK'
    BY <1>2, <1>6, TableChanged DEF TcpClose, TcpTakeStatus
  <2> QED
    BY <1>2, <1>6, <2>1, <2>2 DEF TcpClose, TcpTakeStatus
<1> QED
  BY <1>3, <1>4, <1>5, <1>6 DEF TcpStep

LEMMA NewConnectionTypes ==
    ASSUME TcpOK, PipesOK, TcpNewConnection
    PROVE  TcpOK' /\ fromTcp' \in Seq(Srrs) /\ UNCHANGED toTcp
<1>1. ASSUME NEW i \in DOMAIN tcps, NEW d \in Remotes, NEW c, c = [tcps[i].conn EXCEPT !.dest = d],
             tcps' = <<[conn |-> c, st |-> "ESTABLISHED"]>> \o tcps,
             Answer("WRITE", c, 0, "EOK")
      PROVE  TcpOK' /\ fromTcp' \in Seq(Srrs)
  <2>1. c \in Connection
    BY <1>1, TableChanged DEF Connection
  <2>2. <<[conn |-> c, st |-> "ESTABLISHED"]>> \in Seq(TcpEntry)
    BY <2>1 DEF TcpEntry
  <2>3. tcps' \in Seq(TcpEntry)
    BY <1>1, <2>2 DEF TcpOK, TcpEntry
  <2> QED
    BY <1>1, <2>1, <2>3, AnswerType DEF TcpOK, TcpEntry, Errors
<1>2. ASSUME NEW i \in DOMAIN tcps, Enter(i, "ESTABLISHED"),
             Answer("WRITE", tcps[i].conn, 0, "EOK")
      PROVE  TcpOK' /\ fromTcp' \in Seq(Srrs)
  BY <1>2, TableChanged, AnswerType DEF Errors
<1> QED
  BY <1>1, <1>2 DEF TcpNewConnection

LEMMA NetworkTypesKept ==
    ASSUME TypeOK, Datagram \/ Segment
    PROVE  TypeOK'
<1>1. AppOK' /\ SocksOK' /\ PortsOK' /\ QueuesOK' /\ (strayClose \in BOOLEAN)'
  <2>1. arrived' \in Nat
    BY DEF Datagram, Segment, TypeOK, AppOK
  <2> QED
    BY <2>1 DEF Datagram, Segment, TypeOK, AppOK, SocksOK, PortsOK, QueuesOK, sockVars
<1>2. CASE Datagram
  <2>1. PICK p \in Port, d \in Remotes : mux' = Append(mux, SlrrConn(p, d, "udp"))
    BY <1>2 DEF Datagram
  <2>2. SlrrConn(p, d, "udp") \in Connection
    BY DEF SlrrConn, Connection
  <2>3. UdpOK'
    BY <1>2, <2>1, <2>2 DEF Datagram, TypeOK, UdpOK
  <2> QED
    BY <1>1, <1>2, <2>3 DEF Datagram, TypeOK, PipesOK, TcpOK, pipes
<1>3. CASE Segment
  <2>1. TcpOK' /\ fromTcp' \in Seq(Srrs) /\ UNCHANGED toTcp
    <3>1. CASE TcpNewConnection
      BY <3>1, NewConnectionTypes DEF TypeOK
    <3>2. CASE TcpData
      BY <3>2, TableChanged, AnswerType DEF TcpData, TypeOK, Errors
    <3>3. CASE TcpPeerClosed
      BY <3>3, TableChanged, AnswerType DEF TcpPeerClosed, TypeOK, Errors
    <3>4. CASE TcpGone
      BY <3>4, TableChanged DEF TcpGone, TypeOK, TcpOK, TcpEntry, PipesOK
    <3> QED
      BY <1>3, <3>1, <3>2, <3>3, <3>4 DEF Segment
  <2>2. PipesOK' /\ UdpOK'
    BY <1>3, <2>1 DEF Segment, TypeOK, PipesOK, UdpOK
  <2> QED
    BY <1>1, <2>1, <2>2 DEF TypeOK
<1> QED
  BY <1>2, <1>3

LEMMA StackTypes ==
    ASSUME TypeOK, [Next]_vars
    PROVE  TypeOK'
<1>1. CASE Call
  <2>1. PICK r \in Requests : /\ call' = r
                             /\ fromApp' = Append(fromApp, r)
                             /\ app' \in {{}, app}
    BY <1>1 DEF Call
  <2>2. r \in LibraryCall
    <3>1. \A p \in {"tcp", "udp"} : SlrrConn(ANY, ANY, p) \in Connection
      BY DEF SlrrConn, Connection
    <3>2. \A p \in Port \cup {ANY} : SlrrConn(p, ANY, NONE) \in Connection
      BY DEF SlrrConn, Connection
    <3>3. \A d \in Remotes : SlrrConn(ANY, d, NONE) \in Connection
      BY DEF SlrrConn, Connection
    <3> QED
      BY <3>1, <3>2, <3>3, Constants
         DEF Requests, minet_socket, minet_bind, minet_listen, minet_accept, minet_connect,
             minet_read, minet_write, minet_close, minet_recvfrom, minet_sendto, minet_modes,
             Slrr, LibraryCall, ReadyStatus
  <2>3. AppOK'
    BY <1>1, <2>1, <2>2 DEF Call, TypeOK, AppOK
  <2> QED
    BY <1>1, <2>3 DEF Call, TypeOK, SocksOK, PortsOK, QueuesOK, PipesOK, TcpOK, UdpOK, pipes
<1>2. CASE Return
  <2>1. toApp' \in Seq(Replies)
    BY <1>2 DEF Return, TypeOK, AppOK
  <2> QED
    BY <1>2, <2>1 DEF Return, TypeOK, AppOK, SocksOK, PortsOK, QueuesOK, PipesOK, TcpOK, UdpOK,
                      pipes
<1>3. CASE Sock
  <2>1. SockTypes /\ UNCHANGED appVars /\ SockStep
    BY <1>3 DEF Sock, TypeOK, SockTypes
  <2>2. SockTypes'
    BY <2>1, RequestTypesKept, WriteTypesKept, StatusTypesKept
       DEF SockStep, ProcessTCPMessage, ProcessUDPMessage
  <2>3. strayClose' \in BOOLEAN
    BY <1>3 DEF Sock
  <2> QED
    BY <1>3, <2>2, <2>3 DEF Sock, TypeOK, SockTypes, TcpOK, UdpOK
<1>4. CASE Udp
  BY <1>4, UdpTypesKept
     DEF Udp, TypeOK, AppOK, SocksOK, PortsOK, QueuesOK, TcpOK, appVars, sockVars
<1>5. CASE Tcp
  BY <1>5, TcpTypesKept
     DEF Tcp, TypeOK, AppOK, SocksOK, PortsOK, QueuesOK, UdpOK, appVars, sockVars
<1>6. CASE Datagram \/ Segment
  BY <1>6, NetworkTypesKept
<1>7. CASE UNCHANGED vars
  BY <1>7 DEF vars, appVars, sockVars, pipes, TypeOK, AppOK, SocksOK, PortsOK, QueuesOK,
              PipesOK, TcpOK, UdpOK
<1> QED
  BY <1>1, <1>2, <1>3, <1>4, <1>5, <1>6, <1>7 DEF Next

\* The types of the whole stack, a socket's store among them: it never holds
\* more than its size.
THEOREM TypeCorrect == Spec => []TypeOK
<1>1. Init => TypeOK
  <2> SUFFICES ASSUME Init PROVE TypeOK
    OBVIOUS
  <2>1. Free \in [status : {"FREE", "UNBOUND", "BOUND", "LISTENING", "CONNECTED"} \cup Pending,
                 conn : Connection, bin : 0..BIN_SIZE]
    BY Constants DEF Free
  <2>2. SocksOK /\ PortsOK
    BY <2>1 DEF Init, SockInit, SocksOK, PortsOK
  <2>3. AppOK
    BY DEF Init, SockInit, AppOK
  <2>4. QueuesOK /\ PipesOK /\ TcpOK /\ UdpOK
    BY DEF Init, SockInit, UdpInit, QueuesOK, PipesOK, TcpOK, UdpOK
  <2> QED
    BY <2>2, <2>3, <2>4 DEF Init, TypeOK
<1> QED
  BY <1>1, StackTypes, PTL DEF Spec

-----------------------------------------------------------------------------
(***************************************************************************)
(* Whose turn it is.                                                       *)
(*                                                                         *)
(* The application waits for the answer to its call.  Either the call has  *)
(* not reached sock, or its answer is on its way back, or one socket, or   *)
(* one record in a queue, stands for it; closes do not wait.               *)
(*                                                                         *)
(* This is for applications that do not go on after closing a TCP socket:  *)
(* TCP never answers a CLOSE, and from then on every answer of TCP is      *)
(* taken for that of an earlier request.                                   *)
(***************************************************************************)

CloseEnds == \A a \in Apps : "tcp" \in a => "close" \notin a

InProgress(fd, types) ==
    call # NONE /\ call.fd = fd /\ call.type \in types /\ fromApp = <<>> /\ toApp = <<>>

Turns ==
    /\ call = NONE => fromApp = <<>> /\ toApp = <<>>
    /\ Len(fromApp) + Len(toApp) <= 1
    /\ fromApp # <<>> => call = Head(fromApp)

\* The calls that the application can make.
AppCalls ==
    /\ call # NONE /\ call.type = "mSOCKET" =>
          /\ call.conn.protocol \in {"tcp", "udp"}
          /\ call.conn.protocol = "tcp" => "close" \notin app
    /\ call # NONE /\ call.type = "mCLOSE" => app = {} \/ "close" \in app

SocketsWait == \A fd \in Fd :
    /\ socks[fd].status = "ACCEPT_PENDING" => InProgress(fd, {"mACCEPT"})
    /\ socks[fd].status = "CONNECT_PENDING" => InProgress(fd, {"mCONNECT"})
    /\ socks[fd].status = "READ_PENDING" => InProgress(fd, {"mREAD"})
    /\ socks[fd].status = "WRITE_PENDING" => InProgress(fd, {"mWRITE"})

Waits(r, types) ==
    InProgress(r.sock, types) /\ socks[r.sock].status \notin {"FREE", "CONNECT_PENDING"}

RecordsWait ==
    /\ \A i \in DOMAIN udpq :
          \/ udpq[i].type = "CLOSE"
          \/ udpq[i].type = "FORWARD" /\ Waits(udpq[i], {"mBIND", "mCONNECT"})
          \/ udpq[i].type = "WRITE" /\ Waits(udpq[i], {"mWRITE"})
    /\ \A i \in DOMAIN tcpq : tcpq[i].type = "WRITE" => Waits(tcpq[i], {"mWRITE"})

OneWaits ==
    /\ \A i, j \in DOMAIN udpq : udpq[i].type # "CLOSE" /\ udpq[j].type # "CLOSE" => i = j
    /\ \A i, j \in DOMAIN tcpq : tcpq[i].type = "WRITE" /\ tcpq[j].type = "WRITE" => i = j
    /\ \A i \in DOMAIN udpq, j \in DOMAIN tcpq : udpq[i].type = "CLOSE" \/ tcpq[j].type # "WRITE"

Waiting == SocketsWait /\ RecordsWait /\ OneWaits

Sockets == \A fd \in Fd :
    /\ socks[fd].status = "FREE" => socks[fd].conn = Unbound
    /\ socks[fd].status # "FREE" => socks[fd].conn.protocol \in {"tcp", "udp"}
    /\ socks[fd].conn.protocol = "tcp" => "close" \notin app
    /\ socks[fd].status \in {"LISTENING", "ACCEPT_PENDING", "CONNECT_PENDING"} =>
          socks[fd].conn.protocol = "tcp"

\* A port in use is taken, and only TCP sockets share one.
PortsApart == \A fd \in Fd : socks[fd].conn.src # ANY =>
    /\ ports[socks[fd].conn.src] # 0
    /\ \A k \in Fd \ {fd} : socks[k].conn.src = socks[fd].conn.src =>
          socks[fd].conn.protocol = "tcp" /\ socks[k].conn.protocol = "tcp"

\* Once a CLOSE has gone to TCP, the application asks for nothing any more, so
\* TCP finds no WRITE for a connection it has closed.
TcpEnds ==
    /\ \A i \in DOMAIN toTcp : toTcp[i].type = "CLOSE" =>
          /\ app = {} /\ fromApp = <<>>
          /\ \A j \in DOMAIN toTcp : j > i => toTcp[j].type # "WRITE"
    /\ \A i \in DOMAIN tcps : tcps[i].st = "CLOSED_BY_US" =>
          /\ app = {} /\ fromApp = <<>>
          /\ \A j \in DOMAIN toTcp : toTcp[j].type # "WRITE"
    /\ \A i \in DOMAIN fromTcp : fromTcp[i].type = "STATUS" => fromTcp[i].error = "EOK"

StackInv == Turns /\ AppCalls /\ Waiting /\ Sockets /\ PortsApart /\ TcpEnds

-----------------------------------------------------------------------------
(***************************************************************************)
(* Records and turns.                                                      *)
(***************************************************************************)

\* Nothing stands for a call.
Idle ==
    /\ \A fd \in Fd : socks[fd].status \notin Pending
    /\ \A i \in DOMAIN udpq : udpq[i].type = "CLOSE"
    /\ \A i \in DOMAIN tcpq : tcpq[i].type # "WRITE"

LEMMA NotAPort == ANY \notin Port /\ 0 \notin Fd /\ Fd \subseteq Nat
  BY StackAssumption DEF Port, Fd

LEMMA RecordSocket ==
    ASSUME TypeOK
    PROVE  /\ udpq \in Seq(RequestRecord) /\ tcpq \in Seq(RequestRecord)
           /\ \A i \in DOMAIN udpq : udpq[i].sock \in Fd
           /\ \A i \in DOMAIN tcpq : tcpq[i].sock \in Fd
<1>1. udpq \in Seq(RequestRecord) /\ tcpq \in Seq(RequestRecord)
  BY DEF TypeOK, QueuesOK
<1>2. \A r \in RequestRecord : r.sock \in Fd
  BY DEF RequestRecord
<1> QED
  BY <1>1, <1>2

LEMMA RecordTaken ==
    ASSUME NEW q \in Seq(RequestRecord), q # <<>>
    PROVE  /\ 1 \in DOMAIN q /\ Head(q) = q[1]
           /\ \A i \in DOMAIN Tail(q) : i + 1 \in DOMAIN q /\ Tail(q)[i] = q[i + 1] /\ i + 1 # 1
           /\ \A i, j \in DOMAIN Tail(q) : i + 1 = j + 1 => i = j
<1>1. DOMAIN Tail(q) = 1..(Len(q) - 1) /\ DOMAIN q = 1..Len(q) /\ Len(q) \in Nat /\ Len(q) > 0
  OBVIOUS
<1> QED
  BY <1>1

\* What an operation of the application finds: nobody waits.
LEMMA CallMade ==
    ASSUME TypeOK, StackInv, NEW type, AppRequest(type)
    PROVE  /\ fromApp # <<>> /\ call = Head(fromApp) /\ call # NONE /\ call.type = type
           /\ call \in LibraryCall
           /\ fromApp' = <<>> /\ toApp = <<>>
           /\ fromTcp' = fromTcp /\ fromUdp' = fromUdp
           /\ Idle
           /\ type # "mSOCKET" => call.fd \in Fd
<1>1. fromApp # <<>> /\ fromApp' = Tail(fromApp) /\ Head(fromApp).type = type
      /\ fromTcp' = fromTcp /\ fromUdp' = fromUdp
  BY DEF AppRequest
<1>2. fromApp \in Seq(LibraryCall) /\ toApp \in Seq(Replies)
  BY DEF TypeOK, AppOK
<1>3. call = Head(fromApp) /\ call # NONE /\ Len(fromApp) + Len(toApp) <= 1
  BY <1>1 DEF StackInv, Turns
<1>4. call \in LibraryCall
  BY <1>1, <1>2, <1>3
<1>5. Len(fromApp) = 1 /\ Len(toApp) = 0
  <2>1. Len(fromApp) \in Nat /\ Len(toApp) \in Nat /\ Len(fromApp) # 0
    BY <1>1, <1>2
  <2> QED
    BY <1>3, <2>1
<1>6. fromApp' = <<>> /\ toApp = <<>>
  BY <1>1, <1>2, <1>5
<1>7. Idle
  BY <1>1 DEF StackInv, Waiting, SocketsWait, RecordsWait, Waits, InProgress, Idle, Pending
<1>8. type # "mSOCKET" => call.fd \in Fd
  BY <1>3, RequestTaken DEF TypeOK
<1> QED
  BY <1>1, <1>3, <1>4, <1>6, <1>7, <1>8

\* Nothing begins to wait.
LEMMA IdleKept ==
    ASSUME TypeOK, Idle,
           \A k \in Fd : socks'[k].status \notin Pending \/ socks'[k].status = socks[k].status,
           \/ udpq' = udpq
           \/ \E fd, c : udpq' = Queued(udpq, "CLOSE", fd, c),
           \/ tcpq' = tcpq
           \/ \E kind, fd, c : kind # "WRITE" /\ tcpq' = Queued(tcpq, kind, fd, c)
    PROVE  Idle'
<1>1. udpq \in Seq(RequestRecord) /\ tcpq \in Seq(RequestRecord)
  BY RecordSocket
<1>2. \A i \in DOMAIN udpq' : udpq'[i].type = "CLOSE"
  <2>1. ASSUME NEW fd, NEW c, udpq' = Queued(udpq, "CLOSE", fd, c)
        PROVE  \A i \in DOMAIN udpq' : udpq'[i].type = "CLOSE"
    <3>1. /\ DOMAIN udpq' = DOMAIN udpq \cup {Len(udpq) + 1}
          /\ \A i \in DOMAIN udpq : udpq'[i] = udpq[i]
          /\ udpq'[Len(udpq) + 1].type = "CLOSE"
      BY <1>1, <2>1 DEF Queued
    <3> QED
      BY <3>1 DEF Idle
  <2> QED
    BY <2>1 DEF Idle
<1>3. \A i \in DOMAIN tcpq' : tcpq'[i].type # "WRITE"
  <2>1. ASSUME NEW kind, NEW fd, NEW c, kind # "WRITE", tcpq' = Queued(tcpq, kind, fd, c)
        PROVE  \A i \in DOMAIN tcpq' : tcpq'[i].type # "WRITE"
    <3>1. /\ DOMAIN tcpq' = DOMAIN tcpq \cup {Len(tcpq) + 1}
          /\ \A i \in DOMAIN tcpq : tcpq'[i] = tcpq[i]
          /\ tcpq'[Len(tcpq) + 1].type = kind
      BY <1>1, <2>1 DEF Queued
    <3> QED
      BY <2>1, <3>1 DEF Idle
  <2> QED
    BY <2>1 DEF Idle
<1> QED
  BY <1>2, <1>3 DEF Idle

LEMMA IdleWaits == Idle' => Waiting'
  BY DEF Idle, Waiting, SocketsWait, RecordsWait, OneWaits, Pending

\* The call is answered at once.
LEMMA CallAnswered ==
    ASSUME TypeOK, StackInv, NEW type, AppRequest(type), UNCHANGED call,
           NEW fd, NEW n, NEW err, Reply(fd, n, err), Idle'
    PROVE  Turns' /\ Waiting'
<1>1. /\ call # NONE /\ fromApp' = <<>> /\ toApp = <<>>
      /\ call' = call
  BY CallMade
<1>2. Len(toApp') = 1 /\ Len(fromApp') = 0
  BY <1>1 DEF Reply
<1>3. Turns'
  BY <1>1, <1>2 DEF Turns, StackInv
<1> QED
  BY <1>3, IdleWaits

LEMMA CallGoesOn ==
    ASSUME TypeOK, StackInv, NEW type, AppRequest(type), UNCHANGED <<call, toApp>>
    PROVE  Turns' /\ InProgress(call.fd, {type})'
<1>1. /\ call # NONE /\ fromApp' = <<>> /\ toApp' = <<>> /\ call' = call /\ call.type = type
  BY CallMade
<1>2. Len(fromApp') = 0 /\ Len(toApp') = 0
  BY <1>1
<1> QED
  BY <1>1, <1>2 DEF Turns, InProgress

\* The call waits in its socket, a write to TCP in a record too.
LEMMA CallKeptBack ==
    ASSUME TypeOK, StackInv, NEW type, AppRequest(type), UNCHANGED <<call, toApp, udpq>>,
           \A k \in Fd \ {call.fd} : socks'[k].status = socks[k].status,
           \/ type = "mACCEPT" /\ socks'[call.fd].status = "ACCEPT_PENDING"
           \/ type = "mCONNECT" /\ socks'[call.fd].status = "CONNECT_PENDING"
           \/ type = "mREAD" /\ socks'[call.fd].status = "READ_PENDING"
           \/ type = "mWRITE" /\ socks'[call.fd].status = "WRITE_PENDING",
           \/ tcpq' = tcpq
           \/ \E kind, c : /\ kind = "WRITE" => type = "mWRITE"
                           /\ tcpq' = Queued(tcpq, kind, call.fd, c)
    PROVE  Turns' /\ Waiting'
<1>1. Turns' /\ InProgress(call.fd, {type})' /\ Idle
  BY CallGoesOn, CallMade
<1>2. SocketsWait'
  BY <1>1 DEF SocketsWait, InProgress, Idle, Pending
<1>3. /\ \A i \in DOMAIN tcpq' : tcpq'[i].type = "WRITE" =>
            i = Len(tcpq) + 1 /\ tcpq'[i].sock = call.fd /\ type = "mWRITE"
  <2>1. tcpq \in Seq(RequestRecord)
    BY RecordSocket
  <2>2. ASSUME NEW kind, NEW c, kind = "WRITE" => type = "mWRITE",
               tcpq' = Queued(tcpq, kind, call.fd, c)
        PROVE  \A i \in DOMAIN tcpq' : tcpq'[i].type = "WRITE" =>
                  i = Len(tcpq) + 1 /\ tcpq'[i].sock = call.fd /\ type = "mWRITE"
    <3>1. /\ DOMAIN tcpq' = DOMAIN tcpq \cup {Len(tcpq) + 1}
          /\ \A i \in DOMAIN tcpq : tcpq'[i] = tcpq[i]
          /\ tcpq'[Len(tcpq) + 1].type = kind /\ tcpq'[Len(tcpq) + 1].sock = call.fd
      BY <2>1, <2>2 DEF Queued
    <3> QED
      BY <1>1, <2>2, <3>1 DEF Idle
  <2>3. CASE tcpq' = tcpq
    BY <1>1, <2>3 DEF Idle
  <2> QED
    BY <2>2, <2>3
<1>4. RecordsWait' /\ OneWaits'
  <2>1. \A i \in DOMAIN udpq' : udpq'[i].type = "CLOSE"
    BY <1>1 DEF Idle
  <2>2. \A i \in DOMAIN tcpq' : tcpq'[i].type = "WRITE" => Waits(tcpq[i], {"mWRITE"})'
    BY <1>1, <1>3 DEF Waits, InProgress
  <2> QED
    BY <1>3, <2>1, <2>2 DEF RecordsWait, OneWaits
<1> QED
  BY <1>1, <1>2, <1>4 DEF Waiting

\* The call waits in a record of UDP.
LEMMA CallPassedOn ==
    ASSUME TypeOK, StackInv, NEW type, AppRequest(type), UNCHANGED <<call, toApp, tcpq>>,
           \A k \in Fd \ {call.fd} : socks'[k].status = socks[k].status,
           NEW kind, NEW c, udpq' = Queued(udpq, kind, call.fd, c),
           \/ /\ kind = "FORWARD" /\ type \in {"mBIND", "mCONNECT"}
              /\ socks'[call.fd].status \in {"UNBOUND", "CONNECTED"}
           \/ /\ kind = "WRITE" /\ type = "mWRITE"
              /\ socks'[call.fd].status = "WRITE_PENDING"
    PROVE  Turns' /\ Waiting'
<1>1. Turns' /\ InProgress(call.fd, {type})' /\ Idle
  BY CallGoesOn, CallMade
<1>2. SocketsWait'
  BY <1>1 DEF SocketsWait, InProgress, Idle, Pending
<1> DEFINE n == Len(udpq) + 1
<1>3. /\ \A i \in DOMAIN udpq' : udpq'[i].type # "CLOSE" => i = n
      /\ udpq'[n].type = kind /\ udpq'[n].sock = call.fd
  <2>1. udpq \in Seq(RequestRecord)
    BY RecordSocket
  <2>2. /\ DOMAIN udpq' = DOMAIN udpq \cup {n}
        /\ \A i \in DOMAIN udpq : udpq'[i] = udpq[i]
        /\ udpq'[n].type = kind /\ udpq'[n].sock = call.fd
    BY <2>1 DEF Queued
  <2> QED
    BY <1>1, <2>2 DEF Idle
<1> HIDE DEF n
<1>4. \A i \in DOMAIN tcpq' : tcpq'[i].type # "WRITE"
  BY <1>1 DEF Idle
<1>5. \A i \in DOMAIN udpq' : i = n =>
         /\ kind = "FORWARD" => Waits(udpq[i], {"mBIND", "mCONNECT"})'
         /\ kind = "WRITE" => Waits(udpq[i], {"mWRITE"})'
  BY <1>1, <1>3 DEF Waits, InProgress
<1>6. RecordsWait' /\ OneWaits'
  BY <1>3, <1>4, <1>5 DEF RecordsWait, OneWaits
<1> QED
  BY <1>1, <1>2, <1>6 DEF Waiting
\* The call is answered after it waited.
LEMMA AnswerReturned ==
    ASSUME StackInv, NEW fd, NEW types, InProgress(fd, types), UNCHANGED <<call, fromApp>>,
           NEW k, NEW n, NEW err, Reply(k, n, err), Idle'
    PROVE  Turns' /\ Waiting'
<1>1. /\ call' # NONE /\ fromApp' = <<>> /\ toApp = <<>>
  BY DEF InProgress
<1>2. Len(toApp') = 1 /\ Len(fromApp') = 0
  BY <1>1 DEF Reply
<1>3. Turns'
  BY <1>1, <1>2 DEF Turns
<1> QED
  BY <1>3, IdleWaits

WaitsFor == [ACCEPT_PENDING |-> "mACCEPT", CONNECT_PENDING |-> "mCONNECT",
             READ_PENDING |-> "mREAD", WRITE_PENDING |-> "mWRITE"]

\* Where a socket or a record waits, nothing else does; a write to TCP waits in
\* both.
LEMMA SocketAlone ==
    ASSUME TypeOK, StackInv, NEW fd \in Fd,
           socks[fd].status \in {"ACCEPT_PENDING", "CONNECT_PENDING", "READ_PENDING"}
    PROVE  /\ InProgress(fd, {WaitsFor[socks[fd].status]})
           /\ \A k \in Fd \ {fd} : socks[k].status \notin Pending
           /\ \A i \in DOMAIN udpq : udpq[i].type = "CLOSE"
           /\ \A i \in DOMAIN tcpq : tcpq[i].type # "WRITE"
<1>1. InProgress(fd, {WaitsFor[socks[fd].status]})
  BY DEF StackInv, Waiting, SocketsWait, WaitsFor
<1>2. call.fd = fd /\ call.type = WaitsFor[socks[fd].status]
  BY <1>1 DEF InProgress
<1>3. \A k \in Fd \ {fd} : socks[k].status \notin Pending
  BY <1>2 DEF StackInv, Waiting, SocketsWait, InProgress, Pending
<1>4. call.type \in {"mACCEPT", "mCONNECT", "mREAD"}
      /\ (call.type = "mCONNECT" => socks[fd].status = "CONNECT_PENDING")
  BY <1>2 DEF WaitsFor
<1>5. \A i \in DOMAIN udpq : udpq[i].type = "CLOSE"
  BY <1>2, <1>4 DEF StackInv, Waiting, RecordsWait, Waits, InProgress
<1>6. \A i \in DOMAIN tcpq : tcpq[i].type # "WRITE"
  BY <1>2, <1>4 DEF StackInv, Waiting, RecordsWait, Waits, InProgress
<1> QED
  BY <1>1, <1>3, <1>5, <1>6

LEMMA UdpRecordAlone ==
    ASSUME TypeOK, StackInv, NEW i \in DOMAIN udpq, udpq[i].type # "CLOSE"
    PROVE  /\ udpq[i].type \in {"FORWARD", "WRITE"}
           /\ udpq[i].type = "FORWARD" => InProgress(udpq[i].sock, {"mBIND", "mCONNECT"})
           /\ udpq[i].type = "WRITE" => InProgress(udpq[i].sock, {"mWRITE"})
           /\ socks[udpq[i].sock].status # "FREE"
           /\ \A k \in Fd \ {udpq[i].sock} : socks[k].status \notin Pending
           /\ \A j \in DOMAIN udpq : j # i => udpq[j].type = "CLOSE"
           /\ \A j \in DOMAIN tcpq : tcpq[j].type # "WRITE"
<1>1. \/ udpq[i].type = "FORWARD" /\ Waits(udpq[i], {"mBIND", "mCONNECT"})
      \/ udpq[i].type = "WRITE" /\ Waits(udpq[i], {"mWRITE"})
  BY DEF StackInv, Waiting, RecordsWait
<1>2. call.fd = udpq[i].sock
  BY <1>1 DEF Waits, InProgress
<1>3. \A k \in Fd \ {udpq[i].sock} : socks[k].status \notin Pending
  BY <1>2 DEF StackInv, Waiting, SocketsWait, InProgress, Pending
<1>4. /\ \A j \in DOMAIN udpq : j # i => udpq[j].type = "CLOSE"
      /\ \A j \in DOMAIN tcpq : tcpq[j].type # "WRITE"
  BY DEF StackInv, Waiting, OneWaits
<1> QED
  BY <1>1, <1>3, <1>4 DEF Waits

LEMMA TcpRecordAlone ==
    ASSUME TypeOK, StackInv, NEW i \in DOMAIN tcpq, tcpq[i].type = "WRITE"
    PROVE  /\ InProgress(tcpq[i].sock, {"mWRITE"})
           /\ socks[tcpq[i].sock].status # "FREE"
           /\ \A k \in Fd \ {tcpq[i].sock} : socks[k].status \notin Pending
           /\ \A j \in DOMAIN tcpq : j # i => tcpq[j].type # "WRITE"
           /\ \A j \in DOMAIN udpq : udpq[j].type = "CLOSE"
<1>1. Waits(tcpq[i], {"mWRITE"})
  BY DEF StackInv, Waiting, RecordsWait
<1>2. call.fd = tcpq[i].sock
  BY <1>1 DEF Waits, InProgress
<1>3. \A k \in Fd \ {tcpq[i].sock} : socks[k].status \notin Pending
  BY <1>2 DEF StackInv, Waiting, SocketsWait, InProgress, Pending
<1>4. /\ \A j \in DOMAIN tcpq : j # i => tcpq[j].type # "WRITE"
      /\ \A j \in DOMAIN udpq : udpq[j].type = "CLOSE"
  BY DEF StackInv, Waiting, OneWaits
<1> QED
  BY <1>1, <1>3, <1>4 DEF Waits

-----------------------------------------------------------------------------
(***************************************************************************)
(* Sockets and ports.                                                      *)
(***************************************************************************)

\* Only TCP sockets listen, accept, or wait to be connected.
LEMMA SocketKept ==
    ASSUME TypeOK, Sockets, PortsApart, UNCHANGED <<app, ports>>,
           NEW fd \in Fd, NEW st \in Statuses,
           socks[fd].status # "FREE", SetStatus(fd, st),
           st \in {"LISTENING", "ACCEPT_PENDING", "CONNECT_PENDING"} =>
               socks[fd].conn.protocol = "tcp"
    PROVE  /\ Sockets' /\ PortsApart'
           /\ socks'[fd].status = st
           /\ \A k \in Fd \ {fd} : socks'[k].status = socks[k].status
<1>1. /\ \A k \in Fd : socks'[k].conn = socks[k].conn
      /\ socks'[fd].status = st
      /\ \A k \in Fd \ {fd} : socks'[k].status = socks[k].status
  BY DEF TypeOK, SocksOK, SetStatus
<1>2. st # "FREE"
  BY DEF Statuses, Pending
<1> QED
  BY <1>1, <1>2 DEF Sockets, PortsApart

LEMMA SocketClosed ==
    ASSUME TypeOK, Sockets, PortsApart, UNCHANGED <<app, ports>>,
           NEW fd \in Fd, CloseSocket(fd)
    PROVE  /\ Sockets' /\ PortsApart'
           /\ socks'[fd].status = "FREE"
           /\ \A k \in Fd \ {fd} : socks'[k].status = socks[k].status
<1>1. /\ socks'[fd] = Free
      /\ \A k \in Fd \ {fd} : socks'[k] = socks[k]
  BY DEF TypeOK, SocksOK, CloseSocket
<1>2. Free.conn.src = ANY /\ Free.conn.protocol \notin {"tcp", "udp"} /\ Free.status = "FREE"
      /\ Free.conn = Unbound
  BY StackAssumption DEF Free, Unbound
<1> QED
  BY <1>1, <1>2 DEF Sockets, PortsApart

LEMMA SocketNamed ==
    ASSUME TypeOK, Sockets, PortsApart, UNCHANGED app,
           NEW fd \in Fd, NEW c \in Connection, NEW st \in Statuses, SetConn(fd, c, st),
           c.protocol \in {"tcp", "udp"},
           c.protocol = "tcp" => "close" \notin app,
           st \in {"LISTENING", "ACCEPT_PENDING", "CONNECT_PENDING"} => c.protocol = "tcp",
           \/ c.src = ANY /\ UNCHANGED ports
           \/ c.src = socks[fd].conn.src /\ c.protocol = socks[fd].conn.protocol /\ UNCHANGED ports
           \/ c.src \in Port /\ ports[c.src] = 0 /\ ports' = [ports EXCEPT ![c.src] = fd]
    PROVE  /\ Sockets' /\ PortsApart'
           /\ socks'[fd].status = st
           /\ \A k \in Fd \ {fd} : socks'[k].status = socks[k].status
<1>1. /\ socks'[fd].conn = c /\ socks'[fd].status = st
      /\ \A k \in Fd \ {fd} : socks'[k] = socks[k]
  BY DEF TypeOK, SocksOK, SetConn
<1>2. st # "FREE"
  BY DEF Statuses, Pending
<1>3. Sockets'
  BY <1>1, <1>2 DEF Sockets
<1>4. PortsApart'
  <2>1. CASE c.src = ANY /\ UNCHANGED ports
    BY <1>1, <2>1 DEF PortsApart
  <2>2. CASE c.src = socks[fd].conn.src /\ c.protocol = socks[fd].conn.protocol /\ UNCHANGED ports
    BY <1>1, <2>2 DEF PortsApart
  <2>3. CASE c.src \in Port /\ ports[c.src] = 0 /\ ports' = [ports EXCEPT ![c.src] = fd]
    <3>1. ports'[c.src] = fd /\ fd # 0 /\ \A p \in Port \ {c.src} : ports'[p] = ports[p]
      BY <2>3, NotAPort DEF TypeOK, PortsOK
    <3>2. \A k \in Fd : socks[k].conn.src # ANY =>
              socks[k].conn.src \in Port /\ socks[k].conn.src # c.src
      BY <2>3 DEF PortsApart, TypeOK, SocksOK, Connection
    <3> QED
      BY <1>1, <3>1, <3>2 DEF PortsApart
  <2> QED
    BY <2>1, <2>2, <2>3
<1> QED
  BY <1>1, <1>3, <1>4

\* A connection that came from accept shares the port of its listener.
LEMMA SocketShared ==
    ASSUME TypeOK, Sockets, PortsApart, UNCHANGED <<app, ports>>,
           NEW fd \in Fd, NEW new \in Fd \ {fd}, NEW c \in Connection,
           socks[fd].status = "ACCEPT_PENDING",
           c.src = socks[fd].conn.src, c.protocol = socks[fd].conn.protocol,
           socks' = [socks EXCEPT ![fd].status = "LISTENING", ![new].conn = c,
                                  ![new].status = "CONNECTED"]
    PROVE  /\ Sockets' /\ PortsApart'
           /\ socks'[fd].status = "LISTENING" /\ socks'[new].status = "CONNECTED"
           /\ \A k \in Fd \ {fd, new} : socks'[k].status = socks[k].status
<1>1. /\ socks'[fd].conn = socks[fd].conn /\ socks'[fd].status = "LISTENING"
      /\ socks'[new].conn = c /\ socks'[new].status = "CONNECTED"
      /\ \A k \in Fd \ {fd, new} : socks'[k] = socks[k]
  BY DEF TypeOK, SocksOK
<1>2. socks[fd].conn.protocol = "tcp" /\ "close" \notin app
  BY DEF Sockets
<1>3. Sockets'
  BY <1>1, <1>2 DEF Sockets
<1>4. PortsApart'
  <2> DEFINE of(k) == IF k = new THEN fd ELSE k
  <2>1. \A k \in Fd : /\ of(k) \in Fd
                      /\ socks'[k].conn.src = socks[of(k)].conn.src
                      /\ socks'[k].conn.protocol = socks[of(k)].conn.protocol
    BY <1>1
  <2>2. \A k, l \in Fd : k # l /\ of(k) = of(l) => of(k) = fd
    OBVIOUS
  <2> HIDE DEF of
  <2>3. ASSUME NEW k \in Fd, socks'[k].conn.src # ANY
        PROVE  /\ ports'[socks'[k].conn.src] # 0
               /\ \A l \in Fd \ {k} : socks'[l].conn.src = socks'[k].conn.src =>
                     socks'[k].conn.protocol = "tcp" /\ socks'[l].conn.protocol = "tcp"
    <3>1. ports'[socks'[k].conn.src] # 0
      BY <2>1, <2>3 DEF PortsApart
    <3>2. ASSUME NEW l \in Fd \ {k}, socks'[l].conn.src = socks'[k].conn.src
          PROVE  socks'[k].conn.protocol = "tcp" /\ socks'[l].conn.protocol = "tcp"
      <4>1. CASE of(k) = of(l)
        BY <1>2, <2>1, <2>2, <4>1
      <4>2. CASE of(k) # of(l)
        <5>1. /\ of(k) \in Fd /\ of(l) \in Fd \ {of(k)}
              /\ socks[of(k)].conn.src # ANY
              /\ socks[of(l)].conn.src = socks[of(k)].conn.src
          BY <2>1, <2>3, <3>2, <4>2
        <5>2. socks[of(k)].conn.protocol = "tcp" /\ socks[of(l)].conn.protocol = "tcp"
          BY <5>1 DEF PortsApart
        <5> QED
          BY <2>1, <5>2
      <4> QED
        BY <4>1, <4>2
    <3> QED
      BY <3>1, <3>2
  <2> QED
    BY <2>3 DEF PortsApart
<1> QED
  BY <1>1, <1>3, <1>4

\* No step of sock sends TCP a WRITE after a CLOSE.
LEMMA EndsKept ==
    ASSUME TypeOK, TcpEnds, UNCHANGED <<app, tcps>>,
           fromTcp' = fromTcp \/ (fromTcp # <<>> /\ fromTcp' = Tail(fromTcp)),
           fromApp' = fromApp \/ fromApp' = <<>>,
           \/ toTcp' = toTcp
           \/ \E m : /\ toTcp' = Append(toTcp, m)
                     /\ m.type = "WRITE" => fromApp # <<>>
                     /\ m.type = "CLOSE" => app = {} /\ fromApp' = <<>>
    PROVE  TcpEnds'
<1>1. toTcp \in Seq(Srrs) /\ fromTcp \in Seq(Srrs)
  BY DEF TypeOK, PipesOK
<1>2. \A i \in DOMAIN fromTcp' : fromTcp'[i].type = "STATUS" => fromTcp'[i].error = "EOK"
  <2>1. CASE fromTcp # <<>> /\ fromTcp' = Tail(fromTcp)
    <3>1. \A i \in DOMAIN fromTcp' : i + 1 \in DOMAIN fromTcp /\ fromTcp'[i] = fromTcp[i + 1]
      BY <1>1, <2>1
    <3> QED
      BY <3>1 DEF TcpEnds
  <2> QED
    BY <2>1 DEF TcpEnds
<1>3. CASE toTcp' = toTcp
  BY <1>2, <1>3 DEF TcpEnds
<1>4. ASSUME NEW m, toTcp' = Append(toTcp, m),
             m.type = "WRITE" => fromApp # <<>>,
             m.type = "CLOSE" => app = {} /\ fromApp' = <<>>
      PROVE  TcpEnds'
  <2>1. /\ DOMAIN toTcp = 1..Len(toTcp) /\ Len(toTcp) \in Nat
        /\ DOMAIN toTcp' = 1..(Len(toTcp) + 1)
        /\ \A i \in DOMAIN toTcp : toTcp'[i] = toTcp[i]
        /\ toTcp'[Len(toTcp) + 1] = m
    BY <1>1, <1>4
  <2>2. ASSUME NEW i \in DOMAIN toTcp', toTcp'[i].type = "CLOSE"
        PROVE  /\ app = {} /\ fromApp' = <<>>
               /\ \A j \in DOMAIN toTcp' : j > i => toTcp'[j].type # "WRITE"
    <3>1. CASE i = Len(toTcp) + 1
      <4>1. m.type = "CLOSE"
        BY <2>1, <2>2, <3>1
      <4>2. \A j \in DOMAIN toTcp' : ~ (j > i)
        BY <2>1, <3>1
      <4> QED
        BY <1>4, <4>1, <4>2
    <3>2. CASE i \in DOMAIN toTcp
      <4>1. app = {} /\ fromApp = <<>> /\ \A j \in DOMAIN toTcp : j > i => toTcp[j].type # "WRITE"
        BY <2>1, <2>2, <3>2 DEF TcpEnds
      <4>2. m.type # "WRITE" /\ fromApp' = <<>>
        BY <1>4, <4>1
      <4>3. \A j \in DOMAIN toTcp' : j \in DOMAIN toTcp \/ toTcp'[j] = m
        BY <2>1
      <4> QED
        BY <2>1, <4>1, <4>2, <4>3
    <3> QED
      BY <2>1, <3>1, <3>2
  <2>3. ASSUME NEW i \in DOMAIN tcps, tcps[i].st = "CLOSED_BY_US"
        PROVE  app = {} /\ fromApp' = <<>> /\ \A j \in DOMAIN toTcp' : toTcp'[j].type # "WRITE"
    <3>1. app = {} /\ fromApp = <<>> /\ \A j \in DOMAIN toTcp : toTcp[j].type # "WRITE"
      BY <2>3 DEF TcpEnds
    <3>2. m.type # "WRITE" /\ fromApp' = <<>>
      BY <1>4, <3>1
    <3>3. \A j \in DOMAIN toTcp' : j \in DOMAIN toTcp \/ toTcp'[j] = m
      BY <2>1
    <3> QED
      BY <2>1, <3>1, <3>2, <3>3
  <2> QED
    BY <1>2, <2>2, <2>3 DEF TcpEnds
<1> QED
  BY <1>3, <1>4
-----------------------------------------------------------------------------
(***************************************************************************)
(* ProcessAppRequest.                                                      *)
(***************************************************************************)

LEMMA RequestReady ==
    ASSUME TypeOK, StackInv, NEW type \in DOMAIN ReadyStatus, AppRequest(type),
           Ready(Head(fromApp))
    PROVE  /\ Head(fromApp) = call /\ call.fd \in Fd
           /\ socks[call.fd].status # "FREE"
           /\ socks[call.fd].conn \in Connection
           /\ socks[call.fd].conn.protocol \in {"tcp", "udp"}
           /\ type = "mBIND" => socks[call.fd].status = "UNBOUND"
           /\ type = "mLISTEN" => socks[call.fd].status = "BOUND"
           /\ type = "mCONNECT" => socks[call.fd].status \in {"UNBOUND", "BOUND"}
           /\ type = "mACCEPT" => socks[call.fd].status = "LISTENING"
<1>1. Head(fromApp) = call /\ call.fd \in Fd /\ call.type = type
  BY CallMade DEF ReadyStatus
<1>2. \/ socks[call.fd].status \in ReadyStatus[type]
      \/ type = "mREAD" /\ socks[call.fd].status = "BOUND"
  BY <1>1 DEF Ready
<1>3. /\ socks[call.fd].status # "FREE"
      /\ type = "mBIND" => socks[call.fd].status = "UNBOUND"
      /\ type = "mLISTEN" => socks[call.fd].status = "BOUND"
      /\ type = "mCONNECT" => socks[call.fd].status \in {"UNBOUND", "BOUND"}
      /\ type = "mACCEPT" => socks[call.fd].status = "LISTENING"
  BY <1>2 DEF ReadyStatus, Pending
<1> QED
  BY <1>1, <1>3 DEF StackInv, Sockets, TypeOK, SocksOK

\* A request leaves the invariant to its turn, the sockets and what goes to TCP.
LEMMA RequestKeeps ==
    ASSUME TypeOK, StackInv, UNCHANGED <<appVars, tcps>>, NEW type, AppRequest(type),
           Turns', Waiting', Sockets', PortsApart',
           \/ toTcp' = toTcp
           \/ \E kind, fd, c, n : /\ SendTCPRequest(kind, fd, c, n)
                                  /\ kind = "CLOSE" => app = {}
    PROVE  StackInv'
<1>1. fromApp # <<>> /\ fromApp' = <<>> /\ fromTcp' = fromTcp
  BY CallMade
<1>2. ASSUME NEW kind, NEW fd, NEW c, NEW n, SendTCPRequest(kind, fd, c, n),
             kind = "CLOSE" => app = {}
      PROVE  \E m : toTcp' = Append(toTcp, m) /\ (m.type = "CLOSE" => app = {})
  <2>1. Srr(kind, c, n, "EOK").type = kind
    BY DEF Srr
  <2> QED
    BY <1>2, <2>1 DEF SendTCPRequest
<1>3. TcpEnds'
  <2>1. \/ toTcp' = toTcp
        \/ \E m : toTcp' = Append(toTcp, m) /\ (m.type = "CLOSE" => app = {})
    BY <1>2
  <2> QED
    BY <1>1, <2>1, EndsKept DEF StackInv, appVars
<1>4. AppCalls'
  BY DEF StackInv, AppCalls, appVars
<1> QED
  BY <1>3, <1>4 DEF StackInv

LEMMA OpenKeeps ==
    ASSUME TypeOK, StackInv, UNCHANGED <<appVars, tcps>>, AppSocket
    PROVE  StackInv'
<1>1. AppRequest("mSOCKET") /\ UNCHANGED ports /\ NothingSent
  BY DEF AppSocket
<1>2. /\ Head(fromApp) = call /\ call # NONE /\ call.type = "mSOCKET"
      /\ Idle /\ call' = call /\ app' = app
  BY <1>1, CallMade DEF appVars
<1>3. udpq' = udpq /\ tcpq' = tcpq /\ toTcp' = toTcp
  BY <1>1 DEF NothingSent
<1>4. CASE UNCHANGED socks /\ Reply(call.fd, 0, "ERESOURCE_UNAVAIL")
  <2>1. Idle'
    BY <1>2, <1>3, <1>4, IdleKept
  <2>2. Turns' /\ Waiting'
    BY <1>1, <1>2, <1>4, <2>1, CallAnswered
  <2>3. Sockets' /\ PortsApart'
    BY <1>1, <1>2, <1>4 DEF StackInv, Sockets, PortsApart
  <2> QED
    BY <1>1, <1>3, <2>2, <2>3, RequestKeeps
<1>5. ASSUME NEW fd \in Fd, IsFreeSock(fd), Reply(fd, 0, "EOK"),
             SetConn(fd, [socks[fd].conn EXCEPT !.protocol = call.conn.protocol], "UNBOUND")
      PROVE  StackInv'
  <2> DEFINE c == [socks[fd].conn EXCEPT !.protocol = call.conn.protocol]
  <2>1. socks[fd].conn = Unbound
    BY <1>5 DEF IsFreeSock, StackInv, Sockets
  <2>2. call.conn.protocol \in {"tcp", "udp"} /\ (call.conn.protocol = "tcp" => "close" \notin app)
    BY <1>2 DEF StackInv, AppCalls
  <2>3. c.protocol = call.conn.protocol /\ c.src = ANY /\ c \in Connection
    BY <2>1, <2>2 DEF Unbound, Connection
  <2> HIDE DEF c
  <2>4. /\ Sockets' /\ PortsApart'
        /\ socks'[fd].status = "UNBOUND"
        /\ \A k \in Fd \ {fd} : socks'[k].status = socks[k].status
    BY <1>1, <1>2, <1>5, <2>2, <2>3, SocketNamed DEF StackInv, Statuses, c
  <2>5. Idle'
    <3>1. \A k \in Fd : socks'[k].status \notin Pending \/ socks'[k].status = socks[k].status
      BY <2>4 DEF Pending
    <3> QED
      BY <1>2, <1>3, <3>1, IdleKept
  <2>6. Turns' /\ Waiting'
    BY <1>1, <1>2, <1>5, <2>5, CallAnswered
  <2> QED
    BY <1>1, <1>3, <2>4, <2>6, RequestKeeps
<1> QED
  BY <1>2, <1>4, <1>5 DEF AppSocket

\* An answer in place that changes no socket.
LEMMA DenialKeeps ==
    ASSUME TypeOK, StackInv, UNCHANGED <<appVars, tcps>>, NEW type, AppRequest(type),
           UNCHANGED <<socks, ports>>, NothingSent,
           NEW fd, NEW n, NEW err, Reply(fd, n, err)
    PROVE  StackInv'
<1>1. Idle /\ call' = call /\ app' = app
  BY CallMade DEF appVars
<1>2. udpq' = udpq /\ tcpq' = tcpq /\ toTcp' = toTcp
  BY DEF NothingSent
<1>3. Idle'
  BY <1>1, <1>2, IdleKept
<1>4. Turns' /\ Waiting'
  BY <1>1, <1>3, CallAnswered
<1>5. Sockets' /\ PortsApart'
  BY <1>1 DEF StackInv, Sockets, PortsApart
<1> QED
  BY <1>2, <1>4, <1>5, RequestKeeps

\* An answer in place that gives a socket another status, which does not wait.
LEMMA AnswerKeeps ==
    ASSUME TypeOK, StackInv, UNCHANGED <<appVars, tcps>>, NEW type, AppRequest(type),
           NothingSent, NEW n, NEW err, Reply(call.fd, n, err),
           NEW st \in {"BOUND", "LISTENING"},
           Sockets', PortsApart', socks'[call.fd].status = st,
           \A k \in Fd \ {call.fd} : socks'[k].status = socks[k].status
    PROVE  StackInv'
<1>1. Idle /\ call' = call
  BY CallMade DEF appVars
<1>2. udpq' = udpq /\ tcpq' = tcpq /\ toTcp' = toTcp
  BY DEF NothingSent
<1>3. Idle'
  <2>1. \A k \in Fd : socks'[k].status \notin Pending \/ socks'[k].status = socks[k].status
    BY DEF Pending
  <2> QED
    BY <1>1, <1>2, <2>1, IdleKept
<1>4. Turns' /\ Waiting'
  BY <1>1, <1>3, CallAnswered
<1> QED
  BY <1>2, <1>4, RequestKeeps

LEMMA ListenKeeps ==
    ASSUME TypeOK, StackInv, UNCHANGED <<appVars, tcps>>, AppListen
    PROVE  StackInv'
<1>1. /\ AppRequest("mLISTEN") /\ Ready(Head(fromApp)) /\ NothingSent
      /\ UNCHANGED ports /\ "mLISTEN" \in DOMAIN ReadyStatus
  BY DEF AppListen, ReadyStatus
<1>2. /\ Head(fromApp) = call /\ call.fd \in Fd
      /\ socks[call.fd].conn \in Connection
      /\ socks[call.fd].conn.protocol \in {"tcp", "udp"}
      /\ socks[call.fd].status = "BOUND"
  BY <1>1, RequestReady
<1>3. CASE UNCHANGED socks /\ Reply(0, 0, "ENOT_SUPPORTED")
  BY <1>1, <1>3, DenialKeeps
<1>4. CASE /\ socks[call.fd].conn.protocol # "udp"
           /\ SetConn(call.fd, [socks[call.fd].conn EXCEPT !.dest = ANY], "LISTENING")
           /\ Reply(call.fd, 0, "EOK")
  <2> DEFINE c == [socks[call.fd].conn EXCEPT !.dest = ANY]
  <2>1. c \in Connection /\ c.src = socks[call.fd].conn.src /\ c.protocol = socks[call.fd].conn.protocol
    BY <1>2 DEF Connection
  <2>2. c.protocol = "tcp" /\ "close" \notin app /\ app' = app
    BY <1>2, <1>4, <2>1 DEF StackInv, Sockets, appVars
  <2> HIDE DEF c
  <2>3. /\ Sockets' /\ PortsApart'
        /\ socks'[call.fd].status = "LISTENING"
        /\ \A k \in Fd \ {call.fd} : socks'[k].status = socks[k].status
    BY <1>1, <1>2, <1>4, <2>1, <2>2, SocketNamed DEF StackInv, Statuses, c
  <2> QED
    BY <1>1, <1>4, <2>3, AnswerKeeps
<1> QED
  BY <1>2, <1>3, <1>4 DEF AppListen

LEMMA BindKeeps ==
    ASSUME TypeOK, StackInv, UNCHANGED <<appVars, tcps>>, AppBind
    PROVE  StackInv'
<1>1. /\ AppRequest("mBIND") /\ Ready(Head(fromApp)) /\ "mBIND" \in DOMAIN ReadyStatus
  BY DEF AppBind, ReadyStatus
<1>2. /\ Head(fromApp) = call /\ call.fd \in Fd /\ app' = app
      /\ socks[call.fd].conn \in Connection
      /\ socks[call.fd].conn.protocol \in {"tcp", "udp"}
  BY <1>1, RequestReady DEF appVars
<1>3. PICK p \in Port :
        /\ ports[p] = 0
        /\ ports' = [ports EXCEPT ![p] = call.fd]
        /\ LET c == [socks[call.fd].conn EXCEPT !.src = p]
           IN  \/ /\ c.protocol = "udp"
                  /\ SetConn(call.fd, c, "UNBOUND")
                  /\ SendUDPRequest("FORWARD", call.fd, c, 0)
                  /\ UNCHANGED toApp
               \/ /\ c.protocol # "udp"
                  /\ SetConn(call.fd, c, "BOUND")
                  /\ Reply(call.fd, 0, "EOK")
                  /\ NothingSent
  BY <1>2 DEF AppBind, Resolved
<1> DEFINE c == [socks[call.fd].conn EXCEPT !.src = p]
<1>4. c \in Connection /\ c.src = p /\ c.protocol = socks[call.fd].conn.protocol
  BY <1>2 DEF Connection
<1>5. c.protocol \in {"tcp", "udp"} /\ (c.protocol = "tcp" => "close" \notin app)
  BY <1>2, <1>4 DEF StackInv, Sockets
<1>6. \A st \in {"UNBOUND", "BOUND"} : SetConn(call.fd, c, st) =>
        /\ Sockets' /\ PortsApart'
        /\ socks'[call.fd].status = st
        /\ \A k \in Fd \ {call.fd} : socks'[k].status = socks[k].status
  <2> HIDE DEF c
  <2> QED
    BY <1>2, <1>3, <1>4, <1>5, SocketNamed DEF StackInv, Statuses
<1> HIDE DEF c
<1>7. CASE /\ SetConn(call.fd, c, "UNBOUND") /\ UNCHANGED toApp
           /\ SendUDPRequest("FORWARD", call.fd, c, 0)
  <2>1. /\ udpq' = Queued(udpq, "FORWARD", call.fd, c)
        /\ UNCHANGED <<call, toApp, tcpq>> /\ toTcp' = toTcp
    BY <1>7 DEF SendUDPRequest, appVars
  <2>2. Turns' /\ Waiting'
    BY <1>1, <1>6, <1>7, <2>1, CallPassedOn
  <2> QED
    BY <1>1, <1>6, <1>7, <2>1, <2>2, RequestKeeps
<1>8. CASE SetConn(call.fd, c, "BOUND") /\ Reply(call.fd, 0, "EOK") /\ NothingSent
  BY <1>1, <1>6, <1>8, AnswerKeeps
<1> QED
  BY <1>3, <1>7, <1>8 DEF c
LEMMA ConnectKeeps ==
    ASSUME TypeOK, StackInv, UNCHANGED <<appVars, tcps>>, AppConnect
    PROVE  StackInv'
<1>1. /\ AppRequest("mCONNECT") /\ Ready(Head(fromApp)) /\ "mCONNECT" \in DOMAIN ReadyStatus
      /\ UNCHANGED toApp
  BY DEF AppConnect, ReadyStatus
<1>2. /\ Head(fromApp) = call /\ call.fd \in Fd /\ app' = app /\ call' = call
      /\ call.conn \in Connection
      /\ socks[call.fd].conn \in Connection
      /\ socks[call.fd].conn.protocol \in {"tcp", "udp"}
  <2>1. Head(fromApp).conn \in Connection
    BY <1>1, RequestTaken DEF TypeOK
  <2> QED
    BY <1>1, <2>1, RequestReady DEF appVars
<1>3. PICK p \in Port :
        /\ \/ ports[p] = 0 /\ ports' = [ports EXCEPT ![p] = call.fd]
           \/ p = socks[call.fd].conn.src /\ UNCHANGED ports
        /\ LET c == [socks[call.fd].conn EXCEPT !.src = p, !.dest = call.conn.dest]
           IN  \/ /\ c.protocol = "udp"
                  /\ SetConn(call.fd, c, "CONNECTED")
                  /\ SendUDPRequest("FORWARD", call.fd, c, 0)
               \/ /\ c.protocol # "udp"
                  /\ SetConn(call.fd, c, "CONNECT_PENDING")
                  /\ SendTCPRequest("CONNECT", call.fd, c, 0)
  BY <1>2 DEF AppConnect, Resolved
<1> DEFINE c == [socks[call.fd].conn EXCEPT !.src = p, !.dest = call.conn.dest]
<1>4. c \in Connection /\ c.src = p /\ c.protocol = socks[call.fd].conn.protocol
  BY <1>2 DEF Connection
<1>5. c.protocol \in {"tcp", "udp"} /\ (c.protocol = "tcp" => "close" \notin app)
  BY <1>2, <1>4 DEF StackInv, Sockets
<1>6. ASSUME NEW st \in {"CONNECTED", "CONNECT_PENDING"}, SetConn(call.fd, c, st),
             st = "CONNECT_PENDING" => c.protocol = "tcp"
      PROVE  /\ Sockets' /\ PortsApart'
             /\ socks'[call.fd].status = st
             /\ \A k \in Fd \ {call.fd} : socks'[k].status = socks[k].status
  <2> HIDE DEF c
  <2>1. /\ st \in Statuses /\ Sockets /\ PortsApart
        /\ st \in {"LISTENING", "ACCEPT_PENDING", "CONNECT_PENDING"} => c.protocol = "tcp"
    BY <1>6 DEF StackInv, Statuses, Pending
  <2>2. \/ c.src = socks[call.fd].conn.src /\ c.protocol = socks[call.fd].conn.protocol
           /\ UNCHANGED ports
        \/ c.src \in Port /\ ports[c.src] = 0 /\ ports' = [ports EXCEPT ![c.src] = call.fd]
    BY <1>3, <1>4
  <2> QED
    BY <1>2, <1>4, <1>5, <1>6, <2>1, <2>2, SocketNamed
<1> HIDE DEF c
<1>7. CASE c.protocol = "udp" /\ SetConn(call.fd, c, "CONNECTED")
           /\ SendUDPRequest("FORWARD", call.fd, c, 0)
  <2>1. /\ udpq' = Queued(udpq, "FORWARD", call.fd, c)
        /\ tcpq' = tcpq /\ toTcp' = toTcp
    BY <1>7 DEF SendUDPRequest
  <2>2. Turns' /\ Waiting'
    BY <1>1, <1>2, <1>6, <1>7, <2>1, CallPassedOn
  <2> QED
    BY <1>1, <1>6, <1>7, <2>1, <2>2, RequestKeeps
<1>8. CASE c.protocol # "udp" /\ SetConn(call.fd, c, "CONNECT_PENDING")
           /\ SendTCPRequest("CONNECT", call.fd, c, 0)
  <2>1. /\ tcpq' = Queued(tcpq, "CONNECT", call.fd, c)
        /\ udpq' = udpq
    BY <1>8 DEF SendTCPRequest
  <2>2. c.protocol = "tcp"
    BY <1>5, <1>8
  <2>3. /\ Sockets' /\ PortsApart'
        /\ socks'[call.fd].status = "CONNECT_PENDING"
        /\ \A k \in Fd \ {call.fd} : socks'[k].status = socks[k].status
    BY <1>6, <1>8, <2>2
  <2>4. Turns' /\ Waiting'
    BY <1>1, <1>2, <2>1, <2>3, CallKeptBack
  <2> QED
    BY <1>1, <1>8, <2>3, <2>4, RequestKeeps
<1> QED
  BY <1>3, <1>7, <1>8 DEF c

\* A request for which the socket waits, and TCP too.
LEMMA WaitKeeps ==
    ASSUME TypeOK, StackInv, UNCHANGED <<appVars, tcps>>, NEW type, AppRequest(type),
           UNCHANGED <<ports, toApp>>, call.fd \in Fd, socks[call.fd].status # "FREE",
           \/ type = "mACCEPT" /\ SetStatus(call.fd, "ACCEPT_PENDING")
              /\ socks[call.fd].conn.protocol = "tcp"
           \/ type = "mREAD" /\ SetStatus(call.fd, "READ_PENDING")
           \/ type = "mWRITE" /\ SetStatus(call.fd, "WRITE_PENDING"),
           \/ NothingSent
           \/ \E kind, c, n : /\ SendTCPRequest(kind, call.fd, c, n)
                              /\ kind # "CLOSE" /\ (kind = "WRITE" => type = "mWRITE")
    PROVE  StackInv'
<1>1. call' = call /\ app' = app
  BY DEF appVars
<1>2. /\ Sockets' /\ PortsApart'
      /\ \/ type = "mACCEPT" /\ socks'[call.fd].status = "ACCEPT_PENDING"
         \/ type = "mREAD" /\ socks'[call.fd].status = "READ_PENDING"
         \/ type = "mWRITE" /\ socks'[call.fd].status = "WRITE_PENDING"
      /\ \A k \in Fd \ {call.fd} : socks'[k].status = socks[k].status
  <2>1. {"ACCEPT_PENDING", "READ_PENDING", "WRITE_PENDING"} \subseteq Statuses
    BY DEF Statuses, Pending
  <2> QED
    BY <1>1, <2>1, SocketKept DEF StackInv
<1>3. /\ udpq' = udpq
      /\ \/ tcpq' = tcpq
         \/ \E kind, c : (kind = "WRITE" => type = "mWRITE") /\ tcpq' = Queued(tcpq, kind, call.fd, c)
  BY DEF NothingSent, SendTCPRequest
<1>4. Turns' /\ Waiting'
  BY <1>1, <1>2, <1>3, CallKeptBack
<1>5. \/ toTcp' = toTcp
      \/ \E kind, fd, c, n : SendTCPRequest(kind, fd, c, n) /\ (kind = "CLOSE" => app = {})
  BY DEF NothingSent
<1> QED
  BY <1>2, <1>4, <1>5, RequestKeeps

LEMMA AcceptKeeps ==
    ASSUME TypeOK, StackInv, UNCHANGED <<appVars, tcps>>, AppAccept
    PROVE  StackInv'
<1>1. /\ AppRequest("mACCEPT") /\ Ready(Head(fromApp)) /\ "mACCEPT" \in DOMAIN ReadyStatus
      /\ UNCHANGED <<ports, toApp>>
  BY DEF AppAccept, ReadyStatus
<1>2. /\ Head(fromApp) = call /\ call.fd \in Fd
      /\ socks[call.fd].status = "LISTENING"
  BY <1>1, RequestReady
<1>3. socks[call.fd].conn.protocol = "tcp"
  BY <1>2 DEF StackInv, Sockets
<1>4. /\ SendTCPRequest("ACCEPT", call.fd, socks[call.fd].conn, 0)
      /\ SetStatus(call.fd, "ACCEPT_PENDING")
  BY <1>2 DEF AppAccept
<1> QED
  BY <1>1, <1>2, <1>3, <1>4, WaitKeeps

LEMMA ReadKeeps ==
    ASSUME TypeOK, StackInv, UNCHANGED <<appVars, tcps>>, AppRead
    PROVE  StackInv'
<1>1. /\ AppRequest("mREAD") /\ Ready(Head(fromApp)) /\ "mREAD" \in DOMAIN ReadyStatus
      /\ UNCHANGED ports /\ NothingSent
  BY DEF AppRead, ReadyStatus
<1>2. /\ Head(fromApp) = call /\ call.fd \in Fd /\ socks[call.fd].status # "FREE"
  BY <1>1, RequestReady
<1>3. CASE UNCHANGED socks /\ \E fd, n, err : Reply(fd, n, err)
  BY <1>1, <1>3, DenialKeeps
<1>4. CASE SetStatus(call.fd, "READ_PENDING") /\ UNCHANGED toApp
  BY <1>1, <1>2, <1>4, WaitKeeps
<1> QED
  BY <1>2, <1>3, <1>4 DEF AppRead

LEMMA WriteKeeps ==
    ASSUME TypeOK, StackInv, UNCHANGED <<appVars, tcps>>, AppWrite
    PROVE  StackInv'
<1>1. /\ AppRequest("mWRITE") /\ Ready(Head(fromApp)) /\ "mWRITE" \in DOMAIN ReadyStatus
      /\ UNCHANGED <<ports, toApp>>
  BY DEF AppWrite, ReadyStatus
<1>2. /\ Head(fromApp) = call /\ call.fd \in Fd /\ socks[call.fd].status # "FREE"
      /\ app' = app /\ call' = call
  BY <1>1, RequestReady DEF appVars
<1>3. PICK n : SendRequest("WRITE", call.fd, socks[call.fd].conn, n)
  BY <1>2 DEF AppWrite
<1>4. SetStatus(call.fd, "WRITE_PENDING")
  BY <1>2 DEF AppWrite
<1>5. CASE SendTCPRequest("WRITE", call.fd, socks[call.fd].conn, n)
  BY <1>1, <1>2, <1>4, <1>5, WaitKeeps
<1>6. CASE SendUDPRequest("WRITE", call.fd, socks[call.fd].conn, n)
  <2>1. /\ udpq' = Queued(udpq, "WRITE", call.fd, socks[call.fd].conn)
        /\ tcpq' = tcpq /\ toTcp' = toTcp
    BY <1>6 DEF SendUDPRequest
  <2>2. /\ Sockets' /\ PortsApart'
        /\ socks'[call.fd].status = "WRITE_PENDING"
        /\ \A k \in Fd \ {call.fd} : socks'[k].status = socks[k].status
    <3>1. "WRITE_PENDING" \in Statuses
      BY DEF Statuses, Pending
    <3> QED
      BY <1>1, <1>2, <1>4, <3>1, SocketKept DEF StackInv
  <2>3. Turns' /\ Waiting'
    BY <1>1, <1>2, <2>1, <2>2, CallPassedOn
  <2> QED
    BY <1>1, <2>1, <2>2, <2>3, RequestKeeps
<1> QED
  BY <1>3, <1>5, <1>6 DEF SendRequest

LEMMA CloseKeeps ==
    ASSUME TypeOK, StackInv, UNCHANGED <<appVars, tcps>>, AppClose
    PROVE  StackInv'
<1>1. /\ AppRequest("mCLOSE") /\ Ready(Head(fromApp)) /\ "mCLOSE" \in DOMAIN ReadyStatus
      /\ UNCHANGED ports
  BY DEF AppClose, ReadyStatus
<1>2. /\ Head(fromApp) = call /\ call.fd \in Fd
      /\ app' = app /\ call' = call /\ call # NONE /\ call.type = "mCLOSE" /\ Idle
      /\ socks[call.fd].conn.protocol \in {"tcp", "udp"}
  BY <1>1, RequestReady, CallMade DEF appVars
<1>3. /\ SendRequest("CLOSE", call.fd, socks[call.fd].conn, 0)
      /\ Reply(call.fd, 0, "EOK") /\ CloseSocket(call.fd)
  BY <1>2 DEF AppClose
<1>4. /\ Sockets' /\ PortsApart'
      /\ socks'[call.fd].status = "FREE"
      /\ \A k \in Fd \ {call.fd} : socks'[k].status = socks[k].status
  BY <1>1, <1>2, <1>3, SocketClosed DEF StackInv
<1>5. /\ udpq' = udpq \/ \E fd, c : udpq' = Queued(udpq, "CLOSE", fd, c)
      /\ tcpq' = tcpq \/ \E fd, c : tcpq' = Queued(tcpq, "CLOSE", fd, c)
  BY <1>3 DEF SendRequest, SendUDPRequest, SendTCPRequest
<1>6. Idle'
  <2>1. \A k \in Fd : socks'[k].status \notin Pending \/ socks'[k].status = socks[k].status
    BY <1>4 DEF Pending
  <2> QED
    BY <1>2, <1>5, <2>1, IdleKept
<1>7. Turns' /\ Waiting'
  BY <1>1, <1>2, <1>3, <1>6, CallAnswered
<1>8. \/ toTcp' = toTcp
      \/ \E kind, fd, c, n : SendTCPRequest(kind, fd, c, n) /\ (kind = "CLOSE" => app = {})
  <2>1. socks[call.fd].conn.protocol = "tcp" => app = {}
    BY <1>2 DEF StackInv, Sockets, AppCalls
  <2>2. \/ SendUDPRequest("CLOSE", call.fd, socks[call.fd].conn, 0)
        \/ app = {} /\ SendTCPRequest("CLOSE", call.fd, socks[call.fd].conn, 0)
    BY <1>2, <1>3, <2>1 DEF SendRequest
  <2> QED
    BY <2>2 DEF SendUDPRequest
<1> QED
  BY <1>1, <1>4, <1>7, <1>8, RequestKeeps

LEMMA RequestsKeep ==
    ASSUME TypeOK, StackInv, UNCHANGED <<appVars, tcps>>, ProcessAppRequest
    PROVE  StackInv'
<1>1. CASE AppRefused \/ AppNoPort \/ AppDefault
  <2>1. PICK type, fd, n, err : AppRequest(type) /\ Reply(fd, n, err)
    BY <1>1 DEF AppRefused, AppNoPort, AppDefault
  <2>2. UNCHANGED <<socks, ports>> /\ NothingSent
    BY <1>1 DEF AppRefused, AppNoPort, AppDefault
  <2> QED
    BY <2>1, <2>2, DenialKeeps
<1> QED
  BY <1>1, OpenKeeps, BindKeeps, ListenKeeps, AcceptKeeps, ConnectKeeps, ReadKeeps, WriteKeeps,
     CloseKeeps DEF ProcessAppRequest
-----------------------------------------------------------------------------
(***************************************************************************)
(* ProcessTCPMessage and ProcessUDPMessage.                                *)
(***************************************************************************)

\* Who waits goes on waiting when a record goes that stands for nothing.
LEMMA WaitingKept ==
    ASSUME TypeOK, Waiting, UNCHANGED <<call, fromApp, toApp>>,
           \A k \in Fd : socks'[k].status = socks[k].status,
           udpq' = udpq \/ (udpq # <<>> /\ udpq' = Tail(udpq)),
           tcpq' = tcpq \/ (tcpq # <<>> /\ tcpq' = Tail(tcpq))
    PROVE  Waiting'
<1>1. /\ udpq \in Seq(RequestRecord) /\ tcpq \in Seq(RequestRecord)
      /\ \A i \in DOMAIN udpq : udpq[i].sock \in Fd
      /\ \A i \in DOMAIN tcpq : tcpq[i].sock \in Fd
  BY RecordSocket
<1>2. PICK n \in {0, 1} :
        /\ \A i \in DOMAIN udpq' : i + n \in DOMAIN udpq /\ udpq'[i] = udpq[i + n]
        /\ \A i, j \in DOMAIN udpq' : i + n = j + n => i = j
  <2>1. CASE udpq' = udpq
    <3>1. \A i \in DOMAIN udpq : i \in Nat
      BY <1>1
    <3>2. \A i \in DOMAIN udpq : i + 0 = i
      BY <3>1
    <3> QED
      BY <2>1, <3>2
  <2>2. CASE udpq # <<>> /\ udpq' = Tail(udpq)
    BY <1>1, <2>2, RecordTaken
  <2> QED
    BY <2>1, <2>2
<1>3. PICK n2 \in {0, 1} :
        /\ \A i \in DOMAIN tcpq' : i + n2 \in DOMAIN tcpq /\ tcpq'[i] = tcpq[i + n2]
        /\ \A i, j \in DOMAIN tcpq' : i + n2 = j + n2 => i = j
  <2>1. CASE tcpq' = tcpq
    <3>1. \A i \in DOMAIN tcpq : i \in Nat
      BY <1>1
    <3>2. \A i \in DOMAIN tcpq : i + 0 = i
      BY <3>1
    <3> QED
      BY <2>1, <3>2
  <2>2. CASE tcpq # <<>> /\ tcpq' = Tail(tcpq)
    BY <1>1, <2>2, RecordTaken
  <2> QED
    BY <2>1, <2>2
<1>4. SocketsWait'
  BY DEF Waiting, SocketsWait, InProgress
<1>5. RecordsWait'
  <2>1. \A i \in DOMAIN udpq' :
          \/ udpq'[i].type = "CLOSE"
          \/ udpq'[i].type = "FORWARD" /\ Waits(udpq[i], {"mBIND", "mCONNECT"})'
          \/ udpq'[i].type = "WRITE" /\ Waits(udpq[i], {"mWRITE"})'
    <3> TAKE i \in DOMAIN udpq'
    <3>1. i + n \in DOMAIN udpq /\ udpq'[i] = udpq[i + n] /\ udpq[i + n].sock \in Fd
      BY <1>1, <1>2
    <3>2. \/ udpq[i + n].type = "CLOSE"
          \/ udpq[i + n].type = "FORWARD" /\ Waits(udpq[i + n], {"mBIND", "mCONNECT"})
          \/ udpq[i + n].type = "WRITE" /\ Waits(udpq[i + n], {"mWRITE"})
      BY <3>1 DEF Waiting, RecordsWait
    <3> QED
      BY <3>1, <3>2 DEF Waits, InProgress
  <2>2. \A i \in DOMAIN tcpq' : tcpq'[i].type = "WRITE" => Waits(tcpq[i], {"mWRITE"})'
    <3> TAKE i \in DOMAIN tcpq'
    <3>1. /\ i + n2 \in DOMAIN tcpq /\ tcpq'[i] = tcpq[i + n2]
          /\ tcpq[i + n2].sock \in Fd
      BY <1>1, <1>3
    <3>2. tcpq[i + n2].type = "WRITE" => Waits(tcpq[i + n2], {"mWRITE"})
      BY <3>1 DEF Waiting, RecordsWait
    <3> QED
      BY <3>1, <3>2 DEF Waits, InProgress
  <2> QED
    BY <2>1, <2>2 DEF RecordsWait
<1>6. OneWaits'
  BY <1>2, <1>3 DEF Waiting, OneWaits
<1> QED
  BY <1>4, <1>5, <1>6 DEF Waiting

LEMMA MessageKeeps ==
    ASSUME TypeOK, StackInv, UNCHANGED <<appVars, tcps, fromApp>>,
           Turns', Waiting', Sockets', PortsApart',
           fromTcp' = fromTcp \/ (fromTcp # <<>> /\ fromTcp' = Tail(fromTcp)),
           toTcp' = toTcp \/ \E m, n, err : SendStatus(m, n, err)
    PROVE  StackInv'
<1>1. AppCalls'
  BY DEF StackInv, AppCalls, appVars
<1>2. \/ toTcp' = toTcp
      \/ \E m : toTcp' = Append(toTcp, m) /\ m.type = "STATUS"
  <2>1. ASSUME NEW m, NEW n, NEW err, SendStatus(m, n, err)
        PROVE  toTcp' = toTcp \/ \E s : toTcp' = Append(toTcp, s) /\ s.type = "STATUS"
    <3>1. Srr("STATUS", m.conn, n, err).type = "STATUS"
      BY DEF Srr
    <3> QED
      BY <2>1, <3>1 DEF SendStatus
  <2> QED
    BY <2>1
<1>3. TcpEnds'
  <2>1. \/ toTcp' = toTcp
        \/ \E m : /\ toTcp' = Append(toTcp, m)
                  /\ m.type = "WRITE" => fromApp # <<>>
                  /\ m.type = "CLOSE" => app = {} /\ fromApp' = <<>>
    BY <1>2
  <2> QED
    BY <2>1, EndsKept DEF StackInv, appVars
<1> QED
  BY <1>1, <1>3 DEF StackInv

\* No socket changes but for its store, and nobody is answered.
LEMMA SilenceKeeps ==
    ASSUME TypeOK, StackInv, UNCHANGED <<appVars, tcps, fromApp, toApp, ports>>,
           \A k \in Fd : socks'[k].status = socks[k].status /\ socks'[k].conn = socks[k].conn,
           udpq' = udpq \/ (udpq # <<>> /\ udpq' = Tail(udpq)),
           tcpq' = tcpq \/ (tcpq # <<>> /\ tcpq' = Tail(tcpq)),
           fromTcp' = fromTcp \/ (fromTcp # <<>> /\ fromTcp' = Tail(fromTcp)),
           toTcp' = toTcp \/ \E m, n, err : SendStatus(m, n, err)
    PROVE  StackInv'
<1>1. Turns'
  BY DEF StackInv, Turns, appVars
<1>2. Waiting'
  BY WaitingKept DEF StackInv, appVars
<1>3. Sockets' /\ PortsApart'
  BY DEF StackInv, Sockets, PortsApart, appVars
<1> QED
  BY <1>1, <1>2, <1>3, MessageKeeps

\* A socket that waits is served: by data, by a connection.
LEMMA ServiceKeeps ==
    ASSUME TypeOK, StackInv, UNCHANGED <<appVars, tcps, fromApp, udpq, tcpq, ports>>,
           NEW fd \in Fd,
           socks[fd].status \in {"ACCEPT_PENDING", "CONNECT_PENDING", "READ_PENDING"},
           Sockets', PortsApart',
           \A k \in Fd : \/ socks'[k].status \in {"FREE", "LISTENING", "CONNECTED"}
                         \/ k # fd /\ socks'[k].status = socks[k].status,
           toApp' = toApp \/ \E k, n, err : Reply(k, n, err),
           fromTcp' = fromTcp \/ (fromTcp # <<>> /\ fromTcp' = Tail(fromTcp)),
           NEW m, NEW n, NEW err, SendStatus(m, n, err)
    PROVE  StackInv'
<1>1. /\ InProgress(fd, {WaitsFor[socks[fd].status]})
      /\ \A k \in Fd \ {fd} : socks[k].status \notin Pending
      /\ \A i \in DOMAIN udpq : udpq[i].type = "CLOSE"
      /\ \A i \in DOMAIN tcpq : tcpq[i].type # "WRITE"
  BY SocketAlone
<1>2. Idle'
  <2>1. \A k \in Fd : socks'[k].status \notin Pending
    BY <1>1 DEF Pending
  <2> QED
    BY <1>1, <2>1 DEF Idle
<1>3. Turns'
  <2>1. CASE toApp' = toApp
    BY <2>1 DEF StackInv, Turns, appVars
  <2>2. CASE \E k, l, e : Reply(k, l, e)
    BY <1>1, <1>2, <2>2, AnswerReturned DEF appVars
  <2> QED
    BY <2>1, <2>2
<1>4. Waiting'
  BY <1>2, IdleWaits
<1> QED
  BY <1>3, <1>4, MessageKeeps

LEMMA DeliveryKeeps ==
    ASSUME TypeOK, StackInv, UNCHANGED <<appVars, tcps, fromApp, udpq, tcpq, ports>>,
           NEW fd \in Fd, NEW m, Deliver(fd, m),
           fromTcp' = fromTcp \/ (fromTcp # <<>> /\ fromTcp' = Tail(fromTcp))
    PROVE  StackInv'
<1>1. CASE /\ socks[fd].status = "CONNECTED" /\ UNCHANGED toApp
           /\ socks' = [socks EXCEPT ![fd].bin = @ + Taken(fd, m)]
           /\ \E n, err : SendStatus(m, n, err)
  <2>1. \A k \in Fd : socks'[k].status = socks[k].status /\ socks'[k].conn = socks[k].conn
    BY <1>1 DEF TypeOK, SocksOK
  <2> QED
    BY <1>1, <2>1, SilenceKeeps
<1>2. CASE /\ socks[fd].status = "READ_PENDING"
           /\ Reply(fd, m.bytes, m.error)
           /\ SetStatus(fd, "CONNECTED")
           /\ SendStatus(m, m.bytes, "EOK")
  <2>1. /\ Sockets' /\ PortsApart'
        /\ socks'[fd].status = "CONNECTED"
        /\ \A k \in Fd \ {fd} : socks'[k].status = socks[k].status
    BY <1>2, SocketKept DEF StackInv, Statuses, appVars
  <2>2. \A k \in Fd : \/ socks'[k].status \in {"FREE", "LISTENING", "CONNECTED"}
                      \/ k # fd /\ socks'[k].status = socks[k].status
    BY <2>1
  <2> QED
    BY <1>2, <2>1, <2>2, ServiceKeeps
<1> QED
  BY <1>1, <1>2 DEF Deliver

LEMMA RefusalKeeps ==
    ASSUME TypeOK, StackInv, UNCHANGED <<appVars, tcps, fromApp, udpq, tcpq, ports>>,
           NEW m, Refuse(m) \/ Unknown(m),
           fromTcp' = fromTcp \/ (fromTcp # <<>> /\ fromTcp' = Tail(fromTcp))
    PROVE  StackInv'
<1>1. UNCHANGED <<socks, toApp>> /\ \E n, err : SendStatus(m, n, err)
  BY DEF Refuse, Unknown
<1> QED
  BY <1>1, SilenceKeeps

LEMMA AcceptanceKeeps ==
    ASSUME TypeOK, StackInv, UNCHANGED <<appVars, tcps, fromApp, udpq, tcpq, ports>>,
           NEW fd \in Fd, NEW m, m.conn \in Connection, Answers(fd, m.conn), Accepted(fd, m),
           fromTcp' = fromTcp \/ (fromTcp # <<>> /\ fromTcp' = Tail(fromTcp))
    PROVE  StackInv'
<1>1. socks[fd].status = "ACCEPT_PENDING" /\ \E n, err : SendStatus(m, n, err)
  BY DEF Accepted
<1>2. socks[fd].conn.protocol = "tcp" /\ app' = app
  BY <1>1 DEF StackInv, Sockets, appVars
<1>3. CASE SetStatus(fd, "LISTENING") /\ (toApp' = toApp \/ Reply(fd, m.bytes, m.error))
  <2>1. /\ Sockets' /\ PortsApart'
        /\ socks'[fd].status = "LISTENING"
        /\ \A k \in Fd \ {fd} : socks'[k].status = socks[k].status
    BY <1>1, <1>2, <1>3, SocketKept DEF StackInv, Statuses
  <2>2. \A k \in Fd : \/ socks'[k].status \in {"FREE", "LISTENING", "CONNECTED"}
                      \/ k # fd /\ socks'[k].status = socks[k].status
    BY <2>1
  <2> QED
    BY <1>1, <1>3, <2>1, <2>2, ServiceKeeps
<1>4. ASSUME NEW new \in Fd, IsFreeSock(new), Reply(new, m.bytes, "EOK"),
             socks' = [socks EXCEPT ![fd].status = "LISTENING", ![new].conn = m.conn,
                                    ![new].status = "CONNECTED"]
      PROVE  StackInv'
  <2>1. new # fd
    BY <1>1, <1>4 DEF IsFreeSock
  <2>2. m.conn.src = socks[fd].conn.src /\ m.conn.protocol = socks[fd].conn.protocol
    BY DEF Answers, Connection
  <2>3. /\ Sockets' /\ PortsApart'
        /\ socks'[fd].status = "LISTENING" /\ socks'[new].status = "CONNECTED"
        /\ \A k \in Fd \ {fd, new} : socks'[k].status = socks[k].status
    BY <1>1, <1>2, <1>4, <2>1, <2>2, SocketShared DEF StackInv
  <2>4. \A k \in Fd : \/ socks'[k].status \in {"FREE", "LISTENING", "CONNECTED"}
                      \/ k # fd /\ socks'[k].status = socks[k].status
    BY <2>3
  <2> QED
    BY <1>1, <1>4, <2>3, <2>4, ServiceKeeps
<1> QED
  BY <1>3, <1>4 DEF Accepted

LEMMA ConnectionKeeps ==
    ASSUME TypeOK, StackInv, UNCHANGED <<appVars, tcps, fromApp, udpq, tcpq, ports>>,
           NEW fd \in Fd, NEW m, Connected(fd, m),
           fromTcp' = fromTcp \/ (fromTcp # <<>> /\ fromTcp' = Tail(fromTcp))
    PROVE  StackInv'
<1>1. /\ socks[fd].status = "CONNECT_PENDING" /\ Reply(fd, m.bytes, m.error)
      /\ SetStatus(fd, "CONNECTED") \/ CloseSocket(fd)
      /\ SendStatus(m, m.bytes, "EOK")
      /\ app' = app /\ ports' = ports
  BY DEF Connected, appVars
<1>2. /\ Sockets' /\ PortsApart'
      /\ socks'[fd].status \in {"CONNECTED", "FREE"}
      /\ \A k \in Fd \ {fd} : socks'[k].status = socks[k].status
  <2>1. CASE SetStatus(fd, "CONNECTED")
    BY <1>1, <2>1, SocketKept DEF StackInv, Statuses
  <2>2. CASE CloseSocket(fd)
    BY <1>1, <2>2, SocketClosed DEF StackInv
  <2> QED
    BY <1>1, <2>1, <2>2
<1>3. \A k \in Fd : \/ socks'[k].status \in {"FREE", "LISTENING", "CONNECTED"}
                    \/ k # fd /\ socks'[k].status = socks[k].status
  BY <1>2
<1> QED
  BY <1>1, <1>2, <1>3, ServiceKeeps

LEMMA WritesKeep ==
    ASSUME TypeOK, StackInv, UNCHANGED <<appVars, tcps>>, HandleTCPWrite \/ HandleUDPWrite
    PROVE  StackInv'
<1>1. CASE HandleTCPWrite
  <2> DEFINE m == Head(fromTcp)
  <2>1. /\ UNCHANGED <<appVars, tcps, fromApp, udpq, tcpq, ports>>
        /\ fromTcp # <<>> /\ fromTcp' = Tail(fromTcp)
    BY <1>1 DEF HandleTCPWrite
  <2>2. m.conn \in Connection
    <3>1. m \in Srrs
      BY <2>1 DEF TypeOK, PipesOK
    <3> QED
      BY <3>1, MessageFields
  <2>3. PICK fd : \/ Unknown(m) \/ Refuse(m)
                  \/ /\ fd \in Fd /\ Answers(fd, m.conn)
                     /\ Deliver(fd, m) \/ Accepted(fd, m) \/ Connected(fd, m)
    BY <1>1 DEF HandleTCPWrite, IsFound
  <2> HIDE DEF m
  <2> QED
    BY <2>1, <2>2, <2>3, DeliveryKeeps, RefusalKeeps, AcceptanceKeeps, ConnectionKeeps
<1>2. CASE HandleUDPWrite
  <2> DEFINE m == Head(fromUdp)
  <2>1. /\ UNCHANGED <<appVars, tcps, fromApp, udpq, tcpq, ports>>
        /\ fromTcp' = fromTcp
    BY <1>2 DEF HandleUDPWrite
  <2>2. PICK fd : Unknown(m) \/ Refuse(m) \/ (fd \in Fd /\ Deliver(fd, m))
    BY <1>2 DEF HandleUDPWrite
  <2> HIDE DEF m
  <2> QED
    BY <2>1, <2>2, DeliveryKeeps, RefusalKeeps
<1> QED
  BY <1>1, <1>2

\* The answer to the request that waits.
LEMMA AnswerToRecordKeeps ==
    ASSUME TypeOK, StackInv, UNCHANGED <<appVars, tcps, fromApp, ports, toTcp>>,
           NEW fd \in Fd, NEW types, InProgress(fd, types),
           socks[fd].status # "FREE",
           \A k \in Fd \ {fd} : socks[k].status \notin Pending,
           \A i \in DOMAIN udpq' : udpq'[i].type = "CLOSE",
           \A i \in DOMAIN tcpq' : tcpq'[i].type # "WRITE",
           NEW n, NEW err, Reply(fd, n, err),
           CloseSocket(fd) \/ \E st \in {"BOUND", "CONNECTED"} : SetStatus(fd, st),
           fromTcp' = fromTcp \/ (fromTcp # <<>> /\ fromTcp' = Tail(fromTcp))
    PROVE  StackInv'
<1>1. app' = app /\ ports' = ports /\ call' = call
  BY DEF appVars
<1>2. /\ Sockets' /\ PortsApart'
      /\ socks'[fd].status \in {"BOUND", "CONNECTED", "FREE"}
      /\ \A k \in Fd \ {fd} : socks'[k].status = socks[k].status
  <2>1. CASE CloseSocket(fd)
    BY <1>1, <2>1, SocketClosed DEF StackInv
  <2>2. ASSUME NEW st \in {"BOUND", "CONNECTED"}, SetStatus(fd, st)
        PROVE  /\ Sockets' /\ PortsApart'
               /\ socks'[fd].status = st
               /\ \A k \in Fd \ {fd} : socks'[k].status = socks[k].status
    BY <1>1, <2>2, SocketKept DEF StackInv, Statuses
  <2> QED
    BY <2>1, <2>2
<1>3. Idle'
  <2>1. \A k \in Fd : socks'[k].status \notin Pending
    BY <1>2 DEF Pending
  <2> QED
    BY <2>1 DEF Idle
<1>4. Turns' /\ Waiting'
  BY <1>1, <1>3, AnswerReturned
<1> QED
  BY <1>2, <1>4, MessageKeeps

LEMMA UdpStatusKeeps ==
    ASSUME TypeOK, StackInv, UNCHANGED <<appVars, tcps>>, HandleUDPStatus
    PROVE  StackInv'
<1> DEFINE m == Head(fromUdp)
           r == Head(udpq)
<1>1. /\ udpq # <<>> /\ udpq' = Tail(udpq)
      /\ UNCHANGED <<ports, tcpq, fromApp, toTcp, fromTcp>>
      /\ udpq \in Seq(RequestRecord)
  BY RecordSocket DEF HandleUDPStatus
<1>2. 1 \in DOMAIN udpq /\ r = udpq[1] /\ r.sock \in Fd
      /\ \A i \in DOMAIN udpq' : i + 1 \in DOMAIN udpq /\ udpq'[i] = udpq[i + 1] /\ i + 1 # 1
  BY <1>1, RecordTaken, RecordSocket
<1>3. CASE r.type = "CLOSE"
  <2>1. UNCHANGED <<socks, toApp>>
    BY <1>3 DEF HandleUDPStatus
  <2> QED
    BY <1>1, <2>1, SilenceKeeps
<1>4. CASE r.type # "CLOSE"
  <2>1. /\ InProgress(r.sock, {"mBIND", "mCONNECT"}) \/ InProgress(r.sock, {"mWRITE"})
        /\ socks[r.sock].status # "FREE"
        /\ \A k \in Fd \ {r.sock} : socks[k].status \notin Pending
        /\ \A j \in DOMAIN udpq : j # 1 => udpq[j].type = "CLOSE"
        /\ \A j \in DOMAIN tcpq : tcpq[j].type # "WRITE"
    BY <1>2, <1>4, UdpRecordAlone
  <2>2. PICK types : InProgress(r.sock, types)
    BY <2>1
  <2>3. /\ \A i \in DOMAIN udpq' : udpq'[i].type = "CLOSE"
        /\ \A i \in DOMAIN tcpq' : tcpq'[i].type # "WRITE"
    BY <1>1, <1>2, <2>1
  <2>4. /\ Reply(r.sock, m.bytes, m.error)
        /\ CloseSocket(r.sock) \/ \E st \in {"BOUND", "CONNECTED"} : SetStatus(r.sock, st)
    BY <1>4 DEF HandleUDPStatus, StatusByDest
  <2> HIDE DEF r, m
  <2> QED
    BY <1>1, <1>2, <2>1, <2>2, <2>3, <2>4, AnswerToRecordKeeps
<1> QED
  BY <1>3, <1>4

LEMMA TcpStatusKeeps ==
    ASSUME TypeOK, StackInv, UNCHANGED <<appVars, tcps>>, HandleTCPStatus
    PROVE  StackInv'
<1> DEFINE m == Head(fromTcp)
           r == Head(tcpq)
<1>1. /\ tcpq # <<>> /\ tcpq' = Tail(tcpq)
      /\ fromTcp # <<>> /\ fromTcp' = Tail(fromTcp) /\ m.type = "STATUS"
      /\ UNCHANGED <<ports, udpq, fromApp, toTcp>>
      /\ tcpq \in Seq(RequestRecord) /\ fromTcp \in Seq(Srrs)
  BY RecordSocket DEF HandleTCPStatus, TypeOK, PipesOK
<1>2. 1 \in DOMAIN tcpq /\ r = tcpq[1] /\ r.sock \in Fd
      /\ \A i \in DOMAIN tcpq' : i + 1 \in DOMAIN tcpq /\ tcpq'[i] = tcpq[i + 1] /\ i + 1 # 1
  BY <1>1, RecordTaken, RecordSocket
<1>3. m.error = "EOK"
  <2>1. 1 \in DOMAIN fromTcp /\ m = fromTcp[1]
    BY <1>1
  <2> QED
    BY <1>1, <2>1 DEF StackInv, TcpEnds
<1>4. CASE r.type # "WRITE"
  <2>1. UNCHANGED <<socks, toApp>>
    BY <1>3, <1>4 DEF HandleTCPStatus
  <2> QED
    BY <1>1, <2>1, SilenceKeeps
<1>5. CASE r.type = "WRITE"
  <2>1. /\ InProgress(r.sock, {"mWRITE"})
        /\ socks[r.sock].status # "FREE"
        /\ \A k \in Fd \ {r.sock} : socks[k].status \notin Pending
        /\ \A j \in DOMAIN tcpq : j # 1 => tcpq[j].type # "WRITE"
        /\ \A j \in DOMAIN udpq : udpq[j].type = "CLOSE"
    BY <1>2, <1>5, TcpRecordAlone
  <2>2. /\ \A i \in DOMAIN udpq' : udpq'[i].type = "CLOSE"
        /\ \A i \in DOMAIN tcpq' : tcpq'[i].type # "WRITE"
    BY <1>1, <1>2, <2>1
  <2>3. Reply(r.sock, m.bytes, m.error) /\ SetStatus(r.sock, "CONNECTED")
    BY <1>5 DEF HandleTCPStatus
  <2> HIDE DEF r, m
  <2> QED
    BY <1>1, <1>2, <2>1, <2>2, <2>3, AnswerToRecordKeeps
<1> QED
  BY <1>4, <1>5
-----------------------------------------------------------------------------
(***************************************************************************)
(* TCP, UDP, the network, and the application.                             *)
(***************************************************************************)

OpenEntry == {e \in TcpEntry : e.st # "CLOSED_BY_US"}

LEMMA TableOpen ==
    ASSUME tcps \in Seq(OpenEntry), NEW i \in DOMAIN tcps
    PROVE  /\ tcps[i].st # "CLOSED_BY_US"
           /\ Table!Without(tcps, i) \in Seq(OpenEntry)
           /\ \A st \in {"LISTEN", "SYN_SENT", "ESTABLISHED", "CLOSE_WAIT"} :
                 Enter(i, st) => tcps' \in Seq(OpenEntry)
           /\ Enter(i, tcps[i].st) => tcps' \in Seq(OpenEntry)
<1>1. tcps[i] \in OpenEntry
  OBVIOUS
<1>2. Table!Without(tcps, i) \in Seq(OpenEntry)
  BY WithoutType
<1>3. ASSUME NEW st \in {"LISTEN", "SYN_SENT", "ESTABLISHED", "CLOSE_WAIT"}, Enter(i, st)
      PROVE  tcps' \in Seq(OpenEntry)
  <2>1. [tcps[i] EXCEPT !.st = st] \in OpenEntry
    BY <1>1 DEF OpenEntry, TcpEntry
  <2>2. <<[tcps[i] EXCEPT !.st = st]>> \in Seq(OpenEntry)
    BY <2>1
  <2> QED
    BY <1>2, <1>3, <2>2 DEF Enter, Table!ToFront
<1>4. tcps[i].st \in {"LISTEN", "SYN_SENT", "ESTABLISHED", "CLOSE_WAIT"}
  BY <1>1 DEF OpenEntry, TcpEntry
<1> QED
  BY <1>2, <1>3, <1>4

LEMMA OpenTable ==
    tcps \in Seq(OpenEntry) => \A i \in DOMAIN tcps : tcps[i].st # "CLOSED_BY_US"
  BY TableOpen

LEMMA ClosedOrOpen ==
    ASSUME TypeOK
    PROVE  tcps \in Seq(OpenEntry) \/ \E i \in DOMAIN tcps : tcps[i].st = "CLOSED_BY_US"
<1>1. tcps \in Seq(TcpEntry)
  BY DEF TypeOK, TcpOK, TcpEntry
<1>2. ASSUME \A i \in DOMAIN tcps : tcps[i].st # "CLOSED_BY_US"
      PROVE  tcps \in Seq(OpenEntry)
  <2>1. \A i \in DOMAIN tcps : tcps[i] \in TcpEntry
    BY <1>1
  <2>2. \A i \in DOMAIN tcps : tcps[i] \in OpenEntry
    BY <1>2, <2>1 DEF OpenEntry
  <2> QED
    BY <1>1, <2>2
<1> QED
  BY <1>2

\* What TCP sends up keeps the promise that it answers no WRITE with an error.
LEMMA SentUp ==
    ASSUME TypeOK, TcpEnds,
           \/ fromTcp' = fromTcp
           \/ \E type, c, n, err : /\ Answer(type, c, n, err)
                                   /\ type = "STATUS" => err = "EOK"
    PROVE  \A i \in DOMAIN fromTcp' : fromTcp'[i].type = "STATUS" => fromTcp'[i].error = "EOK"
<1>1. fromTcp \in Seq(Srrs)
  BY DEF TypeOK, PipesOK
<1>2. ASSUME NEW type, NEW c, NEW n, NEW err, Answer(type, c, n, err), type = "STATUS" => err = "EOK"
      PROVE  \A i \in DOMAIN fromTcp' :
                fromTcp'[i].type = "STATUS" => fromTcp'[i].error = "EOK"
  <2> DEFINE m == [type |-> type, conn |-> c, bytes |-> n, error |-> err]
  <2>1. m.type = type /\ m.error = err
    OBVIOUS
  <2>2. fromTcp' = Append(fromTcp, m)
    BY <1>2 DEF Answer
  <2> HIDE DEF m
  <2>3. \A i \in DOMAIN fromTcp' :
           (i \in DOMAIN fromTcp /\ fromTcp'[i] = fromTcp[i]) \/ fromTcp'[i] = m
    BY <1>1, <2>2
  <2> QED
    BY <1>2, <2>1, <2>3 DEF TcpEnds
<1> QED
  BY <1>2 DEF TcpEnds

LEMMA TcpKeepsEnds ==
    ASSUME TypeOK, TcpEnds, UNCHANGED <<app, fromApp>>, TcpStep
    PROVE  TcpEnds'
<1> DEFINE req == Head(toTcp)
<1>1. toTcp # <<>> /\ toTcp' = Tail(toTcp) /\ toTcp \in Seq(Srrs)
  BY DEF TcpStep, TcpAccept, TcpConnect, TcpWrite, TcpClose, TcpTakeStatus, TcpRequest,
         TypeOK, PipesOK
<1>2. /\ 1 \in DOMAIN toTcp /\ req = toTcp[1]
      /\ \A i \in DOMAIN toTcp' : /\ i + 1 \in DOMAIN toTcp /\ toTcp'[i] = toTcp[i + 1]
                                  /\ i + 1 > 1
      /\ \A i, j \in DOMAIN toTcp' : j > i => j + 1 > i + 1
  BY <1>1
<1>3. ASSUME NEW i \in DOMAIN toTcp', toTcp'[i].type = "CLOSE"
      PROVE  /\ app' = {} /\ fromApp' = <<>>
             /\ \A j \in DOMAIN toTcp' : j > i => toTcp'[j].type # "WRITE"
  <2>1. /\ app = {} /\ fromApp = <<>>
        /\ \A j \in DOMAIN toTcp : j > i + 1 => toTcp[j].type # "WRITE"
    BY <1>2, <1>3 DEF TcpEnds
  <2> QED
    BY <1>2, <2>1
<1>4. CASE \E i \in DOMAIN tcps : tcps[i].st = "CLOSED_BY_US"
  <2>1. app = {} /\ fromApp = <<>> /\ \A j \in DOMAIN toTcp : toTcp[j].type # "WRITE"
    BY <1>4 DEF TcpEnds
  <2>2. app' = {} /\ fromApp' = <<>> /\ \A j \in DOMAIN toTcp' : toTcp'[j].type # "WRITE"
    BY <1>2, <2>1
  <2>3. ~ TcpWrite
    BY <1>2, <2>1 DEF TcpWrite, TcpRequest
  <2>4. \/ fromTcp' = fromTcp
        \/ \E type, c, n, err : Answer(type, c, n, err) /\ (type = "STATUS" => err = "EOK")
    BY <2>3 DEF TcpStep, TcpAccept, TcpConnect, TcpClose, TcpTakeStatus
  <2> QED
    BY <1>3, <2>2, <2>4, SentUp DEF TcpEnds
<1>5. CASE tcps \in Seq(OpenEntry)
  <2>1. \A i \in DOMAIN tcps : tcps[i].st # "CLOSED_BY_US"
    BY <1>5, OpenTable
  <2>2. \/ fromTcp' = fromTcp
        \/ \E type, c, n, err : Answer(type, c, n, err) /\ (type = "STATUS" => err = "EOK")
    BY <2>1 DEF TcpStep, TcpAccept, TcpConnect, TcpWrite, TcpClose, TcpTakeStatus
  <2>3. ASSUME NEW i \in DOMAIN tcps', tcps'[i].st = "CLOSED_BY_US"
        PROVE  app' = {} /\ fromApp' = <<>> /\ \A j \in DOMAIN toTcp' : toTcp'[j].type # "WRITE"
    <3>1. CASE TcpClose
      <4>1. req.type = "CLOSE"
        BY <3>1 DEF TcpClose, TcpRequest
      <4>2. app = {} /\ fromApp = <<>> /\ \A j \in DOMAIN toTcp : j > 1 => toTcp[j].type # "WRITE"
        BY <1>2, <4>1 DEF TcpEnds
      <4> QED
        BY <1>2, <4>2
    <3>2. CASE ~ TcpClose
      <4>1. ASSUME TcpAccept \/ TcpConnect
            PROVE  tcps' \in Seq(OpenEntry)
        <5>1. req.conn \in Connection
          <6>1. req \in Srrs
            BY <1>1
          <6> QED
            BY <6>1, MessageFields
        <5> HIDE DEF req
        <5>2. /\ [conn |-> req.conn, st |-> "LISTEN"] \in OpenEntry
              /\ [conn |-> req.conn, st |-> "SYN_SENT"] \in OpenEntry
          BY <5>1 DEF OpenEntry, TcpEntry
        <5>3. <<[conn |-> req.conn, st |-> "SYN_SENT"]>> \in Seq(OpenEntry)
          BY <5>2
        <5>4. CASE TcpAccept
          <6>1. CASE tcps' = Append(tcps, [conn |-> req.conn, st |-> "LISTEN"])
            BY <1>5, <5>2, <6>1
          <6>2. ASSUME NEW k \in DOMAIN tcps,
                       tcps' = Append(Table!Without(tcps, k), [conn |-> req.conn, st |-> "LISTEN"])
                PROVE  tcps' \in Seq(OpenEntry)
            BY <1>5, <5>2, <6>2, TableOpen
          <6> QED
            BY <5>4, <6>1, <6>2 DEF TcpAccept, req
        <5>5. CASE TcpConnect
          BY <1>5, <5>3, <5>5 DEF TcpConnect, req
        <5> QED
          BY <4>1, <5>4, <5>5
      <4>2. ASSUME TcpWrite \/ TcpTakeStatus
            PROVE  tcps' \in Seq(OpenEntry)
        <5>1. \/ tcps' = tcps
              \/ \E k \in DOMAIN tcps : Enter(k, "ESTABLISHED") \/ Enter(k, tcps[k].st)
          BY <4>2 DEF TcpWrite, TcpTakeStatus
        <5> QED
          BY <1>5, <5>1, TableOpen
      <4>3. tcps' \in Seq(OpenEntry)
        BY <3>2, <4>1, <4>2 DEF TcpStep
      <4>4. tcps'[i] \in OpenEntry
        BY <4>3
      <4> QED
        BY <2>3, <4>4 DEF OpenEntry
    <3> QED
      BY <3>1, <3>2
  <2> QED
    BY <1>3, <2>2, <2>3, SentUp DEF TcpEnds
<1> QED
  BY <1>4, <1>5, ClosedOrOpen

LEMMA SegmentKeepsEnds ==
    ASSUME TypeOK, TcpEnds, UNCHANGED <<app, fromApp>>,
           TcpNewConnection \/ TcpData \/ TcpPeerClosed \/ TcpGone
    PROVE  TcpEnds'
<1>1. /\ toTcp' = toTcp
      /\ \/ fromTcp' = fromTcp
         \/ \E type, c, n, err : Answer(type, c, n, err) /\ (type = "STATUS" => err = "EOK")
  <2>1. toTcp' = toTcp
    BY DEF TcpNewConnection, TcpData, TcpPeerClosed, TcpGone
  <2>2. fromTcp' = fromTcp \/ \E c, n, err : Answer("WRITE", c, n, err)
    BY DEF TcpNewConnection, TcpData, TcpPeerClosed, TcpGone
  <2> QED
    BY <2>1, <2>2
<1>2. CASE \E i \in DOMAIN tcps : tcps[i].st = "CLOSED_BY_US"
  <2>1. app = {} /\ fromApp = <<>> /\ \A j \in DOMAIN toTcp : toTcp[j].type # "WRITE"
    BY <1>2 DEF TcpEnds
  <2>2. \A i \in DOMAIN toTcp : toTcp[i].type = "CLOSE" =>
            \A j \in DOMAIN toTcp : j > i => toTcp[j].type # "WRITE"
    BY <2>1
  <2> QED
    BY <1>1, <2>1, <2>2, SentUp DEF TcpEnds
<1>3. CASE tcps \in Seq(OpenEntry)
  <2>1. \A i \in DOMAIN tcps : tcps[i].st # "CLOSED_BY_US" /\ tcps[i] \in OpenEntry
    BY <1>3, OpenTable
  <2>2. tcps' \in Seq(OpenEntry)
    <3>1. ASSUME NEW i \in DOMAIN tcps, NEW d \in Remotes, NEW c,
                 c = [tcps[i].conn EXCEPT !.dest = d],
                 tcps' = <<[conn |-> c, st |-> "ESTABLISHED"]>> \o tcps
          PROVE  tcps' \in Seq(OpenEntry)
      <4>1. tcps[i].conn \in Connection
        BY <2>1 DEF OpenEntry, TcpEntry
      <4>2. [conn |-> c, st |-> "ESTABLISHED"] \in OpenEntry
        BY <3>1, <4>1 DEF OpenEntry, TcpEntry, Connection
      <4>3. <<[conn |-> c, st |-> "ESTABLISHED"]>> \in Seq(OpenEntry)
        BY <4>2
      <4> QED
        BY <1>3, <3>1, <4>3
    <3>2. CASE TcpNewConnection
      BY <1>3, <3>1, <3>2, TableOpen DEF TcpNewConnection
    <3>3. CASE TcpData \/ TcpPeerClosed
      BY <1>3, <2>1, <3>3, TableOpen DEF TcpData, TcpPeerClosed
    <3>4. ~ TcpGone
      BY <2>1 DEF TcpGone
    <3> QED
      BY <3>2, <3>3, <3>4
  <2>3. \A i \in DOMAIN tcps' : tcps'[i].st # "CLOSED_BY_US"
    <3>1. \A i \in DOMAIN tcps' : tcps'[i] \in OpenEntry
      BY <2>2
    <3> QED
      BY <3>1 DEF OpenEntry
  <2> QED
    BY <1>1, <2>3, SentUp DEF TcpEnds
<1> QED
  BY <1>2, <1>3, ClosedOrOpen
LEMMA RequestsTyped == \A r \in Requests : r \in LibraryCall /\ r # NONE
<1>1. \A p \in {"tcp", "udp"} : SlrrConn(ANY, ANY, p) \in Connection
  BY DEF SlrrConn, Connection
<1>2. \A p \in Port \cup {ANY} : SlrrConn(p, ANY, NONE) \in Connection
  BY DEF SlrrConn, Connection
<1>3. \A d \in Remotes : SlrrConn(ANY, d, NONE) \in Connection
  BY DEF SlrrConn, Connection
<1>4. Requests \subseteq LibraryCall
  BY <1>1, <1>2, <1>3, Constants
     DEF Requests, minet_socket, minet_bind, minet_listen, minet_accept, minet_connect,
         minet_read, minet_write, minet_close, minet_recvfrom, minet_sendto, minet_modes,
         Slrr, LibraryCall, ReadyStatus
<1> QED
  BY <1>4, NoCallAssumption

\* The application asks for sockets of a protocol it uses.
LEMMA SocketProtocol ==
    \A r \in Requests : r.type = "mSOCKET" => r.conn.protocol \in app \cap {"tcp", "udp"}
<1> SUFFICES ASSUME NEW r \in Requests, r.type = "mSOCKET"
             PROVE  r.conn.protocol \in app \cap {"tcp", "udp"}
  OBVIOUS
<1>1. r \in minet_socket
  BY DEF Requests, minet_bind, minet_listen, minet_accept, minet_connect,
         minet_read, minet_write, minet_close, minet_recvfrom, minet_sendto, minet_modes, Slrr
<1>2. PICK p \in app \cap {"tcp", "udp"} : r = Slrr("mSOCKET", 0, ANY, SlrrConn(ANY, ANY, p), 0)
  BY <1>1 DEF minet_socket
<1> QED
  BY <1>2 DEF Slrr, SlrrConn

LEMMA ClosesAtWill ==
    \A r \in Requests : r.type = "mCLOSE" => "close" \in app \/ "exit" \in app
  BY DEF Requests, minet_socket, minet_bind, minet_listen, minet_accept, minet_connect,
         minet_read, minet_write, minet_close, minet_recvfrom, minet_sendto, minet_modes, Slrr

LEMMA CallKeeps ==
    ASSUME CloseEnds, TypeOK, StackInv, Call
    PROVE  StackInv'
<1>1. PICK r \in Requests :
        /\ call' = r /\ fromApp' = Append(fromApp, r)
        /\ app' = IF r.type = "mCLOSE" /\ "exit" \in app THEN {} ELSE app
  BY DEF Call
<1>2. /\ call = NONE /\ fromApp = <<>> /\ toApp = <<>> /\ app # {}
      /\ UNCHANGED <<socks, ports, tcpq, udpq, toApp, toTcp, fromTcp, tcps>>
  BY DEF Call, StackInv, Turns, pipes
<1>3. fromApp' = <<r>> /\ Len(fromApp') = 1 /\ Head(fromApp') = r /\ Len(toApp') = 0
  BY <1>1, <1>2
<1>4. Turns'
  <2>1. r # NONE
    BY RequestsTyped
  <2> QED
    BY <1>1, <1>3, <2>1 DEF Turns
<1>5. AppCalls'
  <2>1. r.type = "mSOCKET" => /\ r.conn.protocol \in {"tcp", "udp"} /\ app' = app
                              /\ r.conn.protocol = "tcp" => "close" \notin app
    <3>1. app \in Apps
      BY <1>2 DEF TypeOK, AppOK
    <3> QED
      BY <1>1, <3>1, SocketProtocol DEF CloseEnds
  <2>2. r.type = "mCLOSE" => app' = {} \/ "close" \in app'
    BY <1>1, ClosesAtWill
  <2> QED
    BY <1>1, <2>1, <2>2 DEF AppCalls
<1>6. Waiting'
  BY <1>2 DEF StackInv, Waiting, SocketsWait, RecordsWait, OneWaits, Waits, InProgress
<1>7. Sockets' /\ PortsApart'
  BY <1>1, <1>2 DEF StackInv, Sockets, PortsApart
<1>8. TcpEnds'
  BY <1>2 DEF StackInv, TcpEnds
<1> QED
  BY <1>4, <1>5, <1>6, <1>7, <1>8 DEF StackInv

LEMMA ReturnKeeps ==
    ASSUME TypeOK, StackInv, Return
    PROVE  StackInv'
<1>1. /\ toApp # <<>> /\ call # NONE /\ call' = NONE /\ toApp' = Tail(toApp)
      /\ UNCHANGED <<app, socks, ports, tcpq, udpq, fromApp, toTcp, fromTcp, tcps>>
  BY DEF Return, pipes
<1>2. fromApp' = <<>> /\ toApp' = <<>>
  <2>1. fromApp \in Seq(LibraryCall) /\ toApp \in Seq(Replies)
    BY DEF TypeOK, AppOK
  <2>2. Len(fromApp) \in Nat /\ Len(toApp) \in Nat /\ Len(toApp) # 0
    BY <1>1, <2>1
  <2>3. Len(fromApp) + Len(toApp) <= 1
    BY DEF StackInv, Turns
  <2>4. Len(fromApp) = 0 /\ Len(toApp) = 1
    <3>1. \A a, b \in Nat : b # 0 /\ a + b <= 1 => a = 0 /\ b = 1
      OBVIOUS
    <3> QED
      BY <2>2, <2>3, <3>1
  <2> QED
    BY <1>1, <2>1, <2>4
<1>3. Turns' /\ AppCalls'
  <2>1. Len(fromApp') = 0 /\ Len(toApp') = 0
    BY <1>2
  <2>2. call' = NONE
    BY <1>1
  <2> QED
    BY <1>2, <2>1, <2>2 DEF Turns, AppCalls
<1>4. Waiting'
  BY <1>1 DEF StackInv, Waiting, SocketsWait, RecordsWait, OneWaits, Waits, InProgress
<1>5. Sockets' /\ PortsApart' /\ TcpEnds'
  BY <1>1 DEF StackInv, Sockets, PortsApart, TcpEnds
<1> QED
  BY <1>3, <1>4, <1>5 DEF StackInv

LEMMA StackKept ==
    ASSUME CloseEnds, TypeOK, StackInv, [Next]_vars
    PROVE  StackInv'
<1>1. CASE Sock
  BY <1>1, RequestsKeep, WritesKeep, UdpStatusKeeps, TcpStatusKeeps
     DEF Sock, SockStep, ProcessTCPMessage, ProcessUDPMessage
<1>2. CASE Udp \/ Datagram \/ UNCHANGED vars
  <2>1. UNCHANGED <<app, call, sockVars, toTcp, fromTcp, tcps>>
    BY <1>2 DEF Udp, Datagram, vars, appVars, pipes
  <2> QED
    BY <2>1 DEF sockVars, StackInv, Turns, AppCalls, Waiting, SocketsWait, RecordsWait, OneWaits,
                Waits, InProgress, Sockets, PortsApart, TcpEnds
<1>3. CASE Tcp \/ Segment
  <2>1. UNCHANGED <<app, call, sockVars>>
    BY <1>3 DEF Tcp, Segment, appVars
  <2>2. TcpEnds'
    BY <1>3, <2>1, TcpKeepsEnds, SegmentKeepsEnds DEF Tcp, Segment, StackInv, sockVars
  <2> QED
    BY <2>1, <2>2 DEF sockVars, StackInv, Turns, AppCalls, Waiting, SocketsWait, RecordsWait,
                      OneWaits, Waits, InProgress, Sockets, PortsApart
<1> QED
  BY <1>1, <1>2, <1>3, CallKeeps, ReturnKeeps DEF Next

LEMMA StackBegins == Init => StackInv
<1> SUFFICES ASSUME Init PROVE StackInv
  OBVIOUS
<1>1. Turns /\ AppCalls /\ Waiting /\ TcpEnds
  BY DEF Init, SockInit, Free, Turns, AppCalls, Waiting, SocketsWait, RecordsWait, OneWaits, TcpEnds
<1>2. \A fd \in Fd : /\ socks[fd].status = "FREE" /\ socks[fd].conn = Unbound
  BY DEF Init, SockInit, Free
<1>3. Sockets /\ PortsApart
  BY <1>2, StackAssumption DEF Sockets, PortsApart, Unbound
<1> QED
  BY <1>1, <1>3 DEF StackInv

LEMMA StackInvariant == CloseEnds /\ Spec => [](TypeOK /\ StackInv)
<1> SUFFICES ASSUME CloseEnds PROVE Spec => [](TypeOK /\ StackInv)
  OBVIOUS
<1>1. TypeOK /\ StackInv /\ [Next]_vars => StackInv'
  BY StackKept
<1> QED
  BY <1>1, StackBegins, TypeCorrect, PTL DEF Spec

\* No answer of a lower module leaves a socket waiting that nobody waits for,
\* however many sockets there are and however they are used, as long as the
\* application does not go on after closing a TCP socket.
THEOREM SocketsPending == CloseEnds /\ Spec => []PendingSockets
<1>1. TypeOK /\ StackInv => PendingSockets
  <2> SUFFICES ASSUME TypeOK, StackInv PROVE PendingSockets
    OBVIOUS
  <2>1. ASSUME NEW fd \in Fd, socks[fd].status \in Pending
        PROVE  /\ call # NONE /\ call.fd = fd
               /\ call.type = WaitsFor[socks[fd].status]
    BY <2>1 DEF StackInv, Waiting, SocketsWait, InProgress, Pending, WaitsFor
  <2> QED
    BY <2>1 DEF PendingSockets, WaitsFor, StackInv, Turns
<1> QED
  BY <1>1, StackInvariant, PTL

\* Of two sockets with one port, one came from accept on the other.
THEOREM PortsUnique == CloseEnds /\ Spec => []UdpPortsUnique
<1>1. StackInv => UdpPortsUnique
  BY DEF StackInv, PortsApart, UdpPortsUnique
<1> QED
  BY <1>1, StackInvariant, PTL
-----------------------------------------------------------------------------
(***************************************************************************)
(* What the application sees is the socket service: each step of the stack *)
(* answers the call, or takes no part in the service.                      *)
(***************************************************************************)

SameOpen == \A k \in Fd : socks'[k].status = "FREE" <=> socks[k].status = "FREE"

LEMMA OpenKept ==
    ASSUME TypeOK, NEW fd \in Fd, socks[fd].status # "FREE",
           NEW st \in Statuses, NEW c,
           SetStatus(fd, st) \/ SetConn(fd, c, st) \/ UNCHANGED socks
    PROVE  SameOpen
<1>1. st # "FREE"
  BY DEF Statuses, Pending
<1>2. CASE SetStatus(fd, st)
  BY <1>1, <1>2 DEF SetStatus, TypeOK, SocksOK, SameOpen
<1>3. CASE SetConn(fd, c, st)
  BY <1>1, <1>3 DEF SetConn, TypeOK, SocksOK, SameOpen
<1> QED
  BY <1>2, <1>3 DEF SameOpen

LEMMA OpenClosed ==
    ASSUME TypeOK, NEW fd \in Fd, CloseSocket(fd)
    PROVE  /\ socks'[fd].status = "FREE"
           /\ \A k \in Fd \ {fd} : socks'[k].status = socks[k].status
  BY DEF CloseSocket, TypeOK, SocksOK, Free

LEMMA ServiceRests ==
    ASSUME UNCHANGED <<call, toApp>>, SameOpen
    PROVE  UNCHANGED Service!vars
<1>1. {fd \in Fd : socks'[fd].status # "FREE"} = {fd \in Fd : socks[fd].status # "FREE"}
  BY DEF SameOpen
<1> QED
  BY <1>1 DEF Service!vars

\* An answer where there was none.
LEMMA ReplySeen ==
    ASSUME TypeOK', toApp = <<>>, NEW fd, NEW n, NEW err, Reply(fd, n, err)
    PROVE  /\ toApp' # <<>> /\ Head(toApp') # NONE
           /\ Head(toApp').sockfd = fd /\ Head(toApp').error = err
<1> DEFINE m == [sockfd |-> fd, bytes |-> n, error |-> err]
<1>1. m.sockfd = fd /\ m.error = err /\ toApp' = Append(toApp, m)
  BY DEF Reply
<1> HIDE DEF m
<1>2. toApp' = <<m>> /\ Head(toApp') = m
  BY <1>1
<1>3. toApp' \in Seq(Replies) /\ toApp' # <<>>
  BY <1>2 DEF TypeOK, AppOK
<1>4. Head(toApp') \in Replies
  BY <1>3
<1> QED
  BY <1>1, <1>2, <1>3, <1>4, NoCallAssumption

LEMMA ServiceOpens ==
    ASSUME TypeOK', call # NONE, toApp = <<>>, UNCHANGED call,
           call.type \in {"mSOCKET", "mACCEPT"},
           NEW fd \in Fd, NEW n, Reply(fd, n, "EOK"),
           socks[fd].status = "FREE", socks'[fd].status # "FREE",
           \A k \in Fd \ {fd} : socks'[k].status = "FREE" <=> socks[k].status = "FREE"
    PROVE  Service!Next
<1>1. /\ toApp' # <<>> /\ Head(toApp') # NONE
      /\ Head(toApp').sockfd = fd /\ Head(toApp').error = "EOK"
  BY ReplySeen
<1>2. /\ fd \in Fd \ {k \in Fd : socks[k].status # "FREE"}
      /\ {k \in Fd : socks'[k].status # "FREE"} = {k \in Fd : socks[k].status # "FREE"} \cup {fd}
  OBVIOUS
<1> QED
  BY <1>1, <1>2 DEF Service!Next, Service!Answer, Service!Opened

LEMMA ServiceCloses ==
    ASSUME TypeOK', call # NONE, toApp = <<>>, UNCHANGED call, call.fd \in Fd,
           NEW n, NEW err, Reply(call.fd, n, err),
           \/ call.type = "mCLOSE" /\ err = "EOK"
           \/ call.type \in {"mBIND", "mCONNECT"} /\ err # "EOK",
           socks[call.fd].status # "FREE", socks'[call.fd].status = "FREE",
           \A k \in Fd \ {call.fd} : socks'[k].status = socks[k].status
    PROVE  Service!Next
<1>1. /\ toApp' # <<>> /\ Head(toApp') # NONE
      /\ Head(toApp').sockfd = call.fd /\ Head(toApp').error = err
  BY ReplySeen
<1>2. /\ call.fd \in {k \in Fd : socks[k].status # "FREE"}
      /\ {k \in Fd : socks'[k].status # "FREE"} = {k \in Fd : socks[k].status # "FREE"} \ {call.fd}
  OBVIOUS
<1> QED
  BY <1>1, <1>2 DEF Service!Next, Service!Answer, Service!Closed

LEMMA ServiceReplies ==
    ASSUME TypeOK', call # NONE, toApp = <<>>, UNCHANGED call,
           NEW fd \in {call.fd, 0}, NEW n, NEW err, Reply(fd, n, err),
           call.type \in {"mSOCKET", "mACCEPT", "mCLOSE"} => err # "EOK",
           SameOpen
    PROVE  Service!Next
<1>1. /\ toApp' # <<>> /\ Head(toApp') # NONE
      /\ Head(toApp').sockfd = fd /\ Head(toApp').error = err
  BY ReplySeen
<1>2. {k \in Fd : socks'[k].status # "FREE"} = {k \in Fd : socks[k].status # "FREE"}
  BY DEF SameOpen
<1> QED
  BY <1>1, <1>2 DEF Service!Next, Service!Answer

ServiceStep == Service!Next \/ UNCHANGED Service!vars

LEMMA RequestServed ==
    ASSUME TypeOK, TypeOK', StackInv, UNCHANGED <<appVars, tcps>>, ProcessAppRequest
    PROVE  ServiceStep
<1> USE DEF ServiceStep
<1>1. ASSUME NEW type, AppRequest(type)
      PROVE  /\ Head(fromApp) = call /\ call # NONE /\ call.type = type
             /\ toApp = <<>> /\ UNCHANGED call
             /\ type # "mSOCKET" => call.fd \in Fd
  BY <1>1, CallMade DEF appVars
<1>2. ASSUME NEW type \in DOMAIN ReadyStatus, AppRequest(type), Ready(Head(fromApp))
      PROVE  socks[call.fd].status # "FREE"
  BY <1>2, RequestReady
<1>3. UNCHANGED socks => SameOpen
  BY DEF SameOpen
<1>4. /\ {"UNBOUND", "BOUND", "LISTENING", "CONNECTED", "ACCEPT_PENDING", "CONNECT_PENDING",
          "READ_PENDING", "WRITE_PENDING"} \subseteq Statuses
      /\ {"mBIND", "mLISTEN", "mACCEPT", "mCONNECT", "mREAD", "mWRITE", "mCLOSE"}
            = DOMAIN ReadyStatus
  BY DEF Statuses, Pending, ReadyStatus
<1>5. CASE AppSocket
  <2>1. AppRequest("mSOCKET")
    BY <1>5 DEF AppSocket
  <2>2. ASSUME NEW fd \in Fd, IsFreeSock(fd), Reply(fd, 0, "EOK"), NEW c, SetConn(fd, c, "UNBOUND")
        PROVE  Service!Next
    <3>1. /\ socks[fd].status = "FREE" /\ socks'[fd].status # "FREE"
          /\ \A k \in Fd \ {fd} : socks'[k].status = "FREE" <=> socks[k].status = "FREE"
      BY <2>2 DEF IsFreeSock, SetConn, TypeOK, SocksOK
    <3> QED
      BY <1>1, <2>1, <2>2, <3>1, ServiceOpens
  <2>3. CASE UNCHANGED socks /\ Reply(call.fd, 0, "ERESOURCE_UNAVAIL")
    BY <1>1, <1>3, <2>1, <2>3, ServiceReplies
  <2> QED
    BY <1>1, <1>5, <2>1, <2>2, <2>3 DEF AppSocket
<1>6. CASE AppRefused \/ AppNoPort \/ AppDefault
  <2>1. PICK type, n, err :
          /\ AppRequest(type) /\ Reply(Head(fromApp).fd, n, err) /\ UNCHANGED socks
          /\ type \in {"mSOCKET", "mACCEPT", "mCLOSE"} => err # "EOK"
    BY <1>6 DEF AppRefused, AppNoPort, AppDefault
  <2> QED
    BY <1>1, <1>3, <2>1, ServiceReplies
<1>7. CASE AppListen
  <2>1. AppRequest("mLISTEN") /\ Ready(Head(fromApp))
    BY <1>7 DEF AppListen
  <2>2. call.fd \in Fd /\ socks[call.fd].status # "FREE"
    BY <1>1, <1>2, <1>4, <2>1
  <2>3. /\ \E err : Reply(0, 0, err) \/ Reply(call.fd, 0, err)
        /\ UNCHANGED socks \/ \E c : SetConn(call.fd, c, "LISTENING")
    BY <1>1, <1>7, <2>1 DEF AppListen
  <2>4. SameOpen
    BY <1>3, <1>4, <2>2, <2>3, OpenKept
  <2> QED
    BY <1>1, <2>1, <2>3, <2>4, ServiceReplies
<1>8. CASE AppBind
  <2>1. AppRequest("mBIND") /\ Ready(Head(fromApp))
    BY <1>8 DEF AppBind
  <2>2. call.fd \in Fd /\ socks[call.fd].status # "FREE"
    BY <1>1, <1>2, <1>4, <2>1
  <2>3. /\ UNCHANGED toApp \/ Reply(call.fd, 0, "EOK")
        /\ \E c : SetConn(call.fd, c, "UNBOUND") \/ SetConn(call.fd, c, "BOUND")
    BY <1>1, <1>8, <2>1 DEF AppBind
  <2>4. SameOpen
    BY <1>4, <2>2, <2>3, OpenKept
  <2> QED
    BY <1>1, <2>1, <2>3, <2>4, ServiceReplies, ServiceRests
<1>9. CASE AppAccept \/ AppConnect \/ AppWrite
  <2>1. PICK type \in DOMAIN ReadyStatus : AppRequest(type) /\ Ready(Head(fromApp))
    BY <1>4, <1>9 DEF AppAccept, AppConnect, AppWrite
  <2>2. call.fd \in Fd /\ socks[call.fd].status # "FREE"
    BY <1>1, <1>2, <1>4, <2>1
  <2>3. PICK st \in Statuses : SetStatus(call.fd, st) \/ \E c : SetConn(call.fd, c, st)
    BY <1>1, <1>4, <1>9, <2>1 DEF AppAccept, AppConnect, AppWrite
  <2>4. SameOpen
    BY <2>2, <2>3, OpenKept
  <2>5. UNCHANGED toApp
    BY <1>9 DEF AppAccept, AppConnect, AppWrite
  <2> QED
    BY <1>1, <2>1, <2>4, <2>5, ServiceRests
<1>10. CASE AppRead
  <2>1. AppRequest("mREAD") /\ Ready(Head(fromApp))
    BY <1>10 DEF AppRead
  <2>2. call.fd \in Fd /\ socks[call.fd].status # "FREE"
    BY <1>1, <1>2, <1>4, <2>1
  <2>3. /\ UNCHANGED toApp \/ \E n : Reply(call.fd, n, "EOK")
        /\ UNCHANGED socks \/ SetStatus(call.fd, "READ_PENDING")
    BY <1>1, <1>10, <2>1 DEF AppRead
  <2>4. SameOpen
    BY <1>3, <1>4, <2>2, <2>3, OpenKept
  <2> QED
    BY <1>1, <2>1, <2>3, <2>4, ServiceReplies, ServiceRests
<1>11. CASE AppClose
  <2>1. AppRequest("mCLOSE") /\ Ready(Head(fromApp))
    BY <1>11 DEF AppClose
  <2>2. call.fd \in Fd /\ socks[call.fd].status # "FREE"
    BY <1>1, <1>2, <1>4, <2>1
  <2>3. Reply(call.fd, 0, "EOK") /\ CloseSocket(call.fd)
    BY <1>1, <1>11, <2>1 DEF AppClose
  <2>4. /\ socks'[call.fd].status = "FREE"
        /\ \A k \in Fd \ {call.fd} : socks'[k].status = socks[k].status
    BY <2>2, <2>3, OpenClosed
  <2> QED
    BY <1>1, <2>1, <2>2, <2>3, <2>4, ServiceCloses
<1> QED
  BY <1>5, <1>6, <1>7, <1>8, <1>9, <1>10, <1>11 DEF ProcessAppRequest
LEMMA WriteServed ==
    ASSUME TypeOK, TypeOK', StackInv, UNCHANGED call, NEW fd \in Fd, NEW m,
           Deliver(fd, m) \/ Accepted(fd, m) \/ Connected(fd, m) \/ Refuse(m) \/ Unknown(m)
    PROVE  ServiceStep
<1> USE DEF ServiceStep
<1>1. ASSUME socks[fd].status \in {"ACCEPT_PENDING", "CONNECT_PENDING", "READ_PENDING"}
      PROVE  /\ call # NONE /\ call.fd = fd /\ toApp = <<>>
             /\ call.type = WaitsFor[socks[fd].status]
  BY <1>1, SocketAlone DEF InProgress
<1>2. {"LISTENING", "CONNECTED"} \subseteq Statuses
  BY DEF Statuses
<1>3. ASSUME NEW st \in {"LISTENING", "CONNECTED"}, SetStatus(fd, st), socks[fd].status # "FREE"
      PROVE  SameOpen
  BY <1>2, <1>3, OpenKept
<1>4. CASE Refuse(m) \/ Unknown(m)
  BY <1>4, ServiceRests DEF Refuse, Unknown, SameOpen
<1>5. CASE Deliver(fd, m)
  <2>1. CASE UNCHANGED toApp /\ socks' = [socks EXCEPT ![fd].bin = @ + Taken(fd, m)]
    <3>1. SameOpen
      BY <2>1 DEF SameOpen, TypeOK, SocksOK
    <3> QED
      BY <2>1, <3>1, ServiceRests
  <2>2. CASE /\ socks[fd].status = "READ_PENDING"
             /\ Reply(fd, m.bytes, m.error) /\ SetStatus(fd, "CONNECTED")
    <3>1. call # NONE /\ call.fd = fd /\ toApp = <<>> /\ call.type = "mREAD"
      BY <1>1, <2>2 DEF WaitsFor
    <3> QED
      BY <1>3, <2>2, <3>1, ServiceReplies
  <2> QED
    BY <1>5, <2>1, <2>2 DEF Deliver
<1>6. CASE Accepted(fd, m)
  <2>1. /\ call # NONE /\ call.fd = fd /\ toApp = <<>> /\ call.type = "mACCEPT"
        /\ socks[fd].status = "ACCEPT_PENDING"
    BY <1>1, <1>6 DEF WaitsFor, Accepted
  <2>2. CASE m.error # "EOK" /\ Reply(fd, m.bytes, m.error) /\ SetStatus(fd, "LISTENING")
    BY <1>3, <2>1, <2>2, ServiceReplies
  <2>3. CASE SetStatus(fd, "LISTENING") /\ UNCHANGED toApp
    BY <1>3, <2>1, <2>3, ServiceRests
  <2>4. ASSUME NEW new \in Fd, IsFreeSock(new), Reply(new, m.bytes, "EOK"),
               socks' = [socks EXCEPT ![fd].status = "LISTENING", ![new].conn = m.conn,
                                      ![new].status = "CONNECTED"]
        PROVE  Service!Next
    <3>1. /\ socks[new].status = "FREE" /\ socks'[new].status # "FREE"
          /\ \A k \in Fd \ {new} : socks'[k].status = "FREE" <=> socks[k].status = "FREE"
      BY <2>1, <2>4 DEF IsFreeSock, TypeOK, SocksOK
    <3> QED
      BY <2>1, <2>4, <3>1, ServiceOpens
  <2> QED
    BY <1>6, <2>2, <2>3, <2>4 DEF Accepted
<1>7. CASE Connected(fd, m)
  <2>1. /\ call # NONE /\ call.fd = fd /\ toApp = <<>> /\ call.type = "mCONNECT"
        /\ socks[fd].status = "CONNECT_PENDING" /\ Reply(fd, m.bytes, m.error)
    BY <1>1, <1>7 DEF WaitsFor, Connected
  <2>2. CASE SetStatus(fd, "CONNECTED")
    BY <1>3, <2>1, <2>2, ServiceReplies
  <2>3. CASE m.error # "EOK" /\ CloseSocket(fd)
    BY <2>1, <2>3, OpenClosed, ServiceCloses
  <2> QED
    BY <1>7, <2>2, <2>3 DEF Connected
<1> QED
  BY <1>4, <1>5, <1>6, <1>7

LEMMA MessageServed ==
    ASSUME TypeOK, TypeOK', StackInv, UNCHANGED <<appVars, tcps>>,
           ProcessTCPMessage \/ ProcessUDPMessage
    PROVE  ServiceStep
<1>1. UNCHANGED call
  BY DEF appVars
<1>2. CASE HandleTCPWrite
  <2> DEFINE m == Head(fromTcp)
  <2>1. PICK fd : \/ Unknown(m)
                  \/ fd \in Fd /\ (Deliver(fd, m) \/ Accepted(fd, m) \/ Connected(fd, m) \/ Refuse(m))
    BY <1>2 DEF HandleTCPWrite, IsFound
  <2>2. CASE Unknown(m)
    BY <1>1, <2>2, ServiceRests DEF Unknown, SameOpen, ServiceStep
  <2> HIDE DEF m
  <2> QED
    BY <1>1, <2>1, <2>2, WriteServed
<1>3. CASE HandleUDPWrite
  <2> DEFINE m == Head(fromUdp)
  <2>1. PICK fd : Unknown(m) \/ (fd \in Fd /\ (Deliver(fd, m) \/ Refuse(m)))
    BY <1>3 DEF HandleUDPWrite, IsFound
  <2>2. CASE Unknown(m)
    BY <1>1, <2>2, ServiceRests DEF Unknown, SameOpen, ServiceStep
  <2> HIDE DEF m
  <2> QED
    BY <1>1, <2>1, <2>2, WriteServed
<1>4. CASE HandleTCPStatus
  <2> DEFINE m == Head(fromTcp)
             r == Head(tcpq)
  <2>1. /\ tcpq # <<>> /\ fromTcp # <<>> /\ m.type = "STATUS"
        /\ tcpq \in Seq(RequestRecord) /\ fromTcp \in Seq(Srrs)
    BY <1>4, RecordSocket DEF HandleTCPStatus, TypeOK, PipesOK
  <2>2. 1 \in DOMAIN tcpq /\ r = tcpq[1] /\ r.sock \in Fd
    BY <2>1, RecordTaken, RecordSocket
  <2>3. m.error = "EOK"
    <3>1. 1 \in DOMAIN fromTcp /\ m = fromTcp[1]
      BY <2>1
    <3> QED
      BY <2>1, <3>1 DEF StackInv, TcpEnds
  <2>4. CASE r.type # "WRITE"
    <3>1. UNCHANGED <<socks, toApp>>
      BY <1>4, <2>3, <2>4 DEF HandleTCPStatus
    <3> QED
      BY <1>1, <3>1, ServiceRests DEF SameOpen, ServiceStep
  <2>5. CASE r.type = "WRITE"
    <3>1. InProgress(r.sock, {"mWRITE"}) /\ socks[r.sock].status # "FREE"
      BY <2>2, <2>5, TcpRecordAlone
    <3>2. Reply(r.sock, m.bytes, m.error) /\ SetStatus(r.sock, "CONNECTED")
      BY <1>4, <2>5 DEF HandleTCPStatus
    <3> HIDE DEF r, m
    <3>3. SameOpen
      BY <2>2, <3>1, <3>2, OpenKept DEF Statuses
    <3> QED
      BY <1>1, <3>1, <3>2, <3>3, ServiceReplies DEF InProgress, ServiceStep
  <2> QED
    BY <2>4, <2>5
<1>5. CASE HandleUDPStatus
  <2> DEFINE m == Head(fromUdp)
             r == Head(udpq)
  <2>1. 1 \in DOMAIN udpq /\ r = udpq[1] /\ r.sock \in Fd
    <3>1. udpq # <<>> /\ udpq \in Seq(RequestRecord)
      BY <1>5, RecordSocket DEF HandleUDPStatus
    <3> QED
      BY <3>1, RecordTaken, RecordSocket
  <2>2. CASE r.type = "CLOSE"
    <3>1. UNCHANGED <<socks, toApp>>
      BY <1>5, <2>2 DEF HandleUDPStatus
    <3> QED
      BY <1>1, <3>1, ServiceRests DEF SameOpen, ServiceStep
  <2>3. CASE r.type # "CLOSE"
    <3>1. /\ r.type \in {"FORWARD", "WRITE"}
          /\ r.type = "FORWARD" => InProgress(r.sock, {"mBIND", "mCONNECT"})
          /\ r.type = "WRITE" => InProgress(r.sock, {"mWRITE"})
          /\ socks[r.sock].status # "FREE"
      BY <2>1, <2>3, UdpRecordAlone
    <3>2. /\ call # NONE /\ call.fd = r.sock /\ toApp = <<>>
          /\ r.type = "FORWARD" => call.type \in {"mBIND", "mCONNECT"}
          /\ r.type = "WRITE" => call.type = "mWRITE"
      BY <3>1 DEF InProgress
    <3>3. Reply(r.sock, m.bytes, m.error)
      BY <1>5, <2>3 DEF HandleUDPStatus
    <3>4. CASE \E st \in {"CONNECTED", "BOUND"} : SetStatus(r.sock, st)
      <4> HIDE DEF r, m
      <4>1. SameOpen
        BY <2>1, <3>1, <3>4, OpenKept DEF Statuses
      <4> QED
        BY <1>1, <3>1, <3>2, <3>3, <4>1, ServiceReplies DEF ServiceStep
    <3>5. CASE r.type = "FORWARD" /\ m.error # "EOK" /\ CloseSocket(r.sock)
      <4> HIDE DEF r, m
      <4> QED
        BY <1>1, <2>1, <3>1, <3>2, <3>3, <3>5, OpenClosed, ServiceCloses DEF ServiceStep
    <3>6. \/ \E st \in {"CONNECTED", "BOUND"} : SetStatus(r.sock, st)
          \/ r.type = "FORWARD" /\ m.error # "EOK" /\ CloseSocket(r.sock)
      BY <1>5, <2>3 DEF HandleUDPStatus, StatusByDest
    <3> QED
      BY <3>4, <3>5, <3>6
  <2> QED
    BY <2>2, <2>3
<1> QED
  BY <1>2, <1>3, <1>4, <1>5 DEF ProcessTCPMessage, ProcessUDPMessage

LEMMA StepServed ==
    ASSUME TypeOK, TypeOK', StackInv, [Next]_vars
    PROVE  [Service!Next]_Service!vars
<1>1. CASE Call
  <2>1. PICK r \in Requests : call' = r
    BY <1>1 DEF Call
  <2>2. /\ call = NONE /\ call' # NONE /\ toApp = <<>>
        /\ UNCHANGED <<toApp, socks>>
    BY <1>1, <2>1, RequestsTyped DEF Call, StackInv, Turns
  <2> QED
    BY <2>2 DEF Service!Next, Service!Call
<1>2. CASE Return
  <2>1. /\ toApp # <<>> /\ call' = NONE /\ UNCHANGED socks /\ toApp' = Tail(toApp)
    BY <1>2 DEF Return
  <2>2. Head(toApp) # NONE
    <3>1. Head(toApp) \in Replies
      BY <2>1 DEF TypeOK, AppOK
    <3> QED
      BY <3>1, NoCallAssumption
  <2>3. toApp' = <<>>
    <3>1. fromApp \in Seq(LibraryCall) /\ toApp \in Seq(Replies)
      BY DEF TypeOK, AppOK
    <3>2. Len(fromApp) \in Nat /\ Len(toApp) \in Nat /\ Len(toApp) # 0
      BY <2>1, <3>1
    <3>3. Len(fromApp) + Len(toApp) <= 1
      BY DEF StackInv, Turns
    <3>4. \A a, b \in Nat : b # 0 /\ a + b <= 1 => b = 1
      OBVIOUS
    <3>5. Len(toApp) = 1
      BY <3>2, <3>3, <3>4
    <3> QED
      BY <2>1, <3>1, <3>5
  <2> QED
    BY <2>1, <2>2, <2>3 DEF Service!Next, Service!Return
<1>3. CASE Sock
  BY <1>3, RequestServed, MessageServed DEF Sock, SockStep, ServiceStep
<1>4. CASE Udp \/ Tcp \/ Datagram \/ Segment \/ UNCHANGED vars
  <2>1. UNCHANGED <<call, toApp, socks>>
    BY <1>4 DEF Udp, Tcp, Datagram, Segment, appVars, sockVars, vars
  <2> QED
    BY <2>1, ServiceRests DEF SameOpen
<1> QED
  BY <1>1, <1>2, <1>3, <1>4 DEF Next

\* The stack implements the socket service: each call gets one answer, and the
\* set of open sockets changes only with an answer, as the call asks.
THEOREM ServiceImplemented == CloseEnds /\ Spec => Implements
<1>1. Init => Service!Init
  BY DEF Init, SockInit, Free, Service!Init
<1>2. TypeOK /\ TypeOK' /\ StackInv /\ [Next]_vars => [Service!Next]_Service!vars
  BY StepServed
<1> QED
  BY <1>1, <1>2, StackInvariant, PTL DEF Spec, Implements, Service!Spec
=============================================================================
