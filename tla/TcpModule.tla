----------------------------- MODULE TcpModule ------------------------------
(***************************************************************************)
(* core/tcp_module.cc: one TCP host, with libminet/tcpstate.cc.            *)
(*                                                                         *)
(* The module is a single-threaded loop: it takes one event (a segment     *)
(* from the IP mux, a request from the sock module, or the Timeout that    *)
(* MinetGetNextEvent reports after 5 idle seconds), runs its handler to    *)
(* completion and takes the next.  An action below is one handler; mux and *)
(* sock are what that handler handed to the IP mux (a set of segments) and *)
(* to the sock module (a sequence of messages).  A segment or request that *)
(* no action accepts changes nothing in the code.                          *)
(*                                                                         *)
(* The walk over expired timers and the recursion of sendLastN are taken   *)
(* one round at a time (checking, resend); no event is taken in between.   *)
(*                                                                         *)
(* Time is counted in the 5-second periods of the event loop: deadlines    *)
(* set between two Timeout events are equal.  Sequence numbers, windows    *)
(* and counters are unsigned and wrap at SEQ_MOD.                          *)
(***************************************************************************)
EXTENDS ConnectionList, Integers

CONSTANTS
    Locals, Remotes,   \* endpoints of this machine and of its peers
    Bytes,             \* payload bytes
    SEQ_MOD,           \* 2^32
    MSS, N,            \* TCP_MAXIMUM_SEGMENT_SIZE and the send window N
    BUFFER_SIZE,       \* TCP_BUFFER_SIZE
    WINDOW,            \* the window every segment but a FIN announces, 10000
    ISN_ACCEPT,        \* 300, tcp_module.cc:151
    ISN_CONNECT,       \* 500, tcp_module.cc:225
    TRIES,             \* 500 timer tries
    TIME_WAIT_TICKS,   \* 2 * MSL_TIME_SECS in 5-second periods
    \* inputs and bounds
    Segments,          \* segments the network may deliver
    Writes,            \* payloads of WRITE requests
    MaxTime, MaxConns, MaxBuffer

Seq32 == 0..(SEQ_MOD - 1)

Flags == {{"SYN"}, {"SYN", "ACK"}, {"ACK"}, {"FIN", "ACK"}, {"FIN"}}

Conns == [src : Locals \cup {ANY}, dest : Remotes \cup {ANY}]

Segment == [conn : Conns, flags : Flags, seq : Seq32, ack : Seq32,
            win : Seq32, data : Seq(Bytes)]

\* A segment names both of its ends; one that carries SYN or FIN carries no
\* payload: Minet's own peers build these without one.
ASSUME ConstAssumption ==
    /\ SEQ_MOD \in Nat /\ SEQ_MOD > 1
    /\ ANY \notin Locals \cup Remotes
    /\ MSS \in Seq32 /\ N \in Seq32 /\ N > 0 /\ WINDOW \in Seq32
    /\ BUFFER_SIZE \in Seq32
    /\ ISN_ACCEPT \in Seq32 /\ ISN_CONNECT \in Seq32
    /\ TRIES \in Nat /\ TRIES > 0
    /\ TIME_WAIT_TICKS \in Nat
    /\ MaxTime \in Nat /\ MaxConns \in Nat /\ MaxBuffer \in Nat
    /\ \A s \in Segments : s \in Segment /\ s.conn \in [src : Locals, dest : Remotes]
    /\ \A s \in Segments : s.flags # {"ACK"} => s.data = <<>>
    /\ \A w \in Writes : w \in Seq(Bytes)

VARIABLES
    listening, \* the local endpoints that the sock module bound to listening
               \* sockets; fixed, but any choice of them
    clist,     \* ConnectionList<TCPState>
    now,       \* 5-second periods since start
    checking,  \* inside checkForTimedOutConnection
    resend,    \* to_send of a sendLastN still recursing, for the first entry
    mux, sock, \* what the last handler sent down and up
    fault      \* "undefined" after a dereference of end(), "diverges" once
               \* sendLastN recurses without end

vars == <<listening, clist, now, checking, resend, mux, sock, fault>>

States == {"CLOSED", "LISTEN", "SYN_RCVD", "SYN_SENT", "ESTABLISHED", "SEND_DATA",
           "CLOSE_WAIT", "FIN_WAIT1", "CLOSING", "LAST_ACK", "FIN_WAIT2", "TIME_WAIT"}

Entry == [conn : Conns, st : States, tmr : BOOLEAN, due : Nat, tries : Nat,
          acked : Seq32, sent : Seq32, rwnd : Seq32, snd : Seq(Bytes),
          rcvd : Seq32, rcv : Seq(Bytes)]

Messages == [type : {"WRITE"}, conn : Conns, data : Seq(Bytes)]
       \cup [type : {"STATUS"}, bytes : Nat]
       \cup [type : {"STATUS"}, error : {"EOK", "-1"}]
-----------------------------------------------------------------------------
\* Mutant: arithmetic that never wraps.
WrapNever(x) == x

Wrap(x) == x % SEQ_MOD

MIN_MACRO(x, y) == IF x < y THEN x ELSE y

\* Buffer::ExtractFront and Buffer::Erase(0, n) stop at the end of the buffer.
DropFront(s, n) == SubSeq(s, n + 1, Len(s))

TakeFront(s, n) == SubSeq(s, 1, MIN_MACRO(n, Len(s)))

\* TCPState::SetLastAcked: the bytes it accepts leave the send buffer.
Acknowledges(e, newack) ==
    IF e.acked <= e.sent
    THEN newack > e.acked /\ newack <= Wrap(e.sent + 1)
    ELSE \/ newack > e.acked /\ newack > e.sent
         \/ newack < e.acked /\ newack <= Wrap(e.sent + 1)

SetLastAcked(e, newack) ==
    IF Acknowledges(e, newack)
    THEN [e EXCEPT !.snd = DropFront(@, Wrap(newack - e.acked)),
                   !.acked = Wrap(newack - 1)]
    ELSE e

GetRwnd(e) == Wrap(BUFFER_SIZE - Len(e.rcv))

Offset(e) == Wrap(e.sent - e.acked)

\* Mutant: the receiver's window alone limits a segment.
PayloadSizeWithoutN(e, bytes) ==
    MIN_MACRO(MIN_MACRO(Wrap(e.rwnd - Offset(e)), bytes), MSS)

\* TCPState::SendPacketPayload: the subtractions are unsigned.
PayloadSize(e, bytes) ==
    MIN_MACRO(MIN_MACRO(MIN_MACRO(Wrap(e.rwnd - Offset(e)), Wrap(N - Offset(e))),
                        bytes), MSS)

\* Mutant: the timer is set but not activated.
UpdatedUnarmed(e, st, newack, sent, rcvd, win) ==
    [SetLastAcked([e EXCEPT !.sent = sent], newack) EXCEPT
        !.st = st, !.rcvd = rcvd, !.rwnd = win, !.due = now + 1, !.tries = TRIES]

\* updateConnectionStateMapping; last_sent is set before last_acked.
Updated(e, st, newack, sent, rcvd, win) ==
    [SetLastAcked([e EXCEPT !.sent = sent], newack) EXCEPT
        !.st = st, !.rcvd = rcvd, !.rwnd = win,
        !.due = now + 1, !.tries = TRIES, !.tmr = TRUE]

Seg(c, flags, seq, ack, win, data) ==
    [conn |-> c, flags |-> flags, seq |-> seq, ack |-> ack, win |-> win, data |-> data]

SynAck(c, e) == Seg(c, {"SYN", "ACK"}, e.sent, e.rcvd, WINDOW, <<>>)

Syn(c, e) == Seg(c, {"SYN"}, e.sent, 0, WINDOW, <<>>)

\* sendFin: nothing is sent while the send buffer holds data.
Fin(c, e) == IF e.snd = <<>>
             THEN {Seg(c, {"FIN", "ACK"}, Wrap(e.acked + 1), e.rcvd, GetRwnd(e), <<>>)}
             ELSE {}

WriteMsg(c, data) == [type |-> "WRITE", conn |-> c, data |-> data]

\* Mutant: the sock module is not told of a new connection.
NewConnectionKept(c) == <<>>

\* sendNewConnectionToSocket: an empty WRITE.
NewConnection(c) == <<WriteMsg(c, <<>>)>>

\* The STATUS for a WRITE counts bytes (its error is EOK); every other one leaves
\* its bytes uninitialised, shown here by having no such field.
BytesMsg(bytes) == [type |-> "STATUS", bytes |-> bytes]

StatusMsg(error) == [type |-> "STATUS", error |-> error]

Emit(segs, msgs) == mux' = segs /\ sock' = msgs

\* The module waits for its next event.
Ready == ~ checking /\ fault = "none"

Handled == UNCHANGED <<listening, now, checking, resend, fault>>
-----------------------------------------------------------------------------
(***************************************************************************)
(* Segments from the IP mux.                                               *)
(***************************************************************************)

\* handleAck, case SYN_RCVD.
Established(e, s) ==
    [SetLastAcked(e, s.ack) EXCEPT !.st = "ESTABLISHED", !.tmr = FALSE]

\* A SYN that reaches a listener: sendSynAck and addSynAckMapping.  If the SYN
\* also carries an ACK, handleAck then finds the new entry.
SynRcvd(s) ==
    [conn |-> s.conn, st |-> "SYN_RCVD", tmr |-> TRUE, due |-> now + 1, tries |-> TRIES,
     acked |-> ISN_ACCEPT, sent |-> ISN_ACCEPT, rwnd |-> s.win, snd |-> <<>>,
     rcvd |-> Wrap(s.seq + 1), rcv |-> <<>>]

RecvSyn(s) ==
    LET e == SynRcvd(s)
        accepted == "ACK" \in s.flags /\ s.ack = Wrap(e.sent + 1)
    IN  /\ "SYN" \in s.flags
        /\ Len(clist) < MaxConns
        /\ \E i \in DOMAIN clist : IsFirstMatch(clist, s.conn, i) /\ clist[i].st = "LISTEN"
        /\ clist' = <<IF accepted THEN Established(e, s) ELSE e>> \o clist
        /\ Emit({SynAck(s.conn, e)}, IF accepted THEN NewConnection(s.conn) ELSE <<>>)
        /\ Handled

\* Mutant: the sequence number of a payload is not compared.
InAnyOrder(e, s) == s.data # <<>> /\ s.ack = Wrap(e.sent + 1)

\* handleAck, case ESTABLISHED: what an entry e becomes on the payload of s.
\* A payload in order whose ACK is not last_sent + 1 is dropped in silence.
InOrder(e, s) == s.data # <<>> /\ s.seq = e.rcvd /\ s.ack = Wrap(e.sent + 1)

OutOfOrder(e, s) == s.data # <<>> /\ s.seq # e.rcvd

AfterData(e, s) ==
    IF InOrder(e, s)
    THEN [Updated(e, e.st, s.ack, e.sent, Wrap(s.seq + Len(s.data)), s.win)
             EXCEPT !.rcv = @ \o s.data]
    ELSE e

DataAck(e, s) ==
    IF InOrder(e, s) \/ OutOfOrder(e, s)
    THEN {Seg(s.conn, {"ACK"}, Wrap(e.sent + 1), AfterData(e, s).rcvd, WINDOW, <<>>)}
    ELSE {}

\* sendDataToSocket passes on the whole receive buffer.
DataUp(e, s) == IF InOrder(e, s) THEN <<WriteMsg(s.conn, AfterData(e, s).rcv)>> ELSE <<>>

Fits(e, s) == Len(e.rcv) + Len(s.data) <= MaxBuffer

\* main filters FIN segments out before handleAck.
IsAck(s, i) ==
    /\ "ACK" \in s.flags /\ "FIN" \notin s.flags
    /\ IsFirstMatch(clist, s.conn, i)

AckSynRcvd(s) == \E i \in DOMAIN clist :
    LET e == Established(clist[i], s)
    IN  /\ IsAck(s, i)
        /\ clist[i].st = "SYN_RCVD"
        /\ s.ack = Wrap(clist[i].sent + 1)
        /\ Fits(e, s)
        /\ clist' = ToFront(clist, i, AfterData(e, s))
        /\ Emit(DataAck(e, s), NewConnection(s.conn) \o DataUp(e, s))
        /\ Handled

\* handleAck, case SEND_DATA: a higher ACK slides the window; then as ESTABLISHED.
Slides(e, s) == e.st = "SEND_DATA" /\ s.ack > e.acked

AfterAck(e, s) ==
    IF Slides(e, s)
    THEN Updated(e, "SEND_DATA", Wrap(s.ack - 1), e.sent, e.rcvd, s.win)
    ELSE e

AckEstablished(s) == \E i \in DOMAIN clist :
    LET e == AfterAck(clist[i], s)
    IN  /\ IsAck(s, i)
        /\ e.st \in {"ESTABLISHED", "SEND_DATA"}
        /\ Fits(e, s)
        /\ IF Slides(clist[i], s) \/ InOrder(e, s)
           THEN clist' = ToFront(clist, i, AfterData(e, s))
           ELSE clist' = clist
        /\ Emit(DataAck(e, s), DataUp(e, s))
        /\ Handled

\* case SYN_SENT: the connection request has been accepted.
Connected(e, s) == Updated(e, "ESTABLISHED", s.ack, s.ack, Wrap(s.seq + 1), s.win)

AckSynSent(s) == \E i \in DOMAIN clist :
    /\ IsAck(s, i)
    /\ clist[i].st = "SYN_SENT" /\ "SYN" \in s.flags
    /\ s.ack = Wrap(clist[i].sent + 1)
    /\ clist' = ToFront(clist, i, Connected(clist[i], s))
    /\ Emit({Seg(s.conn, {"ACK"}, s.ack, Wrap(s.seq + 1), WINDOW, <<>>)},
            NewConnection(s.conn))
    /\ Handled

\* case FIN_WAIT1: any ACK moves on once the send buffer is empty.
AckFinWait1(s) == \E i \in DOMAIN clist :
    /\ IsAck(s, i)
    /\ clist[i].st = "FIN_WAIT1" /\ clist[i].snd = <<>>
    /\ clist' = ToFront(clist, i, [clist[i] EXCEPT !.st = "FIN_WAIT2"])
    /\ Emit({}, <<>>)
    /\ Handled

\* case LAST_ACK: any ACK closes and erases the connection.
AckLastAck(s) == \E i \in DOMAIN clist :
    /\ IsAck(s, i)
    /\ clist[i].st = "LAST_ACK"
    /\ clist' = Without(clist, i)
    /\ Emit({}, <<>>)
    /\ Handled

\* A FIN.  Whatever its sequence number, it is acknowledged and reported.
AfterFin(e) ==
    CASE e.st \in {"ESTABLISHED", "SYN_RCVD", "SEND_DATA"} -> [e EXCEPT !.st = "CLOSE_WAIT"]
      [] e.st = "FIN_WAIT1" -> [e EXCEPT !.st = "CLOSING"]
      [] e.st = "FIN_WAIT2" -> [e EXCEPT !.st = "TIME_WAIT", !.tmr = TRUE, !.tries = 1,
                                         !.due = now + TIME_WAIT_TICKS]
      [] OTHER -> e

RecvFin(s) == \E i \in DOMAIN clist :
    /\ "FIN" \in s.flags
    /\ IsFirstMatch(clist, s.conn, i)
    /\ clist[i].st \notin {"CLOSED", "LISTEN", "SYN_SENT"}
    /\ clist' = ToFront(clist, i, [AfterFin(clist[i]) EXCEPT !.rcvd = Wrap(@ + 1)])
    /\ Emit({Seg(s.conn, {"ACK"}, s.ack, Wrap(s.seq + 1), s.win, <<>>)},
            <<WriteMsg(s.conn, <<>>)>>)
    /\ Handled

\* A FIN for no connection dereferences end(): nothing is claimed afterwards.
RecvStrayFin(s) ==
    /\ "FIN" \in s.flags
    /\ NoMatch(clist, s.conn)
    /\ fault' = "undefined"
    /\ Emit({}, <<>>)
    /\ UNCHANGED <<listening, clist, now, checking, resend>>
-----------------------------------------------------------------------------
(***************************************************************************)
(* Requests from the sock module.                                          *)
(***************************************************************************)

\* A listener's TCPState is left uninitialised.  What is 0 here shows only in the
\* numbers of the FIN of a closed listener, which no property reads.
Listener(c) ==
    [conn |-> c, st |-> "LISTEN", tmr |-> FALSE, due |-> now, tries |-> 0,
     acked |-> 0, sent |-> 0, rwnd |-> 0, snd |-> <<>>, rcvd |-> 0, rcv |-> <<>>]

\* addAcceptSocketConnection: the first match, whatever it is, makes room.
SockAccept(c) ==
    /\ \/ /\ NoMatch(clist, c)
          /\ Len(clist) < MaxConns
          /\ clist' = Append(clist, Listener(c))
       \/ \E i \in DOMAIN clist :
             /\ IsFirstMatch(clist, c, i)
             /\ clist' = Append(Without(clist, i), Listener(c))
    /\ Emit({}, <<StatusMsg("EOK")>>)
    /\ Handled

\* addActiveOpenConnection.
SynSent(c) ==
    [Listener(c) EXCEPT !.st = "SYN_SENT", !.tmr = TRUE, !.due = now + 1,
        !.tries = TRIES, !.acked = ISN_CONNECT, !.sent = ISN_CONNECT]

SockConnect(c) ==
    /\ Len(clist) < MaxConns
    /\ clist' = <<SynSent(c)>> \o clist
    /\ Emit({Syn(c, SynSent(c))}, <<StatusMsg("EOK")>>)
    /\ Handled

\* FORWARD is only acknowledged.
SockForward ==
    /\ Emit({}, <<StatusMsg("EOK")>>)
    /\ UNCHANGED clist
    /\ Handled

\* handleSocketStatus: the sock module took n bytes.
SockStatus(c, n) == \E i \in DOMAIN clist :
    /\ IsFirstMatch(clist, c, i)
    /\ clist' = ToFront(clist, i, [clist[i] EXCEPT !.rcv = DropFront(@, n)])
    /\ Emit({}, <<>>)
    /\ Handled

\* sendDataFromSocket: the segment carries at most PayloadSize bytes of data,
\* the send buffer takes all of it, the STATUS reports what the segment carries.
Queued(e, data) ==
    LET newack == IF e.st = "ESTABLISHED" THEN Wrap(e.acked - 1) ELSE e.acked
        sent == Wrap(e.sent + PayloadSize(e, Len(data)))
    IN  [Updated(e, "SEND_DATA", newack, sent, e.rcvd, e.rwnd) EXCEPT !.snd = @ \o data]

Queue(i, c, data) ==
    LET e == clist[i]
        q == PayloadSize(e, Len(data))
    IN  /\ e.st \in {"ESTABLISHED", "SEND_DATA"}
        /\ Len(e.snd) + Len(data) <= MaxBuffer
        /\ clist' = ToFront(clist, i, Queued(e, data))
        /\ Emit({Seg(c, {"ACK"}, e.sent, e.rcvd, WINDOW, TakeFront(data, q))},
                <<BytesMsg(q)>>)

\* WRITE.  A write before the handshake is over, after a FIN has come or to no
\* connection gets no answer at all.
SockWrite(c, data) ==
    /\ \/ \E i \in DOMAIN clist :
             /\ IsFirstMatch(clist, c, i)
             /\ \/ Queue(i, c, data)
                \/ /\ clist[i].st \in {"FIN_WAIT1", "FIN_WAIT2", "CLOSING", "LAST_ACK",
                                       "TIME_WAIT"}
                   /\ Emit({}, <<StatusMsg("-1")>>)
                   /\ UNCHANGED clist
                \/ /\ clist[i].st \in {"CLOSED", "LISTEN", "SYN_RCVD", "SYN_SENT", "CLOSE_WAIT"}
                   /\ Emit({}, <<>>)
                   /\ UNCHANGED clist
       \/ NoMatch(clist, c) /\ Emit({}, <<>>) /\ UNCHANGED clist
    /\ Handled

\* CLOSE: sendFin, then LAST_ACK or FIN_WAIT1 whether or not a FIN went out.
AfterClose(e) == [e EXCEPT !.st = IF @ = "CLOSE_WAIT" THEN "LAST_ACK" ELSE "FIN_WAIT1"]

SockClose(c) == \E i \in DOMAIN clist :
    /\ IsFirstMatch(clist, c, i)
    /\ clist[i].st # "LAST_ACK"
    /\ clist' = ToFront(clist, i, AfterClose(clist[i]))
    /\ Emit(Fin(c, clist[i]), <<>>)
    /\ Handled

\* A CLOSE for no connection dereferences end().
SockStrayClose(c) ==
    /\ NoMatch(clist, c)
    /\ fault' = "undefined"
    /\ Emit({}, <<>>)
    /\ UNCHANGED <<listening, clist, now, checking, resend>>
-----------------------------------------------------------------------------
(***************************************************************************)
(* Timers.                                                                 *)
(***************************************************************************)

\* MinetGetNextEvent(event, 5.0) found nothing for 5 seconds.
Timeout ==
    /\ Ready
    /\ now < MaxTime
    /\ now' = now + 1
    /\ checking' = TRUE
    /\ Emit({}, <<>>)
    /\ UNCHANGED <<listening, clist, resend, fault>>

\* One round of checkForTimedOutConnection finds entry i expired.
Expired(i) ==
    /\ fault = "none" /\ checking /\ resend = <<>>
    /\ IsEarliest(clist, i) /\ clist[i].due <= now

\* Mutant: the deadline and the tries of an expired timer are left as they are.
RearmedNow(e) == [e EXCEPT !.due = now]

Rearmed(e) == [e EXCEPT !.tries = @ - 1, !.due = now + 1]

GiveUp == \E i \in DOMAIN clist :
    /\ Expired(i)
    /\ clist[i].tries = 0
    /\ clist' = Without(clist, i)
    /\ Emit({}, <<>>)
    /\ Handled

\* SYN_RCVD and SYN_SENT send again; a drained FIN_WAIT1 or CLOSE_WAIT sends its
\* FIN, and CLOSE_WAIT then enters LAST_ACK.
Retransmission(e) ==
    CASE e.st = "SYN_RCVD" -> {SynAck(e.conn, e)}
      [] e.st = "SYN_SENT" -> {Syn(e.conn, e)}
      [] e.st \in {"FIN_WAIT1", "CLOSE_WAIT"} -> Fin(e.conn, e)
      [] OTHER -> {}

MustResend(e) ==
    e.st = "SEND_DATA" \/ (e.st \in {"FIN_WAIT1", "CLOSE_WAIT"} /\ e.snd # <<>>)

AfterRetry(e) == IF e.st = "CLOSE_WAIT" THEN [e EXCEPT !.st = "LAST_ACK"] ELSE e

Retry == \E i \in DOMAIN clist :
    LET e == Rearmed(clist[i])
    IN  /\ Expired(i)
        /\ e.tries >= 0 /\ e.st # "TIME_WAIT" /\ ~ MustResend(e)
        /\ clist' = ToFront(clist, i, AfterRetry(e))
        /\ Emit(Retransmission(e), <<>>)
        /\ Handled

\* sendLastN sends the first bytes of to_send from the front entry e, and adds
\* what is left to the send buffer again.
SendLastN(e, rest, tosend) ==
    LET q == PayloadSize(e, Len(tosend))
        left == DropFront(tosend, q)
    IN  /\ clist' = <<[e EXCEPT !.snd = @ \o left]>> \o rest
        /\ Emit({Seg(e.conn, {"ACK"}, Wrap(e.acked + Len(left) + 2), e.rcvd, WINDOW,
                     TakeFront(tosend, q))}, <<>>)
        /\ resend' = left
        /\ fault' = IF left # <<>> /\ q = 0 THEN "diverges" ELSE fault
        /\ UNCHANGED <<listening, now, checking>>

ResendFirst == \E i \in DOMAIN clist :
    LET e == Rearmed(clist[i])
    IN  /\ Expired(i)
        /\ e.tries >= 0 /\ MustResend(e)
        /\ SendLastN(e, Without(clist, i), e.snd)

ResendNext ==
    /\ fault = "none" /\ resend # <<>>
    /\ SendLastN(Head(clist), Tail(clist), resend)

\* TIME_WAIT erases through the iterator that erase and push_front invalidated.
\* It still points at the place that held entry i.  std::deque::erase closes the
\* gap from the nearer end: if that was the front, the place now holds the entry
\* before i (the copy itself if i was first), else the entry after i or, past the
\* end, erase takes the last one.
StalePlace(i) ==
    IF i - 1 < Len(clist) \div 2 THEN i ELSE MIN_MACRO(i + 1, Len(clist))

TimeWaitOver == \E i \in DOMAIN clist :
    /\ Expired(i)
    /\ clist[i].tries > 0 /\ clist[i].st = "TIME_WAIT"
    /\ clist' = Without(ToFront(clist, i, Rearmed(clist[i])), StalePlace(i))
    /\ Emit({}, <<>>)
    /\ Handled

\* No timer is expired: back to the event loop.
TimersChecked ==
    /\ fault = "none" /\ checking /\ resend = <<>>
    /\ \A i \in DOMAIN clist : ~ Expired(i)
    /\ checking' = FALSE
    /\ Emit({}, <<>>)
    /\ UNCHANGED <<listening, clist, now, resend, fault>>
-----------------------------------------------------------------------------
Init ==
    /\ listening \in SUBSET Locals
    /\ clist = <<>>
    /\ now = 0
    /\ checking = FALSE
    /\ resend = <<>>
    /\ mux = {}
    /\ sock = <<>>
    /\ fault = "none"

RecvSegment(s) ==
    /\ Ready
    /\ \/ RecvSyn(s)
       \/ AckSynRcvd(s)
       \/ AckEstablished(s)
       \/ AckSynSent(s)
       \/ AckFinWait1(s)
       \/ AckLastAck(s)
       \/ RecvFin(s)
       \/ RecvStrayFin(s)

\* The sock module listens on a wildcard remote end, connects from a port that no
\* other socket has, writes on fully bound connections, and closes either.
Closable == [src : Locals, dest : Remotes] \cup [src : listening, dest : {ANY}]

SockRequest ==
    /\ Ready
    /\ \/ \E p \in listening : SockAccept([src |-> p, dest |-> ANY])
       \/ \E p \in Locals \ listening, r \in Remotes :
             NoMatch(clist, [src |-> p, dest |-> ANY]) /\ SockConnect([src |-> p, dest |-> r])
       \/ SockForward
       \/ \E p \in Locals, r \in Remotes, n \in 0..MaxBuffer : SockStatus([src |-> p, dest |-> r], n)
       \/ \E p \in Locals, r \in Remotes, w \in Writes : SockWrite([src |-> p, dest |-> r], w)
       \/ \E c \in Closable : SockClose(c)
       \/ \E c \in Closable : SockStrayClose(c)

CheckTimers == GiveUp \/ Retry \/ ResendFirst \/ ResendNext \/ TimeWaitOver \/ TimersChecked

Next == (\E s \in Segments : RecvSegment(s)) \/ SockRequest \/ Timeout \/ CheckTimers

Spec == Init /\ [][Next]_vars

\* A handler that runs goes on running: the program is one thread and nothing in
\* the timer walk waits.
FairSpec == Spec /\ WF_vars(CheckTimers)
-----------------------------------------------------------------------------
TypeOK ==
    /\ listening \subseteq Locals
    /\ clist \in Seq(Entry)
    /\ now \in Nat
    /\ checking \in BOOLEAN
    /\ resend \in Seq(Bytes)
    /\ mux \subseteq Segment
    /\ sock \in Seq(Messages)
    /\ fault \in {"none", "undefined", "diverges"}

\* A connection in the handshake, and one that holds queued data, in whatever state
\* it is, open or closed by either side, has its timer running and due within one
\* period: only the timer sends again, or sends what the window held back, and no
\* order of writes, ACKs, FINs, closes and timeouts may leave data without it.  Of
\* a FIN alone nothing is said: the handshake turns the timer of an accepted
\* connection off, and one that closes without having sent or taken data waits in
\* FIN_WAIT1 with no timer.
DataHasTimer == \A i \in DOMAIN clist :
    LET e == clist[i]
    IN  e.st \in {"SYN_RCVD", "SYN_SENT"} \/ e.snd # <<>> => e.tmr /\ e.due <= now + 1

\* The peer's stream, when a byte is named by its sequence number.
PeerStream == \A s \in Segments : \A k \in DOMAIN s.data : s.data[k] = Wrap(s.seq + k - 1)

\* While data is accepted, the receive buffer ends with the byte before
\* last_recvd and has no hole: lost, repeated and reordered segments, writes and
\* partial reads of the sock module leave a run of the peer's stream.
ReceivedInOrder == \A i \in DOMAIN clist :
    LET e == clist[i]
    IN  e.st \in {"SYN_RCVD", "ESTABLISHED", "SEND_DATA"} =>
           \A k \in DOMAIN e.rcv : e.rcv[k] = Wrap(e.rcvd - Len(e.rcv) + k - 1)

\* tcpstate.cc:19: no more than the window N is ever in flight, whatever the
\* ACKs and windows the peer sends.
WindowRespected == \A i \in DOMAIN clist :
    clist[i].conn.dest # ANY => Offset(clist[i]) <= N

\* A connection that becomes usable is announced to the sock module by an empty
\* WRITE, and in the same handler no data goes up before it.
Open(cl) == {cl[i].conn : i \in {j \in DOMAIN cl : cl[j].st = "ESTABLISHED"}}

AnnouncedFirst ==
    [][\A c \in Open(clist') :
          (\A i \in DOMAIN clist : clist[i].conn = c =>
                clist[i].st \notin {"ESTABLISHED", "SEND_DATA"})
          => sock' # <<>> /\ Head(sock') = WriteMsg(c, <<>>)]_vars

\* The walk over the timers comes to an end, so the module serves events again,
\* unless a resend never makes progress.
TimerWalkEnds == checking ~> (~ checking \/ fault = "diverges")
=============================================================================
