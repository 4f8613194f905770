-------------------------- MODULE TcpModule_proofs --------------------------
(***************************************************************************)
(* Invariants of TcpModule for every value of its constants.               *)
(*                                                                         *)
(* The state is one list of entries, and each handler rebuilds that list   *)
(* from Without, ToFront, push_front and Append.  An invariant about all   *)
(* entries is therefore proved in the form clist \in Seq(S): the lemmas    *)
(* below say what each operator of tcp_module.cc makes of one entry, and   *)
(* the step lemma walks through the actions once for each invariant.       *)
(***************************************************************************)
EXTENDS TcpModule, TLAPS

-----------------------------------------------------------------------------
(***************************************************************************)
(* What erase and push_front leave of a connection list.                   *)
(***************************************************************************)

\* Erasing an entry leaves a list of the other entries.
LEMMA WithoutSeq ==
    ASSUME NEW S, NEW cl \in Seq(S), NEW i \in DOMAIN cl
    PROVE  /\ Without(cl, i) \in Seq(S)
           /\ Len(Without(cl, i)) = Len(cl) - 1
<1>1. Len(cl) \in Nat /\ Len(cl) >= 1 /\ DOMAIN cl = 1..Len(cl) /\ i \in 1..Len(cl)
  OBVIOUS
<1>2. \A j \in 1..(Len(cl) - 1) : (IF j < i THEN cl[j] ELSE cl[j + 1]) \in S
  BY <1>1
<1>3. Len(cl) - 1 \in Nat
  BY <1>1
<1> QED
  BY <1>2, <1>3 DEF Without

\* Moving an entry to the front keeps the length; the new copy is the head.
LEMMA ToFrontSeq ==
    ASSUME NEW S, NEW cl \in Seq(S), NEW i \in DOMAIN cl, NEW e \in S
    PROVE  /\ ToFront(cl, i, e) \in Seq(S)
           /\ Len(ToFront(cl, i, e)) = Len(cl)
           /\ ToFront(cl, i, e) # <<>>
           /\ Head(ToFront(cl, i, e)) = e
<1>1. Without(cl, i) \in Seq(S) /\ Len(Without(cl, i)) = Len(cl) - 1
  BY WithoutSeq
<1>2. <<e>> \in Seq(S) /\ Len(<<e>>) = 1 /\ <<e>>[1] = e
  OBVIOUS
<1>3. Len(cl) \in Nat
  OBVIOUS
<1> DEFINE w == Without(cl, i)
<1> HIDE DEF w
<1>4. (<<e>> \o w) \in Seq(S) /\ Len(<<e>> \o w) = 1 + Len(w) /\ (<<e>> \o w)[1] = e
  BY <1>1, <1>2 DEF w
<1>5. Len(w) \in Nat
  BY <1>1 DEF w
<1>6. (<<e>> \o w) # <<>> /\ Head(<<e>> \o w) = e
  BY <1>4, <1>5
<1> QED
  BY <1>1, <1>3, <1>4, <1>6 DEF ToFront, w

\* A new entry at either end.
LEMMA PushSeq ==
    ASSUME NEW S, NEW cl \in Seq(S), NEW e \in S
    PROVE  <<e>> \o cl \in Seq(S) /\ Append(cl, e) \in Seq(S)
<1> QED
  OBVIOUS

\* The first match is an entry of the list.
LEMMA FirstMatchEntry ==
    ASSUME NEW S, NEW cl \in Seq(S), NEW c, NEW i, IsFirstMatch(cl, c, i)
    PROVE  i \in DOMAIN cl /\ cl[i] \in S
<1> QED
  BY DEF IsFirstMatch

-----------------------------------------------------------------------------
(***************************************************************************)
(* Arithmetic modulo SEQ_MOD.                                              *)
(***************************************************************************)

LEMMA WrapType == ASSUME NEW x \in Int PROVE Wrap(x) \in Seq32
<1> QED
  BY ConstAssumption DEF Wrap, Seq32

LEMMA SeqTypes ==
    /\ SEQ_MOD \in Nat /\ SEQ_MOD > 1 /\ Seq32 \subseteq Nat
    /\ \A x \in Seq32 : x < SEQ_MOD
<1> QED
  BY ConstAssumption DEF Seq32

LEMMA MinType ==
    ASSUME NEW x \in Nat, NEW y \in Nat
    PROVE  /\ MIN_MACRO(x, y) \in Nat
           /\ MIN_MACRO(x, y) <= x /\ MIN_MACRO(x, y) <= y
<1> QED
  BY DEF MIN_MACRO

-----------------------------------------------------------------------------
(***************************************************************************)
(* Types: what each operator returns for one entry.                        *)
(***************************************************************************)

LEMMA EntryFields ==
    ASSUME NEW e \in Entry
    PROVE  /\ e.conn \in Conns /\ e.st \in States /\ e.tmr \in BOOLEAN
           /\ e.due \in Nat /\ e.tries \in Nat
           /\ e.acked \in Seq32 /\ e.sent \in Seq32 /\ e.rwnd \in Seq32 /\ e.rcvd \in Seq32
           /\ e.acked \in Nat /\ e.sent \in Nat /\ e.rwnd \in Nat /\ e.rcvd \in Nat
           /\ e.snd \in Seq(Bytes) /\ e.rcv \in Seq(Bytes)
           /\ Len(e.snd) \in Nat /\ Len(e.rcv) \in Nat
<1>1. /\ e.conn \in Conns /\ e.st \in States /\ e.tmr \in BOOLEAN
      /\ e.due \in Nat /\ e.tries \in Nat
      /\ e.acked \in Seq32 /\ e.sent \in Seq32 /\ e.rwnd \in Seq32 /\ e.rcvd \in Seq32
      /\ e.snd \in Seq(Bytes) /\ e.rcv \in Seq(Bytes)
  BY DEF Entry
<1>2. e.acked \in Nat /\ e.sent \in Nat /\ e.rwnd \in Nat /\ e.rcvd \in Nat
  BY <1>1, SeqTypes
<1>3. Len(e.snd) \in Nat /\ Len(e.rcv) \in Nat
  BY <1>1
<1> QED
  BY <1>1, <1>2, <1>3

LEMMA DropFrontType ==
    ASSUME NEW S, NEW s \in Seq(S), NEW n \in Nat
    PROVE  DropFront(s, n) \in Seq(S)
<1>1. CASE n + 1 <= Len(s)
  BY <1>1 DEF DropFront
<1>2. CASE n + 1 > Len(s)
  BY <1>2 DEF DropFront
<1> QED
  BY <1>1, <1>2

LEMMA DropFrontEmpty ==
    ASSUME NEW n \in Nat
    PROVE  DropFront(<<>>, n) = <<>>
<1> QED
  BY DEF DropFront

LEMMA TakeFrontType ==
    ASSUME NEW S, NEW s \in Seq(S), NEW n \in Nat
    PROVE  TakeFront(s, n) \in Seq(S)
<1>1. Len(s) \in Nat
  OBVIOUS
<1>2. MIN_MACRO(n, Len(s)) \in Nat /\ MIN_MACRO(n, Len(s)) <= Len(s)
  BY <1>1, MinType
<1> QED
  BY <1>1, <1>2 DEF TakeFront

LEMMA PayloadSizeType ==
    ASSUME NEW e \in Entry, NEW n \in Nat
    PROVE  PayloadSize(e, n) \in Nat
<1>1. e.rwnd \in Int /\ e.sent \in Int /\ e.acked \in Int /\ N \in Int /\ MSS \in Nat
  BY ConstAssumption, EntryFields DEF Seq32
<1>2. Offset(e) \in Int
  BY <1>1, WrapType DEF Offset, Seq32
<1>3. Wrap(e.rwnd - Offset(e)) \in Nat /\ Wrap(N - Offset(e)) \in Nat
  BY <1>1, <1>2, WrapType DEF Seq32
<1> QED
  BY <1>1, <1>3, MinType DEF PayloadSize

LEMMA SetLastAckedType ==
    ASSUME NEW e \in Entry, NEW a \in Seq32
    PROVE  /\ SetLastAcked(e, a) \in Entry
           /\ SetLastAcked(e, a).st = e.st /\ SetLastAcked(e, a).tmr = e.tmr
           /\ SetLastAcked(e, a).conn = e.conn /\ SetLastAcked(e, a).rcv = e.rcv
           /\ SetLastAcked(e, a).rcvd = e.rcvd /\ SetLastAcked(e, a).sent = e.sent
           /\ e.snd = <<>> => SetLastAcked(e, a).snd = <<>>
<1>1. Wrap(a - e.acked) \in Nat /\ Wrap(a - 1) \in Seq32
  <2>1. a \in Nat /\ e.acked \in Nat
    BY SeqTypes, EntryFields
  <2>2. a - e.acked \in Int /\ a - 1 \in Int
    BY <2>1
  <2> QED
    BY <2>2, WrapType, SeqTypes
<1>2. /\ DropFront(e.snd, Wrap(a - e.acked)) \in Seq(Bytes)
      /\ e.snd = <<>> => DropFront(e.snd, Wrap(a - e.acked)) = <<>>
  BY <1>1, DropFrontType, DropFrontEmpty DEF Entry
<1> QED
  BY <1>1, <1>2 DEF SetLastAcked, Entry

LEMMA UpdatedType ==
    ASSUME NEW e \in Entry, NEW st \in States, NEW a \in Seq32, NEW sent \in Seq32,
           NEW rcvd \in Seq32, NEW win \in Seq32, now \in Nat
    PROVE  /\ Updated(e, st, a, sent, rcvd, win) \in Entry
           /\ Updated(e, st, a, sent, rcvd, win).st = st
           /\ Updated(e, st, a, sent, rcvd, win).tmr
           /\ Updated(e, st, a, sent, rcvd, win).due = now + 1
           /\ Updated(e, st, a, sent, rcvd, win).conn = e.conn
           /\ Updated(e, st, a, sent, rcvd, win).rcv = e.rcv
           /\ Updated(e, st, a, sent, rcvd, win).rcvd = rcvd
           /\ Updated(e, st, a, sent, rcvd, win).sent = sent
<1>1. [e EXCEPT !.sent = sent] \in Entry
  BY DEF Entry
<1> DEFINE f == SetLastAcked([e EXCEPT !.sent = sent], a)
<1>2. f \in Entry /\ f.conn = e.conn /\ f.rcv = e.rcv /\ f.sent = sent
  BY <1>1, SetLastAckedType DEF Entry
<1>3. TRIES \in Nat
  BY ConstAssumption
<1> HIDE DEF f
<1>4. Updated(e, st, a, sent, rcvd, win)
        = [f EXCEPT !.st = st, !.rcvd = rcvd, !.rwnd = win,
                    !.due = now + 1, !.tries = TRIES, !.tmr = TRUE]
  BY DEF Updated, f
<1>8. now + 1 \in Nat
  OBVIOUS
<1>6. [f EXCEPT !.st = st, !.rcvd = rcvd, !.rwnd = win,
                 !.due = now + 1, !.tries = TRIES, !.tmr = TRUE] \in Entry
  BY <1>2, <1>3, <1>8 DEF Entry
<1>7. /\ Updated(e, st, a, sent, rcvd, win).st = st
      /\ Updated(e, st, a, sent, rcvd, win).tmr
      /\ Updated(e, st, a, sent, rcvd, win).due = now + 1
      /\ Updated(e, st, a, sent, rcvd, win).conn = e.conn
      /\ Updated(e, st, a, sent, rcvd, win).rcv = e.rcv
      /\ Updated(e, st, a, sent, rcvd, win).rcvd = rcvd
      /\ Updated(e, st, a, sent, rcvd, win).sent = sent
  BY <1>2, <1>4 DEF Entry
<1> QED
  BY <1>4, <1>6, <1>7
-----------------------------------------------------------------------------
(***************************************************************************)
(* A set of entries that every handler stays in.  One conjunct per place   *)
(* where tcp_module.cc writes an entry.                                    *)
(***************************************************************************)

ClosedUnderSegments(S) ==
    /\ \A s \in Segments : SynRcvd(s) \in S
    /\ \A e \in S, s \in Segments :
          /\ e.st = "SYN_RCVD" /\ s.ack = Wrap(e.sent + 1) => Established(e, s) \in S
          /\ e.st \in {"ESTABLISHED", "SEND_DATA"} => AfterAck(e, s) \in S /\ AfterData(e, s) \in S
          /\ e.st = "SYN_SENT" /\ s.ack = Wrap(e.sent + 1) => Connected(e, s) \in S
    /\ \A e \in S :
          /\ e.st = "FIN_WAIT1" /\ e.snd = <<>> => [e EXCEPT !.st = "FIN_WAIT2"] \in S
          /\ e.st \notin {"CLOSED", "LISTEN", "SYN_SENT"} =>
                [AfterFin(e) EXCEPT !.rcvd = Wrap(@ + 1)] \in S

ClosedUnderRequests(S) ==
    /\ \A c \in Conns : Listener(c) \in S
    /\ \A c \in [src : Locals, dest : Remotes] : SynSent(c) \in S
    /\ \A e \in S, n \in Nat : [e EXCEPT !.rcv = DropFront(@, n)] \in S
    /\ \A e \in S, w \in Writes :
          e.st \in {"ESTABLISHED", "SEND_DATA"} => Queued(e, w) \in S
    /\ \A e \in S : AfterClose(e) \in S

ClosedUnderTimers(S) ==
    /\ \A e \in S : e.tmr /\ e.tries > 0 => Rearmed(e) \in S /\ AfterRetry(Rearmed(e)) \in S
    /\ \A e \in S, d \in Seq(Bytes) :
          (d # <<>> => e.snd # <<>>) => [e EXCEPT !.snd = @ \o d] \in S

Closed(S) ==
    S \subseteq Entry /\ ClosedUnderSegments(S) /\ ClosedUnderRequests(S) /\ ClosedUnderTimers(S)

\* A resend goes on for the entry that was just moved to the front and that got
\* back the bytes still to send.
ResendHasEntry ==
    resend # <<>> => checking /\ clist # <<>> /\ Head(clist).snd # <<>>

LEMMA BoundConns == [src : Locals, dest : Remotes] \subseteq Conns
<1> QED
  BY DEF Conns

LEMMA SegmentFields ==
    ASSUME NEW s \in Segments
    PROVE  /\ s.conn \in [src : Locals, dest : Remotes] /\ s.conn \in Conns
           /\ s.seq \in Seq32 /\ s.ack \in Seq32 /\ s.win \in Seq32
           /\ s.seq \in Nat /\ s.ack \in Nat
           /\ s.data \in Seq(Bytes) /\ Len(s.data) \in Nat
<1>1. s \in Segment /\ s.conn \in [src : Locals, dest : Remotes]
  BY ConstAssumption
<1>2. /\ s.conn \in Conns /\ s.seq \in Seq32 /\ s.ack \in Seq32 /\ s.win \in Seq32
      /\ s.data \in Seq(Bytes)
  BY <1>1 DEF Segment
<1>3. Len(s.data) \in Nat
  BY <1>2
<1> QED
  BY <1>1, <1>2, <1>3, SeqTypes

LEMMA SegmentClosed ==
    ASSUME NEW S, Closed(S), clist \in Seq(S), NEW s \in Segments, RecvSegment(s)
    PROVE  clist' \in Seq(S)
<1> USE DEF Closed, ClosedUnderSegments
<1>1. CASE RecvSyn(s)
  <2>1. SynRcvd(s) \in S /\ SynRcvd(s).st = "SYN_RCVD"
    BY DEF SynRcvd
  <2>2. PICK e \in S : clist' = <<e>> \o clist
    BY <1>1, <2>1 DEF RecvSyn
  <2> QED
    BY <2>2, PushSeq
<1>2. CASE AckSynRcvd(s)
  <2>1. PICK i \in DOMAIN clist :
          /\ clist[i].st = "SYN_RCVD" /\ s.ack = Wrap(clist[i].sent + 1)
          /\ clist' = ToFront(clist, i, AfterData(Established(clist[i], s), s))
    BY <1>2 DEF AckSynRcvd
  <2>2. clist[i] \in S
    OBVIOUS
  <2>3. Established(clist[i], s) \in S
    BY <2>1, <2>2
  <2>4. Established(clist[i], s).st = "ESTABLISHED"
    <3>1. clist[i] \in Entry /\ s.ack \in Seq32
      BY <2>2, SegmentFields
    <3>2. SetLastAcked(clist[i], s.ack) \in Entry
      BY <3>1, SetLastAckedType
    <3> QED
      BY <3>2 DEF Established, Entry
  <2>5. AfterData(Established(clist[i], s), s) \in S
    BY <2>3, <2>4
  <2> QED
    BY <2>1, <2>5, ToFrontSeq
<1>3. CASE AckEstablished(s)
  <2>1. PICK i \in DOMAIN clist :
          /\ AfterAck(clist[i], s).st \in {"ESTABLISHED", "SEND_DATA"}
          /\ \/ clist' = ToFront(clist, i, AfterData(AfterAck(clist[i], s), s))
             \/ clist' = clist
    BY <1>3 DEF AckEstablished
  <2>2. clist[i] \in S /\ clist[i].st \in {"ESTABLISHED", "SEND_DATA"}
    BY <2>1 DEF AfterAck, Slides
  <2>3. AfterAck(clist[i], s) \in S
    BY <2>2
  <2>4. AfterData(AfterAck(clist[i], s), s) \in S
    BY <2>1, <2>3
  <2>5. ToFront(clist, i, AfterData(AfterAck(clist[i], s), s)) \in Seq(S)
    BY <2>4, ToFrontSeq
  <2> QED
    BY <2>1, <2>5
<1>4. CASE AckSynSent(s)
  <2>1. PICK i \in DOMAIN clist :
          /\ clist[i].st = "SYN_SENT" /\ s.ack = Wrap(clist[i].sent + 1)
          /\ clist' = ToFront(clist, i, Connected(clist[i], s))
    BY <1>4 DEF AckSynSent
  <2>2. clist[i] \in S
    OBVIOUS
  <2>3. Connected(clist[i], s) \in S
    BY <2>1, <2>2
  <2> QED
    BY <2>1, <2>3, ToFrontSeq
<1>5. CASE AckFinWait1(s)
  <2>1. PICK i \in DOMAIN clist :
          /\ clist[i].st = "FIN_WAIT1" /\ clist[i].snd = <<>>
          /\ clist' = ToFront(clist, i, [clist[i] EXCEPT !.st = "FIN_WAIT2"])
    BY <1>5 DEF AckFinWait1
  <2>2. clist[i] \in S
    OBVIOUS
  <2>3. [clist[i] EXCEPT !.st = "FIN_WAIT2"] \in S
    BY <2>1, <2>2
  <2> QED
    BY <2>1, <2>3, ToFrontSeq
<1>6. CASE AckLastAck(s)
  BY <1>6, WithoutSeq DEF AckLastAck
<1>7. CASE RecvFin(s)
  <2>1. PICK i \in DOMAIN clist :
          /\ clist[i].st \notin {"CLOSED", "LISTEN", "SYN_SENT"}
          /\ clist' = ToFront(clist, i, [AfterFin(clist[i]) EXCEPT !.rcvd = Wrap(@ + 1)])
    BY <1>7 DEF RecvFin
  <2>2. clist[i] \in S
    OBVIOUS
  <2>3. [AfterFin(clist[i]) EXCEPT !.rcvd = Wrap(@ + 1)] \in S
    BY <2>1, <2>2
  <2> QED
    BY <2>1, <2>3, ToFrontSeq
<1>8. CASE RecvStrayFin(s)
  BY <1>8 DEF RecvStrayFin
<1> QED
  BY <1>1, <1>2, <1>3, <1>4, <1>5, <1>6, <1>7, <1>8 DEF RecvSegment

LEMMA RequestClosed ==
    ASSUME NEW S, ClosedUnderRequests(S), clist \in Seq(S), listening \subseteq Locals,
           SockRequest
    PROVE  clist' \in Seq(S)
<1> USE DEF ClosedUnderRequests
<1> DEFINE Pair(p, r) == [src |-> p, dest |-> r]
<1>1. ASSUME NEW p \in listening, SockAccept(Pair(p, ANY))
      PROVE  clist' \in Seq(S)
  <2>1. Listener(Pair(p, ANY)) \in S
    BY <1>1 DEF Conns
  <2>2. CASE clist' = Append(clist, Listener(Pair(p, ANY)))
    BY <2>1, <2>2, PushSeq
  <2>3. ASSUME NEW i \in DOMAIN clist,
               clist' = Append(Without(clist, i), Listener(Pair(p, ANY)))
        PROVE  clist' \in Seq(S)
    BY <2>1, <2>3, WithoutSeq, PushSeq
  <2> QED
    BY <1>1, <2>2, <2>3 DEF SockAccept
<1>2. ASSUME NEW p \in Locals, NEW r \in Remotes, SockConnect(Pair(p, r))
      PROVE  clist' \in Seq(S)
  <2>1. SynSent(Pair(p, r)) \in S
    OBVIOUS
  <2> QED
    BY <1>2, <2>1, PushSeq DEF SockConnect
<1>3. CASE SockForward
  BY <1>3 DEF SockForward
<1>4. ASSUME NEW c, NEW n \in Nat, SockStatus(c, n)
      PROVE  clist' \in Seq(S)
  <2>1. PICK i \in DOMAIN clist :
          clist' = ToFront(clist, i, [clist[i] EXCEPT !.rcv = DropFront(@, n)])
    BY <1>4 DEF SockStatus
  <2>2. clist[i] \in S
    OBVIOUS
  <2>3. [clist[i] EXCEPT !.rcv = DropFront(@, n)] \in S
    BY <2>2
  <2> QED
    BY <2>1, <2>3, ToFrontSeq
<1>5. ASSUME NEW c, NEW w \in Writes, SockWrite(c, w)
      PROVE  clist' \in Seq(S)
  <2>1. ASSUME NEW i \in DOMAIN clist, Queue(i, c, w)
        PROVE  clist' \in Seq(S)
    <3>1. clist[i] \in S /\ clist[i].st \in {"ESTABLISHED", "SEND_DATA"}
      BY <2>1 DEF Queue
    <3>2. Queued(clist[i], w) \in S
      BY <3>1
    <3> QED
      BY <2>1, <3>2, ToFrontSeq DEF Queue
  <2>2. CASE UNCHANGED clist
    BY <2>2
  <2> QED
    BY <1>5, <2>1, <2>2 DEF SockWrite
<1>6. ASSUME NEW c, SockClose(c)
      PROVE  clist' \in Seq(S)
  <2>1. PICK i \in DOMAIN clist : clist' = ToFront(clist, i, AfterClose(clist[i]))
    BY <1>6 DEF SockClose
  <2>2. AfterClose(clist[i]) \in S
    OBVIOUS
  <2> QED
    BY <2>1, <2>2, ToFrontSeq
<1>7. ASSUME NEW c, SockStrayClose(c)
      PROVE  clist' \in Seq(S)
  BY <1>7 DEF SockStrayClose
<1>8. \A n \in 0..MaxBuffer : n \in Nat
  OBVIOUS
<1> QED
  BY <1>1, <1>2, <1>3, <1>4, <1>5, <1>6, <1>7, <1>8 DEF SockRequest

LEMMA TimerClosed ==
    ASSUME NEW S, S \subseteq Entry, ClosedUnderTimers(S), clist \in Seq(S), ResendHasEntry,
           resend \in Seq(Bytes), CheckTimers
    PROVE  clist' \in Seq(S)
<1> USE DEF ClosedUnderTimers
<1>1. ASSUME NEW i \in DOMAIN clist, Expired(i), clist[i].tries > 0
      PROVE  Rearmed(clist[i]) \in S /\ AfterRetry(Rearmed(clist[i])) \in S
  <2>1. clist[i].tmr
    BY <1>1 DEF Expired, IsEarliest, TimerCandidates
  <2> QED
    BY <1>1, <2>1
<1>2. ASSUME NEW i \in DOMAIN clist, Rearmed(clist[i]).tries >= 0
      PROVE  clist[i].tries > 0
  <2>1. clist[i] \in Entry
    OBVIOUS
  <2>2. Rearmed(clist[i]).tries = clist[i].tries - 1
    BY <2>1 DEF Rearmed, Entry
  <2> QED
    BY <1>2, <2>1, <2>2, EntryFields
<1>3. CASE GiveUp
  BY <1>3, WithoutSeq DEF GiveUp
<1>4. CASE Retry
  <2>1. PICK i \in DOMAIN clist :
          /\ Expired(i) /\ Rearmed(clist[i]).tries >= 0
          /\ clist' = ToFront(clist, i, AfterRetry(Rearmed(clist[i])))
    BY <1>4 DEF Retry
  <2>2. AfterRetry(Rearmed(clist[i])) \in S
    BY <1>1, <1>2, <2>1
  <2> QED
    BY <2>1, <2>2, ToFrontSeq
<1>5. ASSUME NEW e \in S, NEW rest \in Seq(S), NEW d \in Seq(Bytes),
             d # <<>> => e.snd # <<>>, SendLastN(e, rest, d)
      PROVE  clist' \in Seq(S)
  <2>1. Len(d) \in Nat /\ e \in Entry
    OBVIOUS
  <2>2. DropFront(d, PayloadSize(e, Len(d))) \in Seq(Bytes)
    BY <2>1, PayloadSizeType, DropFrontType
  <2>3. DropFront(d, PayloadSize(e, Len(d))) # <<>> => e.snd # <<>>
    BY <1>5, <2>1, PayloadSizeType, DropFrontEmpty
  <2>4. [e EXCEPT !.snd = @ \o DropFront(d, PayloadSize(e, Len(d)))] \in S
    BY <2>2, <2>3
  <2> QED
    BY <1>5, <2>4, PushSeq DEF SendLastN
<1>6. CASE ResendFirst
  <2>1. PICK i \in DOMAIN clist :
          /\ Expired(i) /\ Rearmed(clist[i]).tries >= 0
          /\ SendLastN(Rearmed(clist[i]), Without(clist, i), Rearmed(clist[i]).snd)
    BY <1>6 DEF ResendFirst
  <2>2. Rearmed(clist[i]) \in S
    BY <1>1, <1>2, <2>1
  <2>3. Without(clist, i) \in Seq(S)
    BY WithoutSeq
  <2>4. Rearmed(clist[i]).snd \in Seq(Bytes)
    BY <2>2, EntryFields
  <2> QED
    BY <1>5, <2>1, <2>2, <2>3, <2>4
<1>7. CASE ResendNext
  <2>1. /\ clist # <<>> /\ Head(clist).snd # <<>>
        /\ SendLastN(Head(clist), Tail(clist), resend)
    BY <1>7 DEF ResendNext, ResendHasEntry
  <2>2. Head(clist) \in S /\ Tail(clist) \in Seq(S)
    BY <2>1
  <2> QED
    BY <1>5, <2>1, <2>2
<1>8. CASE TimeWaitOver
  <2>1. PICK i \in DOMAIN clist :
          /\ Expired(i) /\ clist[i].tries > 0
          /\ clist' = Without(ToFront(clist, i, Rearmed(clist[i])), StalePlace(i))
    BY <1>8 DEF TimeWaitOver
  <2>2. Rearmed(clist[i]) \in S
    BY <1>1, <2>1
  <2> DEFINE cl == ToFront(clist, i, Rearmed(clist[i]))
  <2>3. cl \in Seq(S) /\ Len(cl) = Len(clist)
    BY <2>2, ToFrontSeq
  <2>4. Len(clist) \in Nat /\ i \in 1..Len(clist)
    OBVIOUS
  <2>5. StalePlace(i) \in 1..Len(clist)
    BY <2>4 DEF StalePlace, MIN_MACRO
  <2> HIDE DEF cl
  <2>6. StalePlace(i) \in DOMAIN cl
    BY <2>3, <2>5
  <2>7. Without(cl, StalePlace(i)) \in Seq(S)
    BY <2>3, <2>6, WithoutSeq
  <2> QED
    BY <2>1, <2>7 DEF cl
<1>9. CASE TimersChecked
  BY <1>9 DEF TimersChecked
<1> QED
  BY <1>3, <1>4, <1>6, <1>7, <1>8, <1>9 DEF CheckTimers

-----------------------------------------------------------------------------
(***************************************************************************)
(* Types: every handler makes an entry of an entry.                        *)
(***************************************************************************)

LEMMA StatesListed ==
    {"CLOSED", "LISTEN", "SYN_RCVD", "SYN_SENT", "ESTABLISHED", "SEND_DATA", "CLOSE_WAIT",
     "FIN_WAIT1", "CLOSING", "LAST_ACK", "FIN_WAIT2", "TIME_WAIT"} = States
<1> QED
  BY DEF States

LEMMA SynRcvdType ==
    ASSUME now \in Nat, NEW s \in Segments
    PROVE  SynRcvd(s) \in Entry
<1>1. Wrap(s.seq + 1) \in Seq32
  BY SegmentFields, WrapType
<1>2. ISN_ACCEPT \in Seq32 /\ TRIES \in Nat /\ now + 1 \in Nat
  BY ConstAssumption
<1>3. s.win \in Seq32 /\ s.conn \in Conns
  BY SegmentFields
<1> QED
  BY <1>1, <1>2, <1>3, StatesListed DEF SynRcvd, Entry

LEMMA EstablishedType ==
    ASSUME NEW e \in Entry, NEW s \in Segments
    PROVE  /\ Established(e, s) \in Entry
           /\ Established(e, s).st = "ESTABLISHED" /\ ~ Established(e, s).tmr
           /\ Established(e, s).conn = e.conn /\ Established(e, s).rcv = e.rcv
           /\ Established(e, s).rcvd = e.rcvd /\ Established(e, s).sent = e.sent
           /\ Established(e, s).acked = SetLastAcked(e, s.ack).acked
           /\ e.snd = <<>> => Established(e, s).snd = <<>>
<1> DEFINE f == SetLastAcked(e, s.ack)
<1>1. /\ f \in Entry /\ f.conn = e.conn /\ f.rcv = e.rcv /\ f.rcvd = e.rcvd
      /\ f.sent = e.sent
      /\ e.snd = <<>> => f.snd = <<>>
  BY SegmentFields, SetLastAckedType
<1> HIDE DEF f
<1>2. Established(e, s) = [f EXCEPT !.st = "ESTABLISHED", !.tmr = FALSE]
  BY DEF Established, f
<1>3. [f EXCEPT !.st = "ESTABLISHED", !.tmr = FALSE] \in Entry
  BY <1>1, StatesListed DEF Entry
<1>4. /\ Established(e, s).st = "ESTABLISHED" /\ ~ Established(e, s).tmr
      /\ Established(e, s).conn = e.conn /\ Established(e, s).rcv = e.rcv
      /\ Established(e, s).rcvd = e.rcvd /\ Established(e, s).sent = e.sent
      /\ Established(e, s).acked = f.acked
      /\ Established(e, s).snd = f.snd
  BY <1>1, <1>2 DEF Entry
<1> QED
  BY <1>1, <1>2, <1>3, <1>4 DEF f

LEMMA AfterAckType ==
    ASSUME now \in Nat, NEW e \in Entry, NEW s \in Segments,
           e.st \in {"ESTABLISHED", "SEND_DATA"}
    PROVE  /\ AfterAck(e, s) \in Entry
           /\ AfterAck(e, s).st = e.st /\ AfterAck(e, s).conn = e.conn
           /\ AfterAck(e, s).rcv = e.rcv /\ AfterAck(e, s).rcvd = e.rcvd
           /\ AfterAck(e, s) # e => AfterAck(e, s).tmr /\ AfterAck(e, s).due = now + 1
<1> DEFINE newack == Wrap(s.ack - 1)
           sent == e.sent
           rcvd == e.rcvd
           win == s.win
           st == "SEND_DATA"
           u == Updated(e, st, newack, sent, rcvd, win)
<1>1. newack \in Seq32
  BY SegmentFields, WrapType
<1>2. sent \in Seq32 /\ rcvd \in Seq32 /\ win \in Seq32 /\ st \in States
  BY EntryFields, SegmentFields, StatesListed
<1> HIDE DEF newack, sent, rcvd, win, st
<1>3. /\ u \in Entry /\ u.st = st /\ u.conn = e.conn /\ u.rcv = e.rcv
      /\ u.rcvd = rcvd /\ u.tmr /\ u.due = now + 1
  BY <1>1, <1>2, UpdatedType
<1> HIDE DEF u
<1>4. AfterAck(e, s) = IF Slides(e, s) THEN u ELSE e
  BY DEF AfterAck, u, newack, sent, rcvd, win, st
<1> QED
  BY <1>3, <1>4 DEF Slides, rcvd, st

LEMMA AfterDataType ==
    ASSUME now \in Nat, NEW e \in Entry, NEW s \in Segments
    PROVE  /\ AfterData(e, s) \in Entry
           /\ AfterData(e, s).st = e.st /\ AfterData(e, s).conn = e.conn
           /\ AfterData(e, s) # e => AfterData(e, s).tmr /\ AfterData(e, s).due = now + 1
           /\ InOrder(e, s) => /\ AfterData(e, s).rcv = e.rcv \o s.data
                               /\ AfterData(e, s).rcvd = Wrap(s.seq + Len(s.data))
           /\ ~ InOrder(e, s) => AfterData(e, s) = e
<1> DEFINE st == e.st
           newack == s.ack
           sent == e.sent
           rcvd == Wrap(s.seq + Len(s.data))
           win == s.win
           u == Updated(e, st, newack, sent, rcvd, win)
<1>1. rcvd \in Seq32
  BY SegmentFields, WrapType
<1>2. sent \in Seq32 /\ st \in States /\ win \in Seq32 /\ newack \in Seq32
  BY EntryFields, SegmentFields
<1> HIDE DEF st, newack, sent, rcvd, win
<1>3. /\ u \in Entry /\ u.st = st /\ u.conn = e.conn /\ u.tmr /\ u.due = now + 1
      /\ u.rcv = e.rcv /\ u.rcvd = rcvd
  BY <1>1, <1>2, UpdatedType
<1>4. u.rcv \o s.data \in Seq(Bytes)
  BY <1>3, EntryFields, SegmentFields
<1> HIDE DEF u
<1>5. AfterData(e, s) = IF InOrder(e, s) THEN [u EXCEPT !.rcv = @ \o s.data] ELSE e
  BY DEF AfterData, u, st, newack, sent, rcvd, win
<1> QED
  BY <1>3, <1>4, <1>5 DEF Entry, st, rcvd

LEMMA ConnectedType ==
    ASSUME now \in Nat, NEW e \in Entry, NEW s \in Segments
    PROVE  /\ Connected(e, s) \in Entry
           /\ Connected(e, s).st = "ESTABLISHED" /\ Connected(e, s).conn = e.conn
           /\ Connected(e, s).tmr /\ Connected(e, s).due = now + 1
           /\ Connected(e, s).rcv = e.rcv
<1> DEFINE ack == s.ack
           rcvd == Wrap(s.seq + 1)
           win == s.win
           st == "ESTABLISHED"
           u == Updated(e, st, ack, ack, rcvd, win)
<1>1. ack \in Seq32 /\ rcvd \in Seq32 /\ win \in Seq32 /\ st \in States
  BY SegmentFields, WrapType, StatesListed
<1> HIDE DEF ack, rcvd, win, st
<1>2. /\ u \in Entry /\ u.st = st /\ u.conn = e.conn
      /\ u.tmr /\ u.due = now + 1 /\ u.rcv = e.rcv
  BY <1>1, UpdatedType
<1> HIDE DEF u
<1>3. Connected(e, s) = u
  BY DEF Connected, u, ack, rcvd, win, st
<1> QED
  BY <1>2, <1>3 DEF st

LEMMA FinType ==
    ASSUME now \in Nat, NEW e \in Entry
    PROVE  /\ [AfterFin(e) EXCEPT !.rcvd = Wrap(@ + 1)] \in Entry
           /\ AfterFin(e) \in Entry
           /\ e.st \notin {"LISTEN", "SYN_SENT"} =>
                AfterFin(e).st \notin {"LISTEN", "SYN_SENT", "SYN_RCVD", "ESTABLISHED", "SEND_DATA"}
           /\ AfterFin(e).snd = e.snd
           /\ e.st \notin {"FIN_WAIT2", "LISTEN", "SYN_SENT"} =>
                AfterFin(e).tmr = e.tmr /\ AfterFin(e).due = e.due
<1>1. now + TIME_WAIT_TICKS \in Nat
  BY ConstAssumption
<1>2. AfterFin(e) \in Entry
  BY <1>1, StatesListed DEF AfterFin, Entry
<1>3. Wrap(AfterFin(e).rcvd + 1) \in Seq32
  BY <1>2, EntryFields, WrapType
<1>4. [AfterFin(e) EXCEPT !.rcvd = Wrap(@ + 1)] \in Entry
  BY <1>2, <1>3 DEF Entry
<1>5. /\ e.st \notin {"LISTEN", "SYN_SENT"} =>
           AfterFin(e).st \notin {"LISTEN", "SYN_SENT", "SYN_RCVD", "ESTABLISHED", "SEND_DATA"}
      /\ AfterFin(e).snd = e.snd
      /\ e.st \notin {"FIN_WAIT2", "LISTEN", "SYN_SENT"} =>
           AfterFin(e).tmr = e.tmr /\ AfterFin(e).due = e.due
  BY DEF AfterFin, Entry
<1> QED
  BY <1>2, <1>4, <1>5

LEMMA ListenerType ==
    ASSUME now \in Nat, NEW c \in Conns
    PROVE  /\ Listener(c) \in Entry
           /\ SynSent(c) \in Entry
<1>1. 0 \in Seq32
  BY ConstAssumption DEF Seq32
<1>2. Listener(c) \in Entry
  BY <1>1, StatesListed DEF Listener, Entry
<1>3. ISN_CONNECT \in Seq32 /\ TRIES \in Nat /\ now + 1 \in Nat
  BY ConstAssumption
<1>4. SynSent(c) \in Entry
  BY <1>2, <1>3, StatesListed DEF SynSent, Entry
<1> QED
  BY <1>2, <1>4

LEMMA QueuedType ==
    ASSUME now \in Nat, NEW e \in Entry, NEW w \in Writes
    PROVE  /\ Queued(e, w) \in Entry
           /\ Queued(e, w).st = "SEND_DATA" /\ Queued(e, w).conn = e.conn
           /\ Queued(e, w).tmr /\ Queued(e, w).due = now + 1 /\ Queued(e, w).rcv = e.rcv
           /\ Queued(e, w).rcvd = e.rcvd
           /\ PayloadSize(e, Len(w)) \in Nat
<1> DEFINE sent == Wrap(e.sent + PayloadSize(e, Len(w)))
           newack == IF e.st = "ESTABLISHED" THEN Wrap(e.acked - 1) ELSE e.acked
           rcvd == e.rcvd
           win == e.rwnd
           st == "SEND_DATA"
           u == Updated(e, st, newack, sent, rcvd, win)
<1>1. w \in Seq(Bytes)
  BY ConstAssumption
<1>2. Len(w) \in Nat
  BY <1>1
<1>3. PayloadSize(e, Len(w)) \in Nat
  BY <1>2, PayloadSizeType
<1>4. sent \in Seq32 /\ newack \in Seq32
  BY <1>3, EntryFields, WrapType
<1>5. rcvd \in Seq32 /\ win \in Seq32 /\ st \in States
  BY EntryFields, StatesListed
<1> HIDE DEF newack, sent, rcvd, win, st
<1>6. /\ u \in Entry /\ u.st = st /\ u.conn = e.conn /\ u.rcv = e.rcv
      /\ u.rcvd = rcvd /\ u.tmr /\ u.due = now + 1
  BY <1>4, <1>5, UpdatedType
<1> HIDE DEF u
<1>7. u.snd \o w \in Seq(Bytes)
  BY <1>1, <1>6, EntryFields
<1>8. Queued(e, w) = [u EXCEPT !.snd = @ \o w]
  BY DEF Queued, u, sent, newack, rcvd, win, st
<1>9. /\ Queued(e, w) \in Entry
      /\ Queued(e, w).st = st /\ Queued(e, w).conn = e.conn
      /\ Queued(e, w).tmr /\ Queued(e, w).due = now + 1 /\ Queued(e, w).rcv = e.rcv
      /\ Queued(e, w).rcvd = rcvd
  BY <1>6, <1>7, <1>8 DEF Entry
<1> QED
  BY <1>3, <1>9 DEF rcvd, st

LEMMA RearmedType ==
    ASSUME now \in Nat, NEW e \in Entry, e.tries > 0
    PROVE  /\ Rearmed(e) \in Entry
           /\ AfterRetry(Rearmed(e)) \in Entry
<1>1. e.tries - 1 \in Nat /\ now + 1 \in Nat
  BY EntryFields
<1>2. Rearmed(e) \in Entry
  BY <1>1 DEF Rearmed, Entry
<1> QED
  BY <1>2, StatesListed DEF AfterRetry, Entry

\* An expired timer that has tries left is rearmed into an entry.
LEMMA RearmedEntry ==
    ASSUME now \in Nat, NEW e \in Entry, Rearmed(e).tries >= 0
    PROVE  Rearmed(e) \in Entry
<1>1. Rearmed(e).tries = e.tries - 1
  BY DEF Rearmed, Entry
<1>2. e.tries > 0
  BY <1>1, EntryFields
<1> QED
  BY <1>2, RearmedType

LEMMA EntryClosed == ASSUME now \in Nat PROVE Closed(Entry)
<1>1. ClosedUnderSegments(Entry)
  <2>1. \A s \in Segments : SynRcvd(s) \in Entry
    BY SynRcvdType
  <2>2. \A e \in Entry, s \in Segments : Established(e, s) \in Entry /\ Connected(e, s) \in Entry
    BY EstablishedType, ConnectedType
  <2>3. \A e \in Entry, s \in Segments :
          e.st \in {"ESTABLISHED", "SEND_DATA"} =>
             AfterAck(e, s) \in Entry /\ AfterData(e, s) \in Entry
    BY AfterAckType, AfterDataType
  <2>4. \A e \in Entry : [e EXCEPT !.st = "FIN_WAIT2"] \in Entry
    BY StatesListed DEF Entry
  <2>5. \A e \in Entry : [AfterFin(e) EXCEPT !.rcvd = Wrap(@ + 1)] \in Entry
    BY FinType
  <2> QED
    BY <2>1, <2>2, <2>3, <2>4, <2>5 DEF ClosedUnderSegments
<1>2. ClosedUnderRequests(Entry)
  <2>1. \A c \in Conns : Listener(c) \in Entry /\ SynSent(c) \in Entry
    BY ListenerType
  <2>2. \A e \in Entry, n \in Nat : [e EXCEPT !.rcv = DropFront(@, n)] \in Entry
    <3>1. TAKE e \in Entry, n \in Nat
    <3>2. DropFront(e.rcv, n) \in Seq(Bytes)
      BY EntryFields, DropFrontType
    <3> QED
      BY <3>2 DEF Entry
  <2>3. \A e \in Entry, w \in Writes : Queued(e, w) \in Entry
    BY QueuedType
  <2>4. \A e \in Entry : AfterClose(e) \in Entry
    BY StatesListed DEF AfterClose, Entry
  <2> QED
    BY <2>1, <2>2, <2>3, <2>4, BoundConns DEF ClosedUnderRequests
<1>3. ClosedUnderTimers(Entry)
  <2>1. \A e \in Entry : e.tries > 0 => Rearmed(e) \in Entry /\ AfterRetry(Rearmed(e)) \in Entry
    BY RearmedType
  <2>2. \A e \in Entry, d \in Seq(Bytes) : [e EXCEPT !.snd = @ \o d] \in Entry
    <3>1. TAKE e \in Entry, d \in Seq(Bytes)
    <3>2. e.snd \o d \in Seq(Bytes)
      BY EntryFields
    <3> QED
      BY <3>2 DEF Entry
  <2> QED
    BY <2>1, <2>2 DEF ClosedUnderTimers
<1> QED
  BY <1>1, <1>2, <1>3 DEF Closed

-----------------------------------------------------------------------------
(***************************************************************************)
(* Types: what the handlers send.                                          *)
(***************************************************************************)

LEMMA SegType ==
    ASSUME NEW c \in Conns, NEW flags \in Flags, NEW seq \in Seq32, NEW ack \in Seq32,
           NEW win \in Seq32, NEW data \in Seq(Bytes)
    PROVE  Seg(c, flags, seq, ack, win, data) \in Segment
<1> QED
  BY DEF Seg, Segment

LEMMA FlagsListed ==
    {"SYN"} \in Flags /\ {"SYN", "ACK"} \in Flags /\ {"ACK"} \in Flags /\ {"FIN", "ACK"} \in Flags
<1> QED
  BY DEF Flags

LEMMA SentSegmentsType ==
    ASSUME NEW c \in Conns, NEW e \in Entry
    PROVE  /\ SynAck(c, e) \in Segment /\ Syn(c, e) \in Segment /\ Fin(c, e) \subseteq Segment
           /\ Retransmission(e) \subseteq Segment
<1>1. WINDOW \in Seq32 /\ 0 \in Seq32 /\ <<>> \in Seq(Bytes)
  BY ConstAssumption DEF Seq32
<1>2. ASSUME NEW d \in Conns
      PROVE  SynAck(d, e) \in Segment /\ Syn(d, e) \in Segment /\ Fin(d, e) \subseteq Segment
  <2>1. e.sent \in Seq32 /\ e.rcvd \in Seq32
    BY EntryFields
  <2>2. SynAck(d, e) \in Segment /\ Syn(d, e) \in Segment
    BY <1>1, <2>1, FlagsListed, SegType DEF SynAck, Syn
  <2>3. Wrap(e.acked + 1) \in Seq32
    BY EntryFields, WrapType
  <2>4. GetRwnd(e) \in Seq32
    <3>1. BUFFER_SIZE \in Nat
      BY ConstAssumption, SeqTypes
    <3>2. BUFFER_SIZE - Len(e.rcv) \in Int
      BY <3>1, EntryFields
    <3> QED
      BY <3>2, WrapType DEF GetRwnd
  <2>5. Seg(d, {"FIN", "ACK"}, Wrap(e.acked + 1), e.rcvd, GetRwnd(e), <<>>) \in Segment
    BY <1>1, <2>1, <2>3, <2>4, FlagsListed, SegType
  <2>6. Fin(d, e) \subseteq Segment
    BY <2>5 DEF Fin
  <2> QED
    BY <2>2, <2>6
<1>3. e.conn \in Conns
  BY EntryFields
<1>4. Retransmission(e) \subseteq Segment
  BY <1>2, <1>3 DEF Retransmission
<1> QED
  BY <1>2, <1>4

LEMMA MessageType ==
    /\ \A c \in Conns, d \in Seq(Bytes) : WriteMsg(c, d) \in Messages
    /\ \A c \in Conns : NewConnection(c) \in Seq(Messages)
    /\ \A n \in Nat : BytesMsg(n) \in Messages
    /\ \A error \in {"EOK", "-1"} : StatusMsg(error) \in Messages
<1>1. /\ \A c \in Conns, d \in Seq(Bytes) : WriteMsg(c, d) \in Messages
      /\ \A n \in Nat : BytesMsg(n) \in Messages
      /\ \A error \in {"EOK", "-1"} : StatusMsg(error) \in Messages
  BY DEF WriteMsg, BytesMsg, StatusMsg, Messages
<1>2. \A c \in Conns : NewConnection(c) \in Seq(Messages)
  <2>1. TAKE c \in Conns
  <2>2. <<>> \in Seq(Bytes)
    OBVIOUS
  <2>3. WriteMsg(c, <<>>) \in Messages
    BY <1>1, <2>2
  <2> QED
    BY <2>3 DEF NewConnection
<1> QED
  BY <1>1, <1>2

LEMMA DataOutType ==
    ASSUME now \in Nat, NEW e \in Entry, NEW s \in Segments
    PROVE  DataAck(e, s) \subseteq Segment /\ DataUp(e, s) \in Seq(Messages)
<1>1. AfterData(e, s) \in Entry /\ s.conn \in Conns
  BY AfterDataType, SegmentFields
<1>2. AfterData(e, s).rcvd \in Seq32 /\ AfterData(e, s).rcv \in Seq(Bytes)
  BY <1>1, EntryFields
<1>3. Wrap(e.sent + 1) \in Seq32 /\ WINDOW \in Seq32 /\ <<>> \in Seq(Bytes)
  BY ConstAssumption, EntryFields, WrapType
<1>4. Seg(s.conn, {"ACK"}, Wrap(e.sent + 1), AfterData(e, s).rcvd, WINDOW, <<>>) \in Segment
  BY <1>1, <1>2, <1>3, FlagsListed, SegType
<1>5. WriteMsg(s.conn, AfterData(e, s).rcv) \in Messages
  BY <1>1, <1>2, MessageType
<1> QED
  BY <1>4, <1>5 DEF DataAck, DataUp

LEMMA SegmentOutputs ==
    ASSUME TypeOK, NEW s \in Segments, RecvSegment(s)
    PROVE  mux' \subseteq Segment /\ sock' \in Seq(Messages)
<1>1. now \in Nat /\ clist \in Seq(Entry) /\ s.conn \in Conns
  BY SegmentFields DEF TypeOK
<1>2. <<>> \in Seq(Messages) /\ <<>> \in Seq(Bytes) /\ WINDOW \in Seq32
  BY ConstAssumption
<1>3. \A i \in DOMAIN clist : clist[i] \in Entry
  BY <1>1
<1>4. CASE RecvSyn(s)
  <2>1. SynAck(s.conn, SynRcvd(s)) \in Segment
    BY <1>1, SynRcvdType, SentSegmentsType
  <2> QED
    BY <1>1, <1>2, <1>4, <2>1, MessageType DEF RecvSyn, Emit
<1>5. CASE AckSynRcvd(s)
  <2>1. PICK i \in DOMAIN clist :
          Emit(DataAck(Established(clist[i], s), s),
               NewConnection(s.conn) \o DataUp(Established(clist[i], s), s))
    BY <1>5 DEF AckSynRcvd
  <2>2. Established(clist[i], s) \in Entry
    BY <1>3, EstablishedType
  <2>3. /\ DataAck(Established(clist[i], s), s) \subseteq Segment
        /\ DataUp(Established(clist[i], s), s) \in Seq(Messages)
    BY <1>1, <2>2, DataOutType
  <2>4. NewConnection(s.conn) \in Seq(Messages)
    BY <1>1, MessageType
  <2> QED
    BY <2>1, <2>3, <2>4 DEF Emit
<1>6. CASE AckEstablished(s)
  <2>1. PICK i \in DOMAIN clist :
          /\ AfterAck(clist[i], s).st \in {"ESTABLISHED", "SEND_DATA"}
          /\ Emit(DataAck(AfterAck(clist[i], s), s), DataUp(AfterAck(clist[i], s), s))
    BY <1>6 DEF AckEstablished
  <2>2. clist[i].st \in {"ESTABLISHED", "SEND_DATA"}
    BY <2>1 DEF AfterAck, Slides
  <2>3. AfterAck(clist[i], s) \in Entry
    BY <1>1, <1>3, <2>2, AfterAckType
  <2> QED
    BY <1>1, <2>1, <2>3, DataOutType DEF Emit
<1>7. CASE AckSynSent(s)
  <2>1. Wrap(s.seq + 1) \in Seq32
    BY SegmentFields, WrapType
  <2>2. Seg(s.conn, {"ACK"}, s.ack, Wrap(s.seq + 1), WINDOW, <<>>) \in Segment
    BY <1>1, <1>2, <2>1, FlagsListed, SegmentFields, SegType
  <2> QED
    BY <1>1, <1>7, <2>2, MessageType DEF AckSynSent, Emit
<1>8. CASE AckFinWait1(s) \/ AckLastAck(s) \/ RecvStrayFin(s)
  BY <1>2, <1>8 DEF AckFinWait1, AckLastAck, RecvStrayFin, Emit
<1>9. CASE RecvFin(s)
  <2>1. Wrap(s.seq + 1) \in Seq32
    BY SegmentFields, WrapType
  <2>2. Seg(s.conn, {"ACK"}, s.ack, Wrap(s.seq + 1), s.win, <<>>) \in Segment
    BY <1>1, <1>2, <2>1, FlagsListed, SegmentFields, SegType
  <2>3. WriteMsg(s.conn, <<>>) \in Messages
    BY <1>1, <1>2, MessageType
  <2> QED
    BY <1>9, <2>2, <2>3 DEF RecvFin, Emit
<1> QED
  BY <1>4, <1>5, <1>6, <1>7, <1>8, <1>9 DEF RecvSegment

LEMMA RequestOutputs ==
    ASSUME TypeOK, SockRequest
    PROVE  mux' \subseteq Segment /\ sock' \in Seq(Messages)
<1>1. now \in Nat /\ clist \in Seq(Entry) /\ listening \subseteq Locals
  BY DEF TypeOK
<1>2. <<>> \in Seq(Messages) /\ WINDOW \in Seq32
  BY ConstAssumption
<1>3. /\ \A n \in Nat : <<BytesMsg(n)>> \in Seq(Messages)
      /\ \A error \in {"EOK", "-1"} : <<StatusMsg(error)>> \in Seq(Messages)
  BY MessageType
<1> DEFINE Pair(p, r) == [src |-> p, dest |-> r]
<1>4. \A p \in Locals, r \in Remotes : Pair(p, r) \in Conns
  BY DEF Conns
<1>5. ASSUME NEW c, SockAccept(c)
      PROVE  mux' \subseteq Segment /\ sock' \in Seq(Messages)
  BY <1>3, <1>5 DEF SockAccept, Emit
<1>6. ASSUME NEW c \in Conns, SockConnect(c)
      PROVE  mux' \subseteq Segment /\ sock' \in Seq(Messages)
  <2>1. Syn(c, SynSent(c)) \in Segment
    BY <1>1, ListenerType, SentSegmentsType
  <2> QED
    BY <1>3, <1>6, <2>1 DEF SockConnect, Emit
<1>7. CASE SockForward
  BY <1>3, <1>7 DEF SockForward, Emit
<1>8. ASSUME NEW c, NEW n, SockStatus(c, n)
      PROVE  mux' \subseteq Segment /\ sock' \in Seq(Messages)
  BY <1>2, <1>8 DEF SockStatus, Emit
<1>9. ASSUME NEW c \in Conns, NEW w \in Writes, SockWrite(c, w)
      PROVE  mux' \subseteq Segment /\ sock' \in Seq(Messages)
  <2>1. ASSUME NEW i \in DOMAIN clist, Queue(i, c, w)
        PROVE  mux' \subseteq Segment /\ sock' \in Seq(Messages)
    <3>1. clist[i] \in Entry
      BY <1>1
    <3>2. w \in Seq(Bytes)
      BY ConstAssumption
    <3>3. PayloadSize(clist[i], Len(w)) \in Nat
      BY <1>1, <3>1, QueuedType
    <3>4. TakeFront(w, PayloadSize(clist[i], Len(w))) \in Seq(Bytes)
      BY <3>2, <3>3, TakeFrontType
    <3>5. Seg(c, {"ACK"}, clist[i].sent, clist[i].rcvd, WINDOW,
              TakeFront(w, PayloadSize(clist[i], Len(w)))) \in Segment
      BY <1>2, <3>1, <3>4, EntryFields, FlagsListed, SegType
    <3> QED
      BY <1>3, <2>1, <3>3, <3>5 DEF Queue, Emit
  <2>2. CASE Emit({}, <<StatusMsg("-1")>>) \/ Emit({}, <<>>)
    BY <1>2, <1>3, <2>2 DEF Emit
  <2> QED
    BY <1>9, <2>1, <2>2 DEF SockWrite
<1>10. ASSUME NEW c \in Conns, SockClose(c)
       PROVE  mux' \subseteq Segment /\ sock' \in Seq(Messages)
  BY <1>1, <1>2, <1>10, SentSegmentsType DEF SockClose, Emit
<1>11. ASSUME NEW c, SockStrayClose(c)
       PROVE  mux' \subseteq Segment /\ sock' \in Seq(Messages)
  BY <1>2, <1>11 DEF SockStrayClose, Emit
<1>12. Closable \subseteq Conns
  BY <1>1 DEF Closable, Conns
<1> QED
  BY <1>4, <1>5, <1>6, <1>7, <1>8, <1>9, <1>10, <1>11, <1>12 DEF SockRequest

LEMMA TimerOutputs ==
    ASSUME TypeOK, ResendHasEntry, CheckTimers
    PROVE  mux' \subseteq Segment /\ sock' \in Seq(Messages) /\ resend' \in Seq(Bytes)
<1>1. now \in Nat /\ clist \in Seq(Entry) /\ resend \in Seq(Bytes)
  BY DEF TypeOK
<1>2. <<>> \in Seq(Messages) /\ WINDOW \in Seq32
  BY ConstAssumption
<1>3. ASSUME NEW i \in DOMAIN clist, Rearmed(clist[i]).tries >= 0
      PROVE  Rearmed(clist[i]) \in Entry
  <2>1. clist[i] \in Entry
    BY <1>1
  <2> QED
    BY <1>1, <1>3, <2>1, RearmedEntry
<1>4. ASSUME NEW e \in Entry, NEW rest, NEW d \in Seq(Bytes), SendLastN(e, rest, d)
      PROVE  mux' \subseteq Segment /\ sock' \in Seq(Messages) /\ resend' \in Seq(Bytes)
  <2> DEFINE q == PayloadSize(e, Len(d))
             left == DropFront(d, q)
             seq == Wrap(e.acked + Len(left) + 2)
             data == TakeFront(d, q)
  <2>1. Len(d) \in Nat
    OBVIOUS
  <2>2. q \in Nat
    BY <2>1, PayloadSizeType
  <2>3. left \in Seq(Bytes) /\ data \in Seq(Bytes)
    BY <2>2, DropFrontType, TakeFrontType
  <2>4. Len(left) \in Nat /\ e.acked \in Nat
    BY <2>3, EntryFields
  <2>5. e.acked + Len(left) + 2 \in Int
    BY <2>4
  <2>6. seq \in Seq32
    BY <2>5, WrapType
  <2>7. /\ resend' = left
        /\ Emit({Seg(e.conn, {"ACK"}, seq, e.rcvd, WINDOW, data)}, <<>>)
    BY <1>4 DEF SendLastN
  <2> HIDE DEF q, left, seq, data
  <2>8. Seg(e.conn, {"ACK"}, seq, e.rcvd, WINDOW, data) \in Segment
    BY <1>2, <2>3, <2>6, EntryFields, FlagsListed, SegType
  <2> QED
    BY <1>2, <2>3, <2>7, <2>8 DEF Emit
<1>5. CASE GiveUp \/ TimeWaitOver \/ TimersChecked
  BY <1>1, <1>2, <1>5 DEF GiveUp, TimeWaitOver, TimersChecked, Emit, Handled
<1>6. CASE Retry
  <2>1. PICK i \in DOMAIN clist :
          /\ Rearmed(clist[i]).tries >= 0
          /\ Emit(Retransmission(Rearmed(clist[i])), <<>>)
          /\ resend' = resend
    BY <1>6 DEF Retry, Handled
  <2>2. Rearmed(clist[i]) \in Entry
    BY <1>3, <2>1
  <2>3. Rearmed(clist[i]).conn \in Conns
    BY <2>2, EntryFields
  <2>4. Retransmission(Rearmed(clist[i])) \subseteq Segment
    BY <2>2, <2>3, SentSegmentsType
  <2> QED
    BY <1>1, <1>2, <2>1, <2>4 DEF Emit
<1>7. CASE ResendFirst
  <2>1. PICK i \in DOMAIN clist :
          /\ Rearmed(clist[i]).tries >= 0
          /\ SendLastN(Rearmed(clist[i]), Without(clist, i), Rearmed(clist[i]).snd)
    BY <1>7 DEF ResendFirst
  <2>2. Rearmed(clist[i]) \in Entry
    BY <1>3, <2>1
  <2>3. Rearmed(clist[i]).snd \in Seq(Bytes)
    BY <2>2, EntryFields
  <2> QED
    BY <1>4, <2>1, <2>2, <2>3
<1>8. CASE ResendNext
  <2>1. clist # <<>> /\ SendLastN(Head(clist), Tail(clist), resend)
    BY <1>8 DEF ResendNext, ResendHasEntry
  <2>2. Head(clist) \in Entry
    BY <1>1, <2>1
  <2> QED
    BY <1>1, <1>4, <2>1, <2>2
<1> QED
  BY <1>5, <1>6, <1>7, <1>8 DEF CheckTimers

-----------------------------------------------------------------------------
(***************************************************************************)
(* The steps.                                                              *)
(***************************************************************************)

LEMMA StepWithin ==
    ASSUME NEW S, Closed(S), TypeOK, ResendHasEntry, clist \in Seq(S), [Next]_vars
    PROVE  clist' \in Seq(S)
<1>1. listening \subseteq Locals /\ resend \in Seq(Bytes)
  BY DEF TypeOK
<1>2. CASE \E s \in Segments : RecvSegment(s)
  BY <1>2, SegmentClosed
<1>3. CASE SockRequest
  BY <1>1, <1>3, RequestClosed DEF Closed
<1>4. CASE CheckTimers
  BY <1>1, <1>4, TimerClosed DEF Closed
<1>5. CASE Timeout
  BY <1>5 DEF Timeout
<1>6. CASE UNCHANGED vars
  BY <1>6 DEF vars
<1> QED
  BY <1>2, <1>3, <1>4, <1>5, <1>6 DEF Next

LEMMA ReadySteps ==
    ASSUME ResendHasEntry, (\E s \in Segments : RecvSegment(s)) \/ SockRequest
    PROVE  /\ ~ checking /\ resend = <<>>
           /\ UNCHANGED <<listening, now, checking, resend>>
           /\ fault' = fault \/ fault' = "undefined"
<1>1. ~ checking /\ resend = <<>>
  BY DEF RecvSegment, SockRequest, Ready, ResendHasEntry
<1>2. CASE \E s \in Segments : RecvSegment(s)
  BY <1>1, <1>2
  DEF RecvSegment, RecvSyn, AckSynRcvd, AckEstablished, AckSynSent, AckFinWait1, AckLastAck,
      RecvFin, RecvStrayFin, Handled
<1>3. CASE SockRequest
  BY <1>1, <1>3
  DEF SockRequest, SockAccept, SockConnect, SockForward, SockStatus, SockWrite, SockClose,
      SockStrayClose, Handled
<1> QED
  BY <1>2, <1>3

LEMMA TimerSteps ==
    ASSUME TypeOK, ResendHasEntry, CheckTimers
    PROVE  /\ UNCHANGED <<listening, now>>
           /\ checking' = checking \/ checking' = FALSE
           /\ fault' = fault \/ fault' = "diverges"
           /\ ResendHasEntry'
<1>0. clist \in Seq(Entry) /\ resend \in Seq(Bytes) /\ now \in Nat
  BY DEF TypeOK
<1>1. CASE GiveUp \/ Retry \/ TimeWaitOver
  BY <1>1 DEF GiveUp, Retry, TimeWaitOver, Expired, Handled, ResendHasEntry
<1>2. CASE TimersChecked
  BY <1>2 DEF TimersChecked, ResendHasEntry
<1>3. ASSUME NEW e, NEW rest, NEW d, SendLastN(e, rest, d), checking
      PROVE  /\ UNCHANGED <<listening, now, checking>>
             /\ fault' = fault \/ fault' = "diverges"
  BY <1>3 DEF SendLastN
<1>4. ASSUME NEW e \in Entry, NEW rest \in Seq(Entry), NEW d \in Seq(Bytes),
             SendLastN(e, rest, d), resend' # <<>>
      PROVE  clist' # <<>> /\ Head(clist').snd # <<>>
  <2> DEFINE left == DropFront(d, PayloadSize(e, Len(d)))
             h == [e EXCEPT !.snd = @ \o left]
  <2>1. Len(d) \in Nat
    OBVIOUS
  <2>2. left \in Seq(Bytes)
    BY <2>1, PayloadSizeType, DropFrontType
  <2>3. resend' = left /\ clist' = <<h>> \o rest
    BY <1>4 DEF SendLastN
  <2> HIDE DEF left
  <2>4. left # <<>>
    BY <1>4, <2>3
  <2>5. e.snd \o left # <<>>
    <3>1. Len(e.snd \o left) = Len(e.snd) + Len(left) /\ Len(e.snd) \in Nat /\ Len(left) \in Nat
      BY <2>2, EntryFields
    <3>2. Len(left) # 0
      BY <2>2, <2>4
    <3> QED
      BY <3>1, <3>2
  <2>6. h.snd # <<>>
    BY <2>5 DEF Entry
  <2> HIDE DEF h
  <2>7. <<h>> \o rest # <<>> /\ Head(<<h>> \o rest) = h
    <3>1. Len(<<h>> \o rest) = 1 + Len(rest) /\ Len(rest) \in Nat
      OBVIOUS
    <3>2. (<<h>> \o rest)[1] = h
      OBVIOUS
    <3> QED
      BY <3>1, <3>2
  <2> QED
    BY <2>3, <2>6, <2>7
<1>5. CASE ResendFirst
  <2>1. PICK i \in DOMAIN clist :
          /\ checking
          /\ Rearmed(clist[i]).tries >= 0
          /\ SendLastN(Rearmed(clist[i]), Without(clist, i), Rearmed(clist[i]).snd)
    BY <1>5 DEF ResendFirst, Expired
  <2>2. Rearmed(clist[i]) \in Entry
    BY <1>0, <2>1, RearmedEntry
  <2>3. Without(clist, i) \in Seq(Entry) /\ Rearmed(clist[i]).snd \in Seq(Bytes)
    BY <1>0, <2>2, WithoutSeq, EntryFields
  <2>4. resend' # <<>> => clist' # <<>> /\ Head(clist').snd # <<>>
    BY <1>4, <2>1, <2>2, <2>3
  <2> QED
    BY <1>3, <2>1, <2>4 DEF ResendHasEntry
<1>6. CASE ResendNext
  <2>1. checking /\ clist # <<>> /\ SendLastN(Head(clist), Tail(clist), resend)
    BY <1>6 DEF ResendNext, ResendHasEntry
  <2>2. Head(clist) \in Entry /\ Tail(clist) \in Seq(Entry)
    BY <1>0, <2>1
  <2>3. resend' # <<>> => clist' # <<>> /\ Head(clist').snd # <<>>
    BY <1>0, <1>4, <2>1, <2>2
  <2> QED
    BY <1>3, <2>1, <2>3 DEF ResendHasEntry
<1> QED
  BY <1>1, <1>2, <1>5, <1>6 DEF CheckTimers

LEMMA TypeInit == Init => TypeOK /\ ResendHasEntry
<1>1. <<>> \in Seq(Entry) /\ <<>> \in Seq(Bytes) /\ <<>> \in Seq(Messages)
  OBVIOUS
<1>2. ASSUME Init
      PROVE  /\ listening \subseteq Locals /\ clist \in Seq(Entry) /\ now \in Nat
             /\ resend \in Seq(Bytes) /\ mux \subseteq Segment /\ sock \in Seq(Messages)
             /\ fault \in {"none", "undefined", "diverges"}
  BY <1>1, <1>2 DEF Init
<1>3. ASSUME Init
      PROVE  checking \in BOOLEAN /\ ResendHasEntry
  BY <1>3 DEF Init, ResendHasEntry
<1> QED
  BY <1>2, <1>3 DEF TypeOK

LEMMA TypeStep ==
    TypeOK /\ ResendHasEntry /\ [Next]_vars => TypeOK' /\ ResendHasEntry'
<1> SUFFICES ASSUME TypeOK, ResendHasEntry, [Next]_vars
             PROVE  TypeOK' /\ ResendHasEntry'
  OBVIOUS
<1>1. now \in Nat /\ clist \in Seq(Entry)
  BY DEF TypeOK
<1>2. clist' \in Seq(Entry)
  BY <1>1, EntryClosed, StepWithin
<1>3. CASE (\E s \in Segments : RecvSegment(s)) \/ SockRequest
  <2>1. mux' \subseteq Segment /\ sock' \in Seq(Messages)
    BY <1>3, SegmentOutputs, RequestOutputs
  <2> QED
    BY <1>2, <1>3, <2>1, ReadySteps DEF TypeOK, ResendHasEntry
<1>4. CASE CheckTimers
  <2>1. mux' \subseteq Segment /\ sock' \in Seq(Messages) /\ resend' \in Seq(Bytes)
    BY <1>4, TimerOutputs
  <2> QED
    BY <1>1, <1>2, <1>4, <2>1, TimerSteps DEF TypeOK
<1>5. CASE Timeout
  <2>1. resend = <<>>
    BY <1>5 DEF Timeout, Ready, ResendHasEntry
  <2> QED
    BY <1>2, <1>5, <2>1 DEF Timeout, Emit, TypeOK, ResendHasEntry
<1>6. CASE UNCHANGED vars
  BY <1>6 DEF vars, TypeOK, ResendHasEntry
<1> QED
  BY <1>3, <1>4, <1>5, <1>6 DEF Next

\* Whatever the peer sends and the application asks for, every counter stays
\* within its width, every segment sent is well formed and sendLastN never runs
\* on an empty list (tcp_module.cc, all handlers).
THEOREM TypeCorrect == Spec => [](TypeOK /\ ResendHasEntry)
<1> QED
  BY TypeInit, TypeStep, PTL DEF Spec

-----------------------------------------------------------------------------
(***************************************************************************)
(* Timers.                                                                 *)
(***************************************************************************)

\* Only the timer sends queued data again; between here and there the deadline
\* may only come nearer.  FIN_WAIT2 moves its deadline away, on its way to
\* TIME_WAIT, and the handshake turns its timer off: neither holds data.
Timed(e, t) ==
    /\ e.st \in {"SYN_RCVD", "SYN_SENT"} \/ e.snd # <<>> => e.tmr /\ e.due <= t + 1
    /\ e.st \in {"SYN_RCVD", "FIN_WAIT2"} => e.snd = <<>>

TimedEntry(t) == {e \in Entry : Timed(e, t)}

LEMMA TimedClosed == ASSUME now \in Nat PROVE Closed(TimedEntry(now))
<1> DEFINE S == TimedEntry(now)
<1>0. Closed(Entry) /\ S \subseteq Entry
  BY EntryClosed DEF TimedEntry
<1> USE DEF TimedEntry, Timed
<1>1. ClosedUnderSegments(S)
  <2>1. \A s \in Segments : SynRcvd(s) \in S
    BY SynRcvdType DEF SynRcvd
  <2>2. \A e \in S, s \in Segments : e.st = "SYN_RCVD" => Established(e, s) \in S
    BY EstablishedType
  <2>3. \A e \in S, s \in Segments : Connected(e, s) \in S
    BY ConnectedType
  <2>4. \A e \in S, s \in Segments :
          e.st \in {"ESTABLISHED", "SEND_DATA"} => AfterAck(e, s) \in S /\ AfterData(e, s) \in S
    <3>1. TAKE e \in S, s \in Segments
    <3>2. HAVE e.st \in {"ESTABLISHED", "SEND_DATA"}
    <3>3. AfterAck(e, s) = e \/ AfterAck(e, s) \in S
      BY <3>2, AfterAckType
    <3>4. AfterData(e, s) = e \/ AfterData(e, s) \in S
      <4> DEFINE d == AfterData(e, s)
      <4>1. e \in Entry
        OBVIOUS
      <4>2. d \in Entry /\ d.st = e.st /\ (d # e => d.tmr /\ d.due = now + 1)
        BY <4>1, AfterDataType
      <4> HIDE DEF d
      <4>3. d = e \/ d \in S
        BY <3>2, <4>2
      <4> QED
        BY <4>3 DEF d
    <3> QED
      BY <3>3, <3>4
  <2>5. \A e \in S : e.snd = <<>> => [e EXCEPT !.st = "FIN_WAIT2"] \in S
    BY StatesListed DEF Entry
  <2>6. \A e \in S :
          e.st \notin {"CLOSED", "LISTEN", "SYN_SENT"} =>
             [AfterFin(e) EXCEPT !.rcvd = Wrap(@ + 1)] \in S
    <3>1. TAKE e \in S
    <3>2. HAVE e.st \notin {"CLOSED", "LISTEN", "SYN_SENT"}
    <3>3. [AfterFin(e) EXCEPT !.rcvd = Wrap(@ + 1)] \in Entry /\ AfterFin(e) \in Entry
      BY FinType
    <3>4. Timed(AfterFin(e), now)
      BY <3>2, FinType DEF AfterFin, Entry
    <3> QED
      BY <3>3, <3>4 DEF Entry
  <2> QED
    BY <2>1, <2>2, <2>3, <2>4, <2>5, <2>6 DEF ClosedUnderSegments
<1>2. ClosedUnderRequests(S)
  <2>1. \A c \in Conns : Listener(c) \in S /\ SynSent(c) \in S
    <3>1. TAKE c \in Conns
    <3>2. Listener(c) \in Entry /\ SynSent(c) \in Entry
      BY ListenerType
    <3>3. Listener(c).st = "LISTEN" /\ Listener(c).snd = <<>>
      BY DEF Listener
    <3>4. SynSent(c).st = "SYN_SENT" /\ SynSent(c).tmr /\ SynSent(c).due = now + 1
      BY DEF SynSent, Listener
    <3> QED
      BY <3>2, <3>3, <3>4
  <2>2. \A e \in S, n \in Nat : [e EXCEPT !.rcv = DropFront(@, n)] \in S
    BY <1>0 DEF Closed, ClosedUnderRequests, Entry
  <2>3. \A e \in S, w \in Writes : Queued(e, w) \in S
    BY QueuedType
  <2>4. \A e \in S : AfterClose(e) \in S
    BY StatesListed DEF AfterClose, Entry
  <2> QED
    BY <2>1, <2>2, <2>3, <2>4, BoundConns DEF ClosedUnderRequests
<1>3. ClosedUnderTimers(S)
  <2>1. \A e \in S : e.tmr /\ e.tries > 0 => Rearmed(e) \in S /\ AfterRetry(Rearmed(e)) \in S
    <3>1. TAKE e \in S
    <3>2. HAVE e.tmr /\ e.tries > 0
    <3> DEFINE r == Rearmed(e)
    <3>3. r \in Entry /\ AfterRetry(r) \in Entry
      BY <3>2, RearmedType
    <3>4. r.st = e.st /\ r.snd = e.snd /\ r.tmr /\ r.due = now + 1
      BY <3>2 DEF Rearmed, Entry
    <3> HIDE DEF r
    <3>5. r \in S
      BY <3>3, <3>4
    <3>6. \/ AfterRetry(r) = r
          \/ /\ AfterRetry(r).st = "LAST_ACK"
             /\ AfterRetry(r).tmr /\ AfterRetry(r).due = now + 1
      BY <3>3, <3>4 DEF AfterRetry, Entry
    <3>7. AfterRetry(r) \in S
      BY <3>3, <3>5, <3>6
    <3> QED
      BY <3>5, <3>7 DEF r
  <2>2. \A e \in S, d \in Seq(Bytes) : (d # <<>> => e.snd # <<>>) => [e EXCEPT !.snd = @ \o d] \in S
    <3>1. TAKE e \in S, d \in Seq(Bytes)
    <3>2. HAVE d # <<>> => e.snd # <<>>
    <3>3. e.snd \o d # <<>> => e.snd # <<>>
      BY <3>2
    <3>4. [e EXCEPT !.snd = @ \o d] \in Entry
      BY <1>0, <3>2 DEF Closed, ClosedUnderTimers
    <3> QED
      BY <3>3, <3>4 DEF Entry
  <2> QED
    BY <2>1, <2>2 DEF ClosedUnderTimers
<1> QED
  BY <1>0, <1>1, <1>2, <1>3 DEF Closed

\* Time only passes: a deadline within one period stays within one period.
LEMMA TimedLater ==
    ASSUME TypeOK, ResendHasEntry, Next
    PROVE  TimedEntry(now) \subseteq TimedEntry(now')
<1>1. now \in Nat /\ (now' = now \/ now' = now + 1)
  <2>1. now \in Nat
    BY DEF TypeOK
  <2>2. CASE (\E s \in Segments : RecvSegment(s)) \/ SockRequest
    BY <2>1, <2>2, ReadySteps
  <2>3. CASE CheckTimers
    BY <2>1, <2>3, TimerSteps
  <2>4. CASE Timeout
    BY <2>1, <2>4 DEF Timeout
  <2> QED
    BY <2>2, <2>3, <2>4, <2>1 DEF Next
<1> QED
  BY <1>1, EntryFields DEF TimedEntry, Timed

\* A connection in the handshake, or with data in its send buffer, has its timer
\* running and due within one period, whatever writes, ACKs, FINs, closes and
\* timeouts come (tcp_module.cc, every assignment of bTmrActive and timeout, and
\* every place that fills the send buffer).
THEOREM DataKeepsTimer == Spec => []DataHasTimer
<1> DEFINE Inv == TypeOK /\ ResendHasEntry /\ clist \in Seq(TimedEntry(now))
<1>1. Init => Inv
  BY TypeInit DEF Init
<1>2. Inv /\ [Next]_vars => Inv'
  <2> SUFFICES ASSUME Inv, [Next]_vars
               PROVE  Inv'
    OBVIOUS
  <2>1. TypeOK' /\ ResendHasEntry'
    BY TypeStep
  <2>2. now \in Nat
    BY DEF TypeOK
  <2>3. clist' \in Seq(TimedEntry(now))
    BY <2>2, TimedClosed, StepWithin
  <2>4. CASE Next
    BY <2>1, <2>3, <2>4, TimedLater
  <2>5. CASE UNCHANGED vars
    BY <2>1, <2>3, <2>5 DEF vars
  <2> QED
    BY <2>4, <2>5
<1>3. Inv => DataHasTimer
  BY DEF DataHasTimer, TimedEntry, Timed
<1> QED
  BY <1>1, <1>2, <1>3, PTL DEF Spec

-----------------------------------------------------------------------------
(***************************************************************************)
(* Announcements.  The handlers that make a connection usable find it by   *)
(* the segment's two ends; only a listener has a wildcard, so the entry    *)
(* they find is the one of exactly those ends.                             *)
(***************************************************************************)

\* The handshake is between two given ends.
BoundEntry == {e \in Entry : e.st \in {"SYN_RCVD", "SYN_SENT"} => e.conn \in [src : Locals, dest : Remotes]}

LEMMA BoundClosed == ASSUME now \in Nat PROVE Closed(BoundEntry)
<1>0. Closed(Entry) /\ BoundEntry \subseteq Entry
  BY EntryClosed DEF BoundEntry
<1> USE DEF BoundEntry
<1>1. ClosedUnderSegments(BoundEntry)
  <2>1. \A s \in Segments : SynRcvd(s) \in BoundEntry
    BY SynRcvdType, SegmentFields DEF SynRcvd
  <2>2. \A e \in BoundEntry, s \in Segments :
          Established(e, s) \in BoundEntry /\ Connected(e, s) \in BoundEntry
    BY EstablishedType, ConnectedType
  <2>3. \A e \in BoundEntry, s \in Segments :
          e.st \in {"ESTABLISHED", "SEND_DATA"} =>
             AfterAck(e, s) \in BoundEntry /\ AfterData(e, s) \in BoundEntry
    BY AfterAckType, AfterDataType
  <2>4. \A e \in BoundEntry : [e EXCEPT !.st = "FIN_WAIT2"] \in BoundEntry
    BY StatesListed DEF Entry
  <2>5. \A e \in BoundEntry :
          e.st \notin {"CLOSED", "LISTEN", "SYN_SENT"} =>
             [AfterFin(e) EXCEPT !.rcvd = Wrap(@ + 1)] \in BoundEntry
    BY FinType DEF Entry
  <2> QED
    BY <2>1, <2>2, <2>3, <2>4, <2>5 DEF ClosedUnderSegments
<1>2. ClosedUnderRequests(BoundEntry)
  <2>1. /\ \A c \in Conns : Listener(c) \in BoundEntry
        /\ \A c \in [src : Locals, dest : Remotes] : SynSent(c) \in BoundEntry
    BY ListenerType, BoundConns DEF Listener, SynSent, Entry
  <2>2. \A e \in BoundEntry, n \in Nat : [e EXCEPT !.rcv = DropFront(@, n)] \in BoundEntry
    BY <1>0 DEF Closed, ClosedUnderRequests, Entry
  <2>3. \A e \in BoundEntry, w \in Writes : Queued(e, w) \in BoundEntry
    BY QueuedType
  <2>4. \A e \in BoundEntry : AfterClose(e) \in BoundEntry
    BY StatesListed DEF AfterClose, Entry
  <2> QED
    BY <2>1, <2>2, <2>3, <2>4 DEF ClosedUnderRequests
<1>3. ClosedUnderTimers(BoundEntry)
  <2>1. \A e \in BoundEntry : e.tmr /\ e.tries > 0 =>
          Rearmed(e) \in BoundEntry /\ AfterRetry(Rearmed(e)) \in BoundEntry
    BY RearmedType DEF Rearmed, AfterRetry, Entry
  <2>2. \A e \in BoundEntry, d \in Seq(Bytes) :
        (d # <<>> => e.snd # <<>>) => [e EXCEPT !.snd = @ \o d] \in BoundEntry
    BY <1>0 DEF Closed, ClosedUnderTimers, Entry
  <2> QED
    BY <2>1, <2>2 DEF ClosedUnderTimers
<1> QED
  BY <1>0, <1>1, <1>2, <1>3 DEF Closed

\* The entry that a segment's handshake step finds has the segment's two ends.
LEMMA MatchIsEqual ==
    ASSUME NEW s \in Segments, NEW i, clist \in Seq(BoundEntry), IsAck(s, i),
           clist[i].st \in {"SYN_RCVD", "SYN_SENT"}
    PROVE  clist[i].conn = s.conn
<1>1. clist[i] \in BoundEntry
  BY FirstMatchEntry DEF IsAck
<1>2. clist[i].conn \in [src : Locals, dest : Remotes] /\ s.conn \in [src : Locals, dest : Remotes]
  BY <1>1, SegmentFields DEF BoundEntry
<1>3. Matches(clist[i].conn, s.conn)
  BY DEF IsAck, IsFirstMatch
<1>4. ANY \notin Locals /\ ANY \notin Remotes
  BY ConstAssumption
<1>5. clist[i].conn.src = s.conn.src /\ clist[i].conn.dest = s.conn.dest
  BY <1>2, <1>3, <1>4 DEF Matches, EndpointMatches
<1> QED
  BY <1>2, <1>5

\* The entries that do not make c usable.
NotOpen(c) == {e \in Entry : e.conn = c => e.st \notin {"ESTABLISHED", "SEND_DATA"}}

Announces(c) == sock' # <<>> /\ Head(sock') = WriteMsg(c, <<>>)

LEMMA AnnouncedHead ==
    ASSUME NEW c, NEW up \in Seq(Messages), c \in Conns, sock' = NewConnection(c) \o up
    PROVE  Announces(c)
<1> DEFINE m == WriteMsg(c, <<>>)
<1>1. m \in Messages
  <2>1. <<>> \in Seq(Bytes)
    OBVIOUS
  <2> QED
    BY <2>1, MessageType
<1>2. NewConnection(c) = <<m>>
  BY DEF NewConnection
<1> HIDE DEF m
<1>3. <<m>> \o up # <<>> /\ Head(<<m>> \o up) = m
  <2>1. (<<m>> \o up) \in Seq(Messages) /\ Len(<<m>> \o up) = 1 + Len(up) /\ Len(up) \in Nat
    BY <1>1
  <2>2. (<<m>> \o up)[1] = m
    BY <1>1
  <2> QED
    BY <2>1, <2>2
<1> QED
  BY <1>2, <1>3 DEF Announces, m

\* Only the three steps that announce a connection make it usable.
LEMMA SegmentAnnounces ==
    ASSUME TypeOK, clist \in Seq(BoundEntry), NEW s \in Segments, RecvSegment(s),
           NEW c, clist \in Seq(NotOpen(c))
    PROVE  clist' \in Seq(NotOpen(c)) \/ Announces(c)
<1>1. now \in Nat /\ NotOpen(c) \subseteq Entry
  BY DEF TypeOK, NotOpen
<1>2. s.conn \in Conns /\ <<>> \in Seq(Messages)
  BY SegmentFields
<1>3. \A e \in NotOpen(c) : e \in Entry
  BY <1>1
<1>4. CASE RecvSyn(s)
  <2> DEFINE e == SynRcvd(s)
  <2>1. e \in Entry /\ e.conn = s.conn /\ e.st = "SYN_RCVD"
    BY <1>1, SynRcvdType DEF SynRcvd
  <2>2. Established(e, s) \in Entry /\ Established(e, s).conn = s.conn
    BY <2>1, EstablishedType
  <2>3. e \in NotOpen(c)
    BY <2>1 DEF NotOpen
  <2>4. \/ clist' = <<e>> \o clist
        \/ clist' = <<Established(e, s)>> \o clist /\ sock' = NewConnection(s.conn)
    BY <1>4 DEF RecvSyn, Emit
  <2> HIDE DEF e
  <2>5. CASE clist' = <<e>> \o clist
    BY <2>3, <2>5, PushSeq
  <2>6. CASE clist' = <<Established(e, s)>> \o clist /\ s.conn # c
    <3>1. Established(e, s) \in NotOpen(c)
      BY <2>2, <2>6 DEF NotOpen
    <3> QED
      BY <2>6, <3>1, PushSeq
  <2>7. CASE sock' = NewConnection(s.conn) /\ s.conn = c
    <3>1. NewConnection(c) \o <<>> = NewConnection(c)
      BY <1>2, <2>7, MessageType
    <3> QED
      BY <1>2, <2>7, <3>1, AnnouncedHead
  <2> QED
    BY <2>4, <2>5, <2>6, <2>7
<1>5. CASE AckSynRcvd(s)
  <2>1. PICK i \in DOMAIN clist :
          /\ IsAck(s, i) /\ clist[i].st = "SYN_RCVD"
          /\ clist' = ToFront(clist, i, AfterData(Established(clist[i], s), s))
          /\ sock' = NewConnection(s.conn) \o DataUp(Established(clist[i], s), s)
    BY <1>5 DEF AckSynRcvd, Emit
  <2> DEFINE e == Established(clist[i], s)
  <2>2. clist[i] \in Entry /\ clist[i].conn = s.conn
    BY <1>3, <2>1, MatchIsEqual
  <2>3. e \in Entry /\ e.conn = s.conn
    BY <2>2, EstablishedType
  <2>4. DataUp(e, s) \in Seq(Messages) /\ AfterData(e, s) \in Entry /\ AfterData(e, s).conn = s.conn
    BY <1>1, <2>3, DataOutType, AfterDataType
  <2>5. CASE s.conn = c
    BY <1>2, <2>1, <2>4, <2>5, AnnouncedHead
  <2>6. CASE s.conn # c
    <3>1. AfterData(e, s) \in NotOpen(c)
      BY <2>4, <2>6 DEF NotOpen
    <3> QED
      BY <2>1, <3>1, ToFrontSeq
  <2> QED
    BY <2>5, <2>6
<1>6. CASE AckEstablished(s)
  <2>1. PICK i \in DOMAIN clist :
          /\ AfterAck(clist[i], s).st \in {"ESTABLISHED", "SEND_DATA"}
          /\ \/ clist' = ToFront(clist, i, AfterData(AfterAck(clist[i], s), s))
             \/ clist' = clist
    BY <1>6 DEF AckEstablished
  <2>2. clist[i] \in NotOpen(c) /\ clist[i] \in Entry
    BY <1>3
  <2>3. clist[i].st \in {"ESTABLISHED", "SEND_DATA"}
    BY <2>1 DEF AfterAck, Slides
  <2>4. AfterAck(clist[i], s) \in Entry /\ AfterAck(clist[i], s).conn = clist[i].conn
    BY <1>1, <2>2, <2>3, AfterAckType
  <2>5. /\ AfterData(AfterAck(clist[i], s), s) \in Entry
        /\ AfterData(AfterAck(clist[i], s), s).conn = clist[i].conn
    BY <1>1, <2>4, AfterDataType
  <2>6. AfterData(AfterAck(clist[i], s), s) \in NotOpen(c)
    BY <2>2, <2>3, <2>5 DEF NotOpen
  <2>7. ToFront(clist, i, AfterData(AfterAck(clist[i], s), s)) \in Seq(NotOpen(c))
    BY <2>6, ToFrontSeq
  <2> QED
    BY <2>1, <2>7
<1>7. CASE AckSynSent(s)
  <2>1. PICK i \in DOMAIN clist :
          /\ IsAck(s, i) /\ clist[i].st = "SYN_SENT"
          /\ clist' = ToFront(clist, i, Connected(clist[i], s))
          /\ sock' = NewConnection(s.conn)
    BY <1>7 DEF AckSynSent, Emit
  <2>2. clist[i] \in Entry /\ clist[i].conn = s.conn
    BY <1>3, <2>1, MatchIsEqual
  <2>3. Connected(clist[i], s) \in Entry /\ Connected(clist[i], s).conn = s.conn
    BY <1>1, <2>2, ConnectedType
  <2>4. CASE s.conn = c
    <3>1. NewConnection(c) \o <<>> = NewConnection(c)
      BY <1>2, <2>4, MessageType
    <3> QED
      BY <1>2, <2>1, <2>4, <3>1, AnnouncedHead
  <2>5. CASE s.conn # c
    <3>1. Connected(clist[i], s) \in NotOpen(c)
      BY <2>3, <2>5 DEF NotOpen
    <3> QED
      BY <2>1, <3>1, ToFrontSeq
  <2> QED
    BY <2>4, <2>5
<1>8. CASE AckFinWait1(s)
  <2>1. PICK i \in DOMAIN clist : clist' = ToFront(clist, i, [clist[i] EXCEPT !.st = "FIN_WAIT2"])
    BY <1>8 DEF AckFinWait1
  <2>2. clist[i] \in Entry
    BY <1>3
  <2>3. [clist[i] EXCEPT !.st = "FIN_WAIT2"] \in NotOpen(c)
    BY <2>2, StatesListed DEF NotOpen, Entry
  <2> QED
    BY <2>1, <2>3, ToFrontSeq
<1>9. CASE AckLastAck(s)
  BY <1>9, WithoutSeq DEF AckLastAck
<1>10. CASE RecvFin(s)
  <2>1. PICK i \in DOMAIN clist :
          /\ clist[i].st \notin {"CLOSED", "LISTEN", "SYN_SENT"}
          /\ clist' = ToFront(clist, i, [AfterFin(clist[i]) EXCEPT !.rcvd = Wrap(@ + 1)])
    BY <1>10 DEF RecvFin
  <2>2. [AfterFin(clist[i]) EXCEPT !.rcvd = Wrap(@ + 1)] \in NotOpen(c)
    BY <1>1, <1>3, <2>1, FinType DEF NotOpen, Entry
  <2> QED
    BY <2>1, <2>2, ToFrontSeq
<1>11. CASE RecvStrayFin(s)
  BY <1>11 DEF RecvStrayFin
<1> QED
  BY <1>4, <1>5, <1>6, <1>7, <1>8, <1>9, <1>10, <1>11 DEF RecvSegment

LEMMA RequestsOpenNothing ==
    ASSUME now \in Nat, NEW c
    PROVE  ClosedUnderRequests(NotOpen(c))
<1>0. Closed(Entry)
  BY EntryClosed
<1> USE DEF NotOpen
<1>1. /\ \A d \in Conns : Listener(d) \in NotOpen(c)
      /\ \A d \in [src : Locals, dest : Remotes] : SynSent(d) \in NotOpen(c)
  BY ListenerType, BoundConns DEF Listener, SynSent, Entry
<1>2. \A e \in NotOpen(c), n \in Nat : [e EXCEPT !.rcv = DropFront(@, n)] \in NotOpen(c)
  BY <1>0 DEF Closed, ClosedUnderRequests, Entry
<1>3. \A e \in NotOpen(c), w \in Writes :
        e.st \in {"ESTABLISHED", "SEND_DATA"} => Queued(e, w) \in NotOpen(c)
  BY QueuedType
<1>4. \A e \in NotOpen(c) : AfterClose(e) \in NotOpen(c)
  BY StatesListed DEF AfterClose, Entry
<1> QED
  BY <1>1, <1>2, <1>3, <1>4 DEF ClosedUnderRequests

LEMMA TimersOpenNothing ==
    ASSUME now \in Nat, NEW c
    PROVE  ClosedUnderTimers(NotOpen(c))
<1>0. Closed(Entry)
  BY EntryClosed
<1> USE DEF NotOpen
<1>1. \A e \in NotOpen(c) : e.tmr /\ e.tries > 0 =>
        Rearmed(e) \in NotOpen(c) /\ AfterRetry(Rearmed(e)) \in NotOpen(c)
  BY RearmedType DEF Rearmed, AfterRetry, Entry
<1>2. \A e \in NotOpen(c), d \in Seq(Bytes) :
        (d # <<>> => e.snd # <<>>) => [e EXCEPT !.snd = @ \o d] \in NotOpen(c)
  BY <1>0 DEF Closed, ClosedUnderTimers, Entry
<1> QED
  BY <1>1, <1>2 DEF ClosedUnderTimers

\* A connection is announced to the sock module, before any of its data, by the
\* handler that makes it usable: the three places of handleAck that enter
\* ESTABLISHED, and nothing the application asks or a timer does.
THEOREM OpenIsAnnounced == Spec => AnnouncedFirst
<1> DEFINE Inv == TypeOK /\ ResendHasEntry /\ clist \in Seq(BoundEntry)
           Told == \A c \in Open(clist') :
                     (\A i \in DOMAIN clist : clist[i].conn = c =>
                         clist[i].st \notin {"ESTABLISHED", "SEND_DATA"})
                     => sock' # <<>> /\ Head(sock') = WriteMsg(c, <<>>)
<1>1. Init => Inv
  BY TypeInit DEF Init
<1>2. Inv /\ [Next]_vars => Inv'
  <2> SUFFICES ASSUME Inv, [Next]_vars
               PROVE  Inv'
    OBVIOUS
  <2>1. TypeOK' /\ ResendHasEntry'
    BY TypeStep
  <2>2. now \in Nat
    BY DEF TypeOK
  <2>3. clist' \in Seq(BoundEntry)
    BY <2>2, BoundClosed, StepWithin
  <2> QED
    BY <2>1, <2>3
<1>3. Inv /\ [Next]_vars => [Told]_vars
  <2> SUFFICES ASSUME Inv, Next, NEW c \in Open(clist'),
                      \A i \in DOMAIN clist : clist[i].conn = c =>
                         clist[i].st \notin {"ESTABLISHED", "SEND_DATA"}
               PROVE  Announces(c)
    BY DEF Announces
  <2>1. now \in Nat /\ clist \in Seq(Entry) /\ listening \subseteq Locals /\ resend \in Seq(Bytes)
    BY DEF TypeOK
  <2>2. clist \in Seq(NotOpen(c))
    BY <2>1 DEF NotOpen
  <2>3. clist' \notin Seq(NotOpen(c))
    BY DEF Open, NotOpen
  <2>4. CASE \E s \in Segments : RecvSegment(s)
    BY <2>2, <2>3, <2>4, SegmentAnnounces
  <2>5. CASE SockRequest
    BY <2>1, <2>2, <2>3, <2>5, RequestsOpenNothing, RequestClosed
  <2>6. CASE CheckTimers
    <3>1. NotOpen(c) \subseteq Entry
      BY DEF NotOpen
    <3> QED
      BY <2>1, <2>2, <2>3, <2>6, <3>1, TimersOpenNothing, TimerClosed
  <2>7. CASE Timeout
    BY <2>2, <2>3, <2>7 DEF Timeout
  <2> QED
    BY <2>4, <2>5, <2>6, <2>7 DEF Next
<1> QED
  BY <1>1, <1>2, <1>3, PTL DEF Spec, AnnouncedFirst
=============================================================================
