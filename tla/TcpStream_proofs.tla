-------------------------- MODULE TcpStream_proofs --------------------------
(***************************************************************************)
(* The received stream and the send window, for every value of the         *)
(* constants: sequence numbers wrap at any SEQ_MOD.                        *)
(***************************************************************************)
EXTENDS TcpModule_proofs

-----------------------------------------------------------------------------
(***************************************************************************)
(* Arithmetic modulo SEQ_MOD.                                              *)
(***************************************************************************)

LEMMA WrapQuotient ==
    ASSUME NEW x \in Int
    PROVE  \E q \in Int : x = SEQ_MOD * q + Wrap(x)
<1>1. x = SEQ_MOD * (x \div SEQ_MOD) + (x % SEQ_MOD)
  BY SeqTypes
<1>2. x \div SEQ_MOD \in Int
  BY SeqTypes
<1> QED
  BY <1>1, <1>2 DEF Wrap

LEMMA WrapUnique ==
    ASSUME NEW x \in Int, NEW q \in Int, NEW r \in Nat, r < SEQ_MOD, x = SEQ_MOD * q + r
    PROVE  Wrap(x) = r
<1> QED
  BY SeqTypes DEF Wrap

\* Wrapping early changes nothing: the code may wrap after every addition.
LEMMA WrapSum ==
    ASSUME NEW x \in Int, NEW y \in Int
    PROVE  Wrap(Wrap(x) + y) = Wrap(x + y)
<1> DEFINE r == Wrap(x)
           w == Wrap(r + y)
<1>1. r \in Nat
  BY WrapType, SeqTypes
<1>2. r + y \in Int
  BY <1>1
<1>3. w \in Nat /\ w < SEQ_MOD
  BY <1>2, WrapType, SeqTypes
<1>4. PICK p \in Int : x = SEQ_MOD * p + r
  BY WrapQuotient
<1> HIDE DEF r
<1>5. PICK q \in Int : r + y = SEQ_MOD * q + w
  BY <1>2, WrapQuotient
<1> HIDE DEF w
<1>6. x + y = SEQ_MOD * (p + q) + w
  BY <1>1, <1>3, <1>4, <1>5, SeqTypes
<1>7. p + q \in Int /\ x + y \in Int
  OBVIOUS
<1>8. Wrap(x + y) = w
  BY <1>3, <1>6, <1>7, WrapUnique
<1> QED
  BY <1>8 DEF w, r

\* One turn around the number space, up or down.
LEMMA WrapNear ==
    ASSUME NEW x \in Int
    PROVE  /\ 0 <= x /\ x < SEQ_MOD => Wrap(x) = x
           /\ x < 0 /\ -SEQ_MOD <= x => Wrap(x) = x + SEQ_MOD
           /\ SEQ_MOD <= x /\ x < 2 * SEQ_MOD => Wrap(x) = x - SEQ_MOD
<1> QED
  BY SeqTypes DEF Wrap

-----------------------------------------------------------------------------
(***************************************************************************)
(* The received stream.                                                    *)
(***************************************************************************)

Contiguous(e) ==
    /\ e.st \in {"SYN_RCVD", "ESTABLISHED", "SEND_DATA"} =>
          \A k \in 1..Len(e.rcv) : e.rcv[k] = Wrap(e.rcvd - Len(e.rcv) + k - 1)
    /\ e.st \in {"LISTEN", "SYN_SENT"} => e.rcv = <<>>

ContiguousEntry == {e \in Entry : Contiguous(e)}

LEMMA ConcatAt ==
    ASSUME NEW S, NEW a \in Seq(S), NEW b \in Seq(S), NEW k \in 1..(Len(a) + Len(b))
    PROVE  (a \o b)[k] = IF k <= Len(a) THEN a[k] ELSE b[k - Len(a)]
<1> QED
  OBVIOUS

\* A payload in order extends the run.
LEMMA ContiguousData ==
    ASSUME PeerStream, now \in Nat, NEW e \in ContiguousEntry, NEW s \in Segments,
           e.st \in {"SYN_RCVD", "ESTABLISHED", "SEND_DATA"}
    PROVE  AfterData(e, s) \in ContiguousEntry
<1> DEFINE f == AfterData(e, s)
           n == Len(e.rcv)
           m == Len(s.data)
           v == e.rcvd
<1>1. e \in Entry
  BY DEF ContiguousEntry
<1>2. f \in Entry /\ f.st = e.st
  BY <1>1, AfterDataType
<1>3. CASE ~ InOrder(e, s)
  <2>1. f = e
    BY <1>1, <1>3, AfterDataType
  <2> QED
    BY <2>1
<1>4. CASE InOrder(e, s)
  <2>1. /\ f.rcv = e.rcv \o s.data
        /\ f.rcvd = Wrap(s.seq + m)
        /\ s.seq = v
    BY <1>1, <1>4, AfterDataType DEF InOrder
  <2>2. /\ v \in Nat /\ n \in Nat /\ m \in Nat
        /\ e.rcv \in Seq(Bytes) /\ s.data \in Seq(Bytes)
    BY <1>1, EntryFields, SegmentFields
  <2>3. \A k \in 1..n : e.rcv[k] = Wrap(v - n + k - 1)
    BY <1>1 DEF ContiguousEntry, Contiguous
  <2>4. \A k \in 1..m : s.data[k] = Wrap(v + k - 1)
    BY <2>1, <2>2 DEF PeerStream
  <2>5. Len(f.rcv) = n + m
    BY <2>1, <2>2
  <2> HIDE DEF f, n, m, v
  <2>6. \A k \in 1..(n + m) : f.rcv[k] = Wrap(f.rcvd - (n + m) + k - 1)
    <3>1. TAKE k \in 1..(n + m)
    <3>2. /\ v + m \in Int /\ k - 1 - (n + m) \in Int /\ v - n + k - 1 \in Int
      BY <2>2
    <3>3. Wrap(Wrap(v + m) + (k - 1 - (n + m))) = Wrap(v + m + (k - 1 - (n + m)))
      BY <3>2, WrapSum
    <3>4. v + m + (k - 1 - (n + m)) = v - n + k - 1
      BY <2>2
    <3>5. Wrap(v + m) \in Nat
      BY <3>2, WrapType, SeqTypes
    <3>6. Wrap(v + m) - (n + m) + k - 1 = Wrap(v + m) + (k - 1 - (n + m))
      BY <2>2, <3>5
    <3>7. Wrap(f.rcvd - (n + m) + k - 1) = Wrap(v - n + k - 1)
      BY <2>1, <3>3, <3>4, <3>6
    <3>8. CASE k <= n
      <4>1. f.rcv[k] = e.rcv[k]
        BY <2>1, <2>2, <3>8, ConcatAt DEF n, m
      <4> QED
        BY <2>2, <2>3, <3>7, <3>8, <4>1
    <3>9. CASE k > n
      <4>1. f.rcv[k] = s.data[k - n]
        BY <2>1, <2>2, <3>9, ConcatAt DEF n, m
      <4>2. k - n \in 1..m
        BY <2>2, <3>9
      <4>3. s.data[k - n] = Wrap(v + (k - n) - 1)
        BY <2>4, <4>2
      <4>4. v + (k - n) - 1 = v - n + k - 1
        BY <2>2
      <4> QED
        BY <3>7, <4>1, <4>3, <4>4
    <3> QED
      BY <2>2, <3>8, <3>9
  <2>7. Contiguous(f)
    BY <1>2, <2>5, <2>6 DEF Contiguous
  <2> QED
    BY <1>2, <2>7 DEF ContiguousEntry, f
<1> QED
  BY <1>3, <1>4

\* What the sock module takes from the front leaves the rest of the run.
LEMMA ContiguousDrop ==
    ASSUME NEW e \in ContiguousEntry, NEW n \in Nat
    PROVE  [e EXCEPT !.rcv = DropFront(@, n)] \in ContiguousEntry
<1> DEFINE r == DropFront(e.rcv, n)
           f == [e EXCEPT !.rcv = DropFront(@, n)]
           v == e.rcvd
<1>1. e \in Entry /\ Contiguous(e)
  BY DEF ContiguousEntry
<1>2. e.rcv \in Seq(Bytes) /\ Len(e.rcv) \in Nat /\ v \in Nat
  BY <1>1, EntryFields
<1>3. r \in Seq(Bytes)
  BY <1>2, DropFrontType
<1>4. f \in Entry /\ f.st = e.st /\ f.rcvd = v /\ f.rcv = r
  BY <1>1, <1>3 DEF Entry
<1>5. CASE n >= Len(e.rcv)
  <2>1. r = <<>>
    BY <1>2, <1>5 DEF DropFront
  <2>2. Len(r) = 0
    BY <2>1
  <2> HIDE DEF r, f
  <2>3. Contiguous(f)
    BY <1>4, <2>1, <2>2 DEF Contiguous
  <2> QED
    BY <1>4, <2>3 DEF ContiguousEntry, f
<1>6. CASE n < Len(e.rcv)
  <2>1. /\ Len(r) = Len(e.rcv) - n
        /\ \A k \in 1..Len(r) : r[k] = e.rcv[n + k]
    BY <1>2, <1>6 DEF DropFront
  <2>2. e.rcv # <<>>
    BY <1>6
  <2>3. ASSUME e.st \in {"SYN_RCVD", "ESTABLISHED", "SEND_DATA"}, NEW k \in 1..Len(r)
        PROVE  r[k] = Wrap(v - Len(r) + k - 1)
    <3>1. n + k \in 1..Len(e.rcv)
      BY <1>2, <2>1
    <3>2. e.rcv[n + k] = Wrap(v - Len(e.rcv) + (n + k) - 1)
      BY <1>1, <2>3, <3>1 DEF Contiguous
    <3>3. v - Len(e.rcv) + (n + k) - 1 = v - Len(r) + k - 1
      BY <1>2, <2>1
    <3> QED
      BY <2>1, <3>2, <3>3
  <2> HIDE DEF r, f
  <2>4. Contiguous(f)
    BY <1>1, <1>4, <2>2, <2>3 DEF Contiguous, v
  <2> QED
    BY <1>4, <2>4 DEF ContiguousEntry, f
<1> QED
  BY <1>2, <1>5, <1>6

LEMMA ContiguousClosed == ASSUME PeerStream, now \in Nat PROVE Closed(ContiguousEntry)
<1>0. Closed(Entry) /\ ContiguousEntry \subseteq Entry
  BY EntryClosed DEF ContiguousEntry
\* Same buffer, same next number: only the state may change.
<1>1. ASSUME NEW e \in ContiguousEntry, NEW f \in Entry, f.rcv = e.rcv,
             \/ f.st \notin {"SYN_RCVD", "ESTABLISHED", "SEND_DATA", "LISTEN", "SYN_SENT"}
             \/ f.rcv = <<>>
             \/ /\ e.st \in {"SYN_RCVD", "ESTABLISHED", "SEND_DATA"} /\ f.rcvd = e.rcvd
                /\ f.st \in {"SYN_RCVD", "ESTABLISHED", "SEND_DATA"}
             \/ f.st = e.st /\ f.rcvd = e.rcvd
      PROVE  f \in ContiguousEntry
  <2>1. f.rcv = <<>> => Len(f.rcv) = 0
    OBVIOUS
  <2>2. Contiguous(e)
    BY DEF ContiguousEntry
  <2>3. Contiguous(f)
    BY <1>1, <2>1, <2>2 DEF Contiguous
  <2> QED
    BY <2>3 DEF ContiguousEntry
<1>2. ASSUME NEW e \in Entry, e.rcv = <<>>
      PROVE  e \in ContiguousEntry
  <2>1. Len(e.rcv) = 0
    BY <1>2
  <2> QED
    BY <1>2, <2>1 DEF ContiguousEntry, Contiguous
<1>3. ClosedUnderSegments(ContiguousEntry)
  <2>1. \A s \in Segments : SynRcvd(s) \in ContiguousEntry
    BY <1>2, SynRcvdType DEF SynRcvd
  <2>2. ASSUME NEW e \in ContiguousEntry, NEW s \in Segments
        PROVE  /\ e.st = "SYN_RCVD" => Established(e, s) \in ContiguousEntry
               /\ e.st \in {"ESTABLISHED", "SEND_DATA"} =>
                     AfterAck(e, s) \in ContiguousEntry /\ AfterData(e, s) \in ContiguousEntry
               /\ e.st = "SYN_SENT" => Connected(e, s) \in ContiguousEntry
    <3>1. e \in Entry
      BY <1>0
    <3>2. e.st = "SYN_RCVD" => Established(e, s) \in ContiguousEntry
      <4>1. /\ Established(e, s) \in Entry /\ Established(e, s).rcv = e.rcv
            /\ Established(e, s).rcvd = e.rcvd /\ Established(e, s).st = "ESTABLISHED"
        BY <3>1, EstablishedType
      <4> QED
        BY <1>1, <4>1
    <3>3. e.st \in {"ESTABLISHED", "SEND_DATA"} => AfterAck(e, s) \in ContiguousEntry
      <4>1. HAVE e.st \in {"ESTABLISHED", "SEND_DATA"}
      <4>2. /\ AfterAck(e, s) \in Entry /\ AfterAck(e, s).rcv = e.rcv
            /\ AfterAck(e, s).rcvd = e.rcvd /\ AfterAck(e, s).st = e.st
        BY <3>1, <4>1, AfterAckType
      <4> QED
        BY <1>1, <4>2
    <3>4. e.st \in {"ESTABLISHED", "SEND_DATA"} => AfterData(e, s) \in ContiguousEntry
      BY ContiguousData
    <3>5. e.st = "SYN_SENT" => Connected(e, s) \in ContiguousEntry
      <4>1. Connected(e, s) \in Entry /\ Connected(e, s).rcv = e.rcv
        BY <3>1, ConnectedType
      <4>2. e.st = "SYN_SENT" => e.rcv = <<>>
        BY DEF ContiguousEntry, Contiguous
      <4> QED
        BY <1>2, <4>1, <4>2
    <3> QED
      BY <3>2, <3>3, <3>4, <3>5
  <2>3. ASSUME NEW e \in ContiguousEntry
        PROVE  [e EXCEPT !.st = "FIN_WAIT2"] \in ContiguousEntry
    <3> DEFINE f == [e EXCEPT !.st = "FIN_WAIT2"]
    <3>1. f \in Entry /\ f.rcv = e.rcv /\ f.st = "FIN_WAIT2"
      BY <1>0, StatesListed DEF Entry
    <3> HIDE DEF f
    <3>2. f \in ContiguousEntry
      BY <1>1, <3>1
    <3> QED
      BY <3>2 DEF f
  <2>4. ASSUME NEW e \in ContiguousEntry, e.st \notin {"CLOSED", "LISTEN", "SYN_SENT"}
        PROVE  [AfterFin(e) EXCEPT !.rcvd = Wrap(@ + 1)] \in ContiguousEntry
    <3> DEFINE f == [AfterFin(e) EXCEPT !.rcvd = Wrap(@ + 1)]
    <3>1. e \in Entry
      BY <1>0
    <3>2. f \in Entry /\ AfterFin(e) \in Entry
      BY <3>1, FinType
    <3>3. f.st = AfterFin(e).st /\ f.rcv = AfterFin(e).rcv
      BY <3>2 DEF Entry
    <3>4. AfterFin(e).st \notin {"SYN_RCVD", "ESTABLISHED", "SEND_DATA", "LISTEN", "SYN_SENT"}
      BY <2>4, <3>1, FinType
    <3>5. AfterFin(e).rcv = e.rcv
      BY <3>1 DEF AfterFin, Entry
    <3> HIDE DEF f
    <3>6. f \in ContiguousEntry
      BY <1>1, <3>2, <3>3, <3>4, <3>5
    <3> QED
      BY <3>6 DEF f
  <2> QED
    BY <2>1, <2>2, <2>3, <2>4 DEF ClosedUnderSegments
<1>4. ClosedUnderRequests(ContiguousEntry)
  <2>1. \A c \in Conns : Listener(c) \in ContiguousEntry /\ SynSent(c) \in ContiguousEntry
    <3>1. TAKE c \in Conns
    <3>2. Listener(c) \in Entry /\ SynSent(c) \in Entry
      BY ListenerType
    <3>3. Listener(c).rcv = <<>>
      BY DEF Listener
    <3>4. SynSent(c).rcv = <<>>
      BY <3>2, <3>3 DEF SynSent, Entry
    <3> QED
      BY <1>2, <3>2, <3>3, <3>4
  <2>2. \A e \in ContiguousEntry, n \in Nat :
          [e EXCEPT !.rcv = DropFront(@, n)] \in ContiguousEntry
    BY ContiguousDrop
  <2>3. ASSUME NEW e \in ContiguousEntry, NEW w \in Writes,
               e.st \in {"ESTABLISHED", "SEND_DATA"}
        PROVE  Queued(e, w) \in ContiguousEntry
    <3>1. /\ Queued(e, w) \in Entry /\ Queued(e, w).rcv = e.rcv
          /\ Queued(e, w).rcvd = e.rcvd /\ Queued(e, w).st = "SEND_DATA"
      BY <1>0, QueuedType
    <3> QED
      BY <1>1, <2>3, <3>1
  <2>4. ASSUME NEW e \in ContiguousEntry
        PROVE  AfterClose(e) \in ContiguousEntry
    <3>1. /\ AfterClose(e) \in Entry /\ AfterClose(e).rcv = e.rcv
          /\ AfterClose(e).st \in {"LAST_ACK", "FIN_WAIT1"}
      BY <1>0, StatesListed DEF AfterClose, Entry
    <3> QED
      BY <1>1, <3>1
  <2> QED
    BY <2>1, <2>2, <2>3, <2>4, BoundConns DEF ClosedUnderRequests
<1>5. ClosedUnderTimers(ContiguousEntry)
  <2>1. ASSUME NEW e \in ContiguousEntry, e.tries > 0
        PROVE  Rearmed(e) \in ContiguousEntry /\ AfterRetry(Rearmed(e)) \in ContiguousEntry
    <3>1. e \in Entry
      BY <1>0
    <3>2. Rearmed(e) \in Entry /\ AfterRetry(Rearmed(e)) \in Entry
      BY <2>1, <3>1, RearmedType
    <3>3. Rearmed(e).st = e.st /\ Rearmed(e).rcv = e.rcv /\ Rearmed(e).rcvd = e.rcvd
      BY <3>1 DEF Rearmed, Entry
    <3>4. Rearmed(e) \in ContiguousEntry
      BY <1>1, <3>2, <3>3
    <3>5. \/ AfterRetry(Rearmed(e)) = Rearmed(e)
          \/ AfterRetry(Rearmed(e)).st = "LAST_ACK" /\ AfterRetry(Rearmed(e)).rcv = e.rcv
      BY <3>2, <3>3 DEF AfterRetry, Entry
    <3> QED
      BY <1>1, <3>2, <3>4, <3>5
  <2>2. ASSUME NEW e \in ContiguousEntry, NEW d \in Seq(Bytes), d # <<>> => e.snd # <<>>
        PROVE  [e EXCEPT !.snd = @ \o d] \in ContiguousEntry
    <3> DEFINE f == [e EXCEPT !.snd = @ \o d]
    <3>1. f \in Entry
      BY <1>0, <2>2 DEF Closed, ClosedUnderTimers
    <3>2. f.rcv = e.rcv /\ f.st = e.st /\ f.rcvd = e.rcvd
      BY <1>0 DEF Entry
    <3> HIDE DEF f
    <3>3. f \in ContiguousEntry
      BY <1>1, <3>1, <3>2
    <3> QED
      BY <3>3 DEF f
  <2> QED
    BY <2>1, <2>2 DEF ClosedUnderTimers
<1> QED
  BY <1>0, <1>3, <1>4, <1>5 DEF Closed

\* With a peer whose bytes keep their sequence numbers, whatever of its segments
\* is lost, repeated or reordered, the receive buffer of an open connection is a
\* run of its stream that ends right before last_recvd (handleAck, case
\* ESTABLISHED; handleSocketStatus).
THEOREM StreamInOrder == ASSUME PeerStream PROVE Spec => []ReceivedInOrder
<1> DEFINE Inv == TypeOK /\ ResendHasEntry /\ clist \in Seq(ContiguousEntry)
<1>1. Init => Inv
  BY TypeInit DEF Init
<1>2. Inv /\ [Next]_vars => Inv'
  <2> SUFFICES ASSUME Inv, [Next]_vars
               PROVE  Inv'
    OBVIOUS
  <2>1. TypeOK' /\ ResendHasEntry'
    BY TypeStep
  <2>2. now \in Nat
    BY DEF TypeOK
  <2>3. clist' \in Seq(ContiguousEntry)
    BY <2>2, ContiguousClosed, StepWithin
  <2> QED
    BY <2>1, <2>3
<1>3. Inv => ReceivedInOrder
  <2> SUFFICES ASSUME Inv, NEW i \in DOMAIN clist,
                      clist[i].st \in {"SYN_RCVD", "ESTABLISHED", "SEND_DATA"},
                      NEW k \in DOMAIN clist[i].rcv
               PROVE  clist[i].rcv[k]
                        = Wrap(clist[i].rcvd - Len(clist[i].rcv) + k - 1)
    BY DEF ReceivedInOrder
  <2>1. clist[i] \in ContiguousEntry
    OBVIOUS
  <2>2. clist[i] \in Entry /\ Contiguous(clist[i])
    BY <2>1 DEF ContiguousEntry
  <2>3. k \in 1..Len(clist[i].rcv)
    BY <2>2, EntryFields
  <2> QED
    BY <2>2, <2>3 DEF Contiguous
<1> QED
  BY <1>1, <1>2, <1>3, PTL DEF Spec

-----------------------------------------------------------------------------
(***************************************************************************)
(* The send window.                                                        *)
(***************************************************************************)

LEMMA WrapDifference ==
    ASSUME NEW x \in Seq32, NEW y \in Seq32
    PROVE  /\ x >= y => Wrap(x - y) = x - y
           /\ x < y => Wrap(x - y) = x - y + SEQ_MOD
<1>1. x \in Nat /\ y \in Nat /\ x < SEQ_MOD /\ y < SEQ_MOD
  BY SeqTypes
<1>2. x - y \in Int
  BY <1>1
<1>3. x >= y => 0 <= x - y /\ x - y < SEQ_MOD
  BY <1>1, SeqTypes
<1>4. x < y => x - y < 0 /\ -SEQ_MOD <= x - y
  BY <1>1, SeqTypes
<1> QED
  BY <1>2, <1>3, <1>4, WrapNear

\* An acknowledgement never widens the gap between last_acked and last_sent.
LEMMA AckShrinks ==
    ASSUME NEW e \in Entry, NEW a \in Seq32
    PROVE  /\ Offset(SetLastAcked(e, a)) \in Nat
           /\ Offset(SetLastAcked(e, a)) <= Offset(e)
<1> DEFINE acked == e.acked
           sent == e.sent
           f == SetLastAcked(e, a)
<1>1. acked \in Seq32 /\ sent \in Seq32 /\ f \in Entry /\ f.sent = sent
  BY EntryFields, SetLastAckedType
<1>2. /\ acked \in Nat /\ sent \in Nat /\ a \in Nat
      /\ acked < SEQ_MOD /\ sent < SEQ_MOD /\ a < SEQ_MOD
  BY <1>1, SeqTypes
<1>3. Offset(e) = Wrap(sent - acked) /\ Offset(f) = Wrap(sent - f.acked)
  BY <1>1 DEF Offset
<1>4. Offset(f) \in Nat /\ Offset(e) \in Nat
  <2>1. sent - acked \in Int /\ f.acked \in Nat /\ sent - f.acked \in Int
    BY <1>1, <1>2, EntryFields
  <2> QED
    BY <1>3, <2>1, WrapType, SeqTypes
<1>5. CASE ~ Acknowledges(e, a)
  BY <1>4, <1>5 DEF SetLastAcked
<1>6. CASE Acknowledges(e, a)
  <2>1. f.acked = Wrap(a - 1)
    BY <1>6 DEF SetLastAcked, Entry
  <2> DEFINE acked2 == Wrap(a - 1)
  <2>2. acked2 \in Seq32 /\ acked2 \in Nat
    <3>1. a - 1 \in Int
      BY <1>2
    <3>2. acked2 \in Seq32
      BY <3>1, WrapType
    <3> QED
      BY <3>2, SeqTypes
  <2>3. (a > 0 => acked2 = a - 1) /\ (a = 0 => acked2 = SEQ_MOD - 1)
    <3>1. a - 1 \in Int
      BY <1>2
    <3>2. a > 0 => 0 <= a - 1 /\ a - 1 < SEQ_MOD
      BY <1>2, SeqTypes
    <3>3. a = 0 => a - 1 < 0 /\ -SEQ_MOD <= a - 1
      BY SeqTypes
    <3>4. a = 0 => a - 1 + SEQ_MOD = SEQ_MOD - 1
      BY SeqTypes
    <3>5. a > 0 => acked2 = a - 1
      BY <3>1, <3>2, WrapNear
    <3>6. a = 0 => acked2 = SEQ_MOD - 1
      BY <3>1, <3>3, <3>4, WrapNear
    <3> QED
      BY <3>5, <3>6
  <2>4. (sent < SEQ_MOD - 1 => Wrap(sent + 1) = sent + 1)
        /\ (sent = SEQ_MOD - 1 => Wrap(sent + 1) = 0)
    <3>1. sent + 1 \in Int /\ 0 <= sent + 1
      BY <1>2
    <3>2. sent < SEQ_MOD - 1 => sent + 1 < SEQ_MOD
      BY <1>2, SeqTypes
    <3>3. sent = SEQ_MOD - 1 =>
            sent + 1 = SEQ_MOD /\ SEQ_MOD <= sent + 1 /\ sent + 1 < 2 * SEQ_MOD
      BY <1>2, SeqTypes
    <3> QED
      BY <3>1, <3>2, <3>3, WrapNear, SeqTypes
  <2>5. \/ acked <= sent /\ a > acked /\ a <= Wrap(sent + 1)
        \/ acked > sent /\ a > acked /\ a > sent
        \/ acked > sent /\ a < acked /\ a <= Wrap(sent + 1)
    BY <1>2, <1>6 DEF Acknowledges
  <2>6. /\ sent >= acked => Offset(e) = sent - acked
        /\ sent < acked => Offset(e) = sent - acked + SEQ_MOD
    BY <1>1, <1>3, WrapDifference
  <2> HIDE DEF f, acked2
  <2>7. /\ sent >= acked2 => Offset(f) = sent - acked2
        /\ sent < acked2 => Offset(f) = sent - acked2 + SEQ_MOD
    BY <1>1, <1>3, <2>1, <2>2, WrapDifference DEF acked2
  <2> HIDE DEF acked, sent
  <2>8. Offset(f) <= Offset(e)
    <3>1. CASE acked <= sent /\ a > acked /\ a <= Wrap(sent + 1)
      <4>1. a > 0 /\ acked2 = a - 1 /\ sent < SEQ_MOD - 1 /\ a <= sent + 1
        BY <1>2, <2>3, <2>4, <3>1, SeqTypes
      <4> QED
        BY <1>2, <2>6, <2>7, <3>1, <4>1
    <3>2. CASE acked > sent /\ a > acked /\ a > sent
      <4>1. acked2 = a - 1 /\ acked2 >= acked
        BY <1>2, <2>3, <3>2
      <4> QED
        BY <1>2, <2>2, <2>6, <2>7, <3>2, <4>1, SeqTypes
    <3>3. CASE acked > sent /\ a < acked /\ a <= Wrap(sent + 1)
      <4>1. a <= sent + 1
        BY <1>2, <2>4, <3>3, SeqTypes
      <4>2. CASE a = 0
        BY <1>2, <2>3, <2>6, <2>7, <3>3, <4>2, SeqTypes
      <4>3. CASE a > 0
        BY <1>2, <2>3, <2>6, <2>7, <3>3, <4>1, <4>3, SeqTypes
      <4> QED
        BY <1>2, <4>2, <4>3
    <3> QED
      BY <2>5, <3>1, <3>2, <3>3
  <2> QED
    BY <1>4, <2>8 DEF f
<1> QED
  BY <1>5, <1>6

\* updateConnectionStateMapping sets last_sent and only then last_acked.
LEMMA UpdateShrinks ==
    ASSUME NEW e \in Entry, NEW st \in States, NEW a \in Seq32, NEW sent \in Seq32,
           NEW rcvd \in Seq32, NEW win \in Seq32, now \in Nat
    PROVE  Offset(Updated(e, st, a, sent, rcvd, win)) <= Wrap(sent - e.acked)
<1> DEFINE g == [e EXCEPT !.sent = sent]
           f == SetLastAcked(g, a)
           u == Updated(e, st, a, sent, rcvd, win)
<1>1. g \in Entry /\ g.sent = sent /\ g.acked = e.acked
  BY DEF Entry
<1>2. Offset(g) = Wrap(sent - e.acked)
  BY <1>1 DEF Offset
<1> HIDE DEF g
<1>3. f \in Entry /\ f.sent = sent
  BY <1>1, SetLastAckedType
<1>4. Offset(f) <= Offset(g)
  BY <1>1, AckShrinks
<1> HIDE DEF f
<1>5. u = [f EXCEPT !.st = st, !.rcvd = rcvd, !.rwnd = win,
                    !.due = now + 1, !.tries = TRIES, !.tmr = TRUE]
  BY DEF Updated, f, g
<1> HIDE DEF u
<1>6. u.sent = f.sent /\ u.acked = f.acked
  BY <1>3, <1>5 DEF Entry
<1>7. Offset(u) = Offset(f)
  BY <1>6 DEF Offset
<1> QED
  BY <1>2, <1>4, <1>7 DEF u

Within(e) == Offset(e) <= N /\ (e.st = "SYN_SENT" => e.acked = e.sent)

WindowEntry == {e \in Entry : Within(e)}

LEMMA WindowConstants == N \in Nat /\ N > 0 /\ N < SEQ_MOD
<1> QED
  BY ConstAssumption, SeqTypes

LEMMA OffsetType == ASSUME NEW e \in Entry PROVE Offset(e) \in Nat
<1>1. e.sent - e.acked \in Int
  BY EntryFields
<1> QED
  BY <1>1, WrapType, SeqTypes DEF Offset

\* A segment takes no more of the window than is free.
LEMMA WindowQueued ==
    ASSUME now \in Nat, NEW e \in WindowEntry, NEW w \in Writes
    PROVE  Queued(e, w) \in WindowEntry
<1> DEFINE q == PayloadSize(e, Len(w))
           sent == Wrap(e.sent + q)
           newack == IF e.st = "ESTABLISHED" THEN Wrap(e.acked - 1) ELSE e.acked
           rcvd == e.rcvd
           win == e.rwnd
           st == "SEND_DATA"
           u == Updated(e, st, newack, sent, rcvd, win)
           off == Offset(e)
<1>1. e \in Entry /\ off <= N
  BY DEF WindowEntry, Within
<1>2. off \in Nat
  BY <1>1, OffsetType
<1>3. Len(w) \in Nat
  <2>1. w \in Seq(Bytes)
    BY ConstAssumption
  <2> QED
    BY <2>1
<1>4. q \in Nat
  BY <1>1, <1>3, PayloadSizeType
<1>5. q <= N - off
  <2>1. N - off \in Int /\ 0 <= N - off /\ N - off < SEQ_MOD
    BY <1>1, <1>2, WindowConstants, SeqTypes
  <2>2. Wrap(N - off) = N - off
    BY <2>1, WrapNear
  <2>3. e.rwnd - off \in Int
    BY <1>1, <1>2, EntryFields
  <2>4. Wrap(e.rwnd - off) \in Nat /\ Wrap(N - off) \in Nat
    BY <2>1, <2>3, WrapType, SeqTypes
  <2>5. MSS \in Nat
    BY ConstAssumption, SeqTypes
  <2> DEFINE a == MIN_MACRO(Wrap(e.rwnd - off), Wrap(N - off))
             b == MIN_MACRO(a, Len(w))
  <2>6. a \in Nat /\ a <= Wrap(N - off)
    BY <2>4, MinType
  <2> HIDE DEF a
  <2>7. b \in Nat /\ b <= a
    BY <1>3, <2>6, MinType
  <2> HIDE DEF b
  <2>8. MIN_MACRO(b, MSS) <= b /\ MIN_MACRO(b, MSS) \in Nat
    BY <2>5, <2>7, MinType
  <2>9. q = MIN_MACRO(b, MSS)
    BY DEF PayloadSize, a, b
  <2> HIDE DEF q, off
  <2> QED
    BY <2>1, <2>2, <2>6, <2>7, <2>8, <2>9
<1>6. sent \in Seq32 /\ newack \in Seq32 /\ rcvd \in Seq32 /\ win \in Seq32 /\ st \in States
  BY <1>1, <1>4, EntryFields, WrapType, StatesListed
<1>7. Wrap(sent - e.acked) = off + q
  <2> DEFINE s == e.sent
             k == e.acked
  <2>1. s \in Nat /\ k \in Nat
    BY <1>1, EntryFields
  <2>2. off = Wrap(s - k)
    BY DEF Offset
  <2>3. sent = Wrap(s + q)
    OBVIOUS
  <2> HIDE DEF q, off, sent, s, k
  <2>4. s + q \in Int /\ -k \in Int /\ s - k \in Int /\ q \in Int
    BY <1>4, <2>1
  <2>5. Wrap(Wrap(s + q) + (-k)) = Wrap(s + q + (-k))
    BY <2>4, WrapSum
  <2>6. Wrap(Wrap(s - k) + q) = Wrap(s - k + q)
    BY <2>4, WrapSum
  <2>7. s + q + (-k) = s - k + q
    BY <1>4, <2>1
  <2>8. off + q \in Int /\ 0 <= off + q /\ off + q < SEQ_MOD
    BY <1>2, <1>4, <1>5, WindowConstants, SeqTypes
  <2>9. Wrap(off + q) = off + q
    BY <2>8, WrapNear
  <2>10. Wrap(s + q) \in Nat
    BY <2>4, WrapType, SeqTypes
  <2>11. Wrap(s + q) - k = Wrap(s + q) + (-k)
    BY <2>1, <2>10
  <2>12. Wrap(sent - k) = off + q
    BY <2>2, <2>3, <2>5, <2>6, <2>7, <2>9, <2>11
  <2> QED
    BY <2>12 DEF k
<1> HIDE DEF sent, newack, rcvd, win, st
<1>8. u \in Entry /\ u.st = st
  BY <1>1, <1>6, UpdatedType
<1>9. Offset(u) <= Wrap(sent - e.acked)
  BY <1>1, <1>6, UpdateShrinks
<1> HIDE DEF u
<1>10. Queued(e, w) = [u EXCEPT !.snd = @ \o w]
  BY DEF Queued, u, sent, newack, rcvd, win, st
<1>11. Queued(e, w) \in Entry /\ Queued(e, w).st = "SEND_DATA"
  BY <1>1, QueuedType
<1>12. Queued(e, w).sent = u.sent /\ Queued(e, w).acked = u.acked
  BY <1>8, <1>10 DEF Entry
<1>13. Offset(Queued(e, w)) = Offset(u)
  BY <1>12 DEF Offset
<1>14. Offset(u) \in Nat
  BY <1>8, OffsetType
<1> HIDE DEF q, off
<1>15. Offset(u) <= N
  BY <1>2, <1>4, <1>5, <1>7, <1>9, <1>14, WindowConstants
<1> QED
  BY <1>11, <1>13, <1>15 DEF WindowEntry, Within

\* Every acknowledgement and every update at an unchanged last_sent.
LEMMA WindowAcked ==
    ASSUME now \in Nat, NEW e \in WindowEntry, NEW s \in Segments
    PROVE  /\ e.st = "SYN_RCVD" => Established(e, s) \in WindowEntry
           /\ e.st \in {"ESTABLISHED", "SEND_DATA"} =>
                AfterAck(e, s) \in WindowEntry /\ AfterData(e, s) \in WindowEntry
           /\ e.st = "SYN_SENT" /\ s.ack = Wrap(e.sent + 1) => Connected(e, s) \in WindowEntry
<1>1. e \in Entry /\ Offset(e) <= N /\ (e.st = "SYN_SENT" => e.acked = e.sent)
  BY DEF WindowEntry, Within
<1>2. Offset(e) \in Nat /\ N \in Nat /\ N > 0
  BY <1>1, OffsetType, WindowConstants
<1>3. ASSUME NEW f \in Entry, Offset(f) <= Offset(e), f.st # "SYN_SENT"
      PROVE  f \in WindowEntry
  <2>1. Offset(f) \in Nat
    BY OffsetType
  <2> QED
    BY <1>1, <1>2, <1>3, <2>1 DEF WindowEntry, Within
<1>4. ASSUME NEW st \in States, NEW a \in Seq32, NEW sent \in Seq32, sent = e.sent,
             NEW rcvd \in Seq32, NEW win \in Seq32
      PROVE  /\ Updated(e, st, a, sent, rcvd, win) \in Entry
             /\ Updated(e, st, a, sent, rcvd, win).st = st
             /\ Offset(Updated(e, st, a, sent, rcvd, win)) <= Offset(e)
  <2>1. Offset(Updated(e, st, a, sent, rcvd, win)) <= Wrap(sent - e.acked)
    BY <1>1, UpdateShrinks
  <2>2. Wrap(sent - e.acked) = Offset(e)
    BY <1>4 DEF Offset
  <2> QED
    BY <1>1, <2>1, <2>2, UpdatedType
<1>5. e.st = "SYN_RCVD" => Established(e, s) \in WindowEntry
  <2> DEFINE a == s.ack
             f == SetLastAcked(e, a)
  <2>1. a \in Seq32
    BY SegmentFields
  <2> HIDE DEF a
  <2>2. f \in Entry /\ f.sent = e.sent /\ Offset(f) <= Offset(e)
    BY <1>1, <2>1, SetLastAckedType, AckShrinks
  <2> HIDE DEF f
  <2>3. /\ Established(e, s) \in Entry /\ Established(e, s).st = "ESTABLISHED"
        /\ Established(e, s).sent = e.sent /\ Established(e, s).acked = f.acked
    BY <1>1, EstablishedType DEF f, a
  <2>4. Offset(Established(e, s)) = Offset(f)
    BY <2>2, <2>3 DEF Offset
  <2> QED
    BY <1>3, <2>2, <2>3, <2>4
<1>6. e.st \in {"ESTABLISHED", "SEND_DATA"} => AfterAck(e, s) \in WindowEntry
  <2> DEFINE a == Wrap(s.ack - 1)
             sent == e.sent
             rcvd == e.rcvd
             win == s.win
             st == "SEND_DATA"
             u == Updated(e, st, a, sent, rcvd, win)
  <2>1. a \in Seq32 /\ sent \in Seq32 /\ rcvd \in Seq32 /\ win \in Seq32 /\ st \in States
    BY <1>1, EntryFields, SegmentFields, WrapType, StatesListed
  <2>2. sent = e.sent /\ st # "SYN_SENT"
    OBVIOUS
  <2> HIDE DEF a, sent, rcvd, win, st
  <2>3. u \in Entry /\ u.st = st /\ Offset(u) <= Offset(e)
    BY <1>4, <2>1, <2>2
  <2> HIDE DEF u
  <2>4. u \in WindowEntry
    BY <1>3, <2>2, <2>3
  <2>5. AfterAck(e, s) = IF Slides(e, s) THEN u ELSE e
    BY DEF AfterAck, u, a, sent, rcvd, win, st
  <2> QED
    BY <2>4, <2>5
<1>7. e.st \in {"ESTABLISHED", "SEND_DATA"} => AfterData(e, s) \in WindowEntry
  <2> DEFINE a == s.ack
             sent == e.sent
             rcvd == Wrap(s.seq + Len(s.data))
             win == s.win
             st == e.st
             u == Updated(e, st, a, sent, rcvd, win)
  <2>0. HAVE e.st \in {"ESTABLISHED", "SEND_DATA"}
  <2>1. a \in Seq32 /\ sent \in Seq32 /\ rcvd \in Seq32 /\ win \in Seq32 /\ st \in States
    BY <1>1, EntryFields, SegmentFields, WrapType
  <2>2. sent = e.sent /\ st # "SYN_SENT"
    BY <2>0
  <2> HIDE DEF a, sent, rcvd, win, st
  <2>3. u \in Entry /\ u.st = st /\ Offset(u) <= Offset(e)
    BY <1>4, <2>1, <2>2
  <2> HIDE DEF u
  <2>4. AfterData(e, s) = IF InOrder(e, s) THEN [u EXCEPT !.rcv = @ \o s.data] ELSE e
    BY DEF AfterData, u, a, sent, rcvd, win, st
  <2>5. CASE InOrder(e, s)
    <3>1. AfterData(e, s) \in Entry /\ AfterData(e, s).st = e.st
      BY <1>1, AfterDataType
    <3>2. AfterData(e, s).sent = u.sent /\ AfterData(e, s).acked = u.acked
      BY <2>3, <2>4, <2>5 DEF Entry
    <3>3. Offset(AfterData(e, s)) = Offset(u)
      BY <3>2 DEF Offset
    <3> QED
      BY <1>3, <2>0, <2>3, <3>1, <3>3
  <2> QED
    BY <2>4, <2>5
<1>8. e.st = "SYN_SENT" /\ s.ack = Wrap(e.sent + 1) => Connected(e, s) \in WindowEntry
  <2>0. HAVE e.st = "SYN_SENT" /\ s.ack = Wrap(e.sent + 1)
  <2> DEFINE a == s.ack
             rcvd == Wrap(s.seq + 1)
             win == s.win
             st == "ESTABLISHED"
             u == Updated(e, st, a, a, rcvd, win)
  <2>1. a \in Seq32 /\ rcvd \in Seq32 /\ win \in Seq32 /\ st \in States
    BY SegmentFields, WrapType, StatesListed
  <2>2. Wrap(a - e.acked) = 1
    <3> DEFINE k == e.sent
    <3>1. k \in Nat /\ e.acked = k
      BY <1>1, <2>0, EntryFields
    <3>2. a = Wrap(k + 1)
      BY <2>0
    <3> HIDE DEF k, a
    <3>3. k + 1 \in Int /\ -k \in Int /\ k + 1 + (-k) = 1
      BY <3>1
    <3>4. Wrap(Wrap(k + 1) + (-k)) = Wrap(1)
      BY <3>3, WrapSum
    <3>5. Wrap(1) = 1
      BY WrapNear, SeqTypes
    <3>6. a \in Nat
      BY <2>1, SeqTypes
    <3>7. a - k = a + (-k)
      BY <3>1, <3>6
    <3> QED
      BY <3>1, <3>2, <3>4, <3>5, <3>7
  <2> HIDE DEF a, rcvd, win, st
  <2>3. Offset(u) <= 1
    <3>1. Offset(u) <= Wrap(a - e.acked)
      BY <1>1, <2>1, UpdateShrinks
    <3> QED
      BY <2>2, <3>1
  <2> HIDE DEF u
  <2>4. Connected(e, s) = u
    BY DEF Connected, u, a, rcvd, win, st
  <2>5. Connected(e, s) \in Entry /\ Connected(e, s).st = "ESTABLISHED"
    BY <1>1, ConnectedType
  <2>6. Offset(u) \in Nat
    BY <2>4, <2>5, OffsetType
  <2>7. Offset(Connected(e, s)) <= N
    BY <1>2, <2>3, <2>4, <2>6
  <2> QED
    BY <2>5, <2>7 DEF WindowEntry, Within
<1> QED
  BY <1>5, <1>6, <1>7, <1>8

LEMMA WindowClosed == ASSUME now \in Nat PROVE Closed(WindowEntry)
<1>0. Closed(Entry) /\ WindowEntry \subseteq Entry
  BY EntryClosed DEF WindowEntry
\* Same counters.
<1>1. ASSUME NEW e \in WindowEntry, NEW f \in Entry, f.acked = e.acked, f.sent = e.sent,
             f.st = "SYN_SENT" => e.st = "SYN_SENT"
      PROVE  f \in WindowEntry
  BY <1>1 DEF WindowEntry, Within, Offset
\* Nothing sent yet.
<1>2. ASSUME NEW e \in Entry, e.acked = e.sent
      PROVE  e \in WindowEntry
  <2>1. e.sent - e.acked = 0
    BY <1>2, EntryFields
  <2>2. Wrap(0) = 0
    BY WrapNear, SeqTypes
  <2> QED
    BY <1>2, <2>1, <2>2, WindowConstants DEF WindowEntry, Within, Offset
<1>3. ClosedUnderSegments(WindowEntry)
  <2>1. \A s \in Segments : SynRcvd(s) \in WindowEntry
    BY <1>2, SynRcvdType DEF SynRcvd
  <2>2. ASSUME NEW e \in WindowEntry
        PROVE  [e EXCEPT !.st = "FIN_WAIT2"] \in WindowEntry
    <3> DEFINE f == [e EXCEPT !.st = "FIN_WAIT2"]
    <3>1. f \in Entry /\ f.acked = e.acked /\ f.sent = e.sent /\ f.st = "FIN_WAIT2"
      BY <1>0, StatesListed DEF Entry
    <3> HIDE DEF f
    <3>2. f \in WindowEntry
      BY <1>1, <3>1
    <3> QED
      BY <3>2 DEF f
  <2>3. ASSUME NEW e \in WindowEntry, e.st \notin {"CLOSED", "LISTEN", "SYN_SENT"}
        PROVE  [AfterFin(e) EXCEPT !.rcvd = Wrap(@ + 1)] \in WindowEntry
    <3> DEFINE f == [AfterFin(e) EXCEPT !.rcvd = Wrap(@ + 1)]
    <3>1. e \in Entry
      BY <1>0
    <3>2. f \in Entry /\ AfterFin(e) \in Entry
      BY <3>1, FinType
    <3>3. f.st = AfterFin(e).st /\ f.acked = AfterFin(e).acked /\ f.sent = AfterFin(e).sent
      BY <3>2 DEF Entry
    <3>4. AfterFin(e).st # "SYN_SENT"
      BY <2>3, <3>1, FinType
    <3>5. AfterFin(e).acked = e.acked /\ AfterFin(e).sent = e.sent
      BY <3>1 DEF AfterFin, Entry
    <3> HIDE DEF f
    <3>6. f \in WindowEntry
      BY <1>1, <3>2, <3>3, <3>4, <3>5
    <3> QED
      BY <3>6 DEF f
  <2> QED
    BY <2>1, <2>2, <2>3, WindowAcked DEF ClosedUnderSegments
<1>4. ClosedUnderRequests(WindowEntry)
  <2>1. ASSUME NEW c \in Conns
        PROVE  Listener(c) \in WindowEntry /\ SynSent(c) \in WindowEntry
    <3>1. Listener(c) \in Entry /\ SynSent(c) \in Entry
      BY ListenerType
    <3>2. Listener(c).acked = Listener(c).sent
      BY DEF Listener
    <3>3. SynSent(c).acked = SynSent(c).sent
      BY <3>1 DEF SynSent, Listener, Entry
    <3> QED
      BY <1>2, <3>1, <3>2, <3>3
  <2>2. ASSUME NEW e \in WindowEntry, NEW n \in Nat
        PROVE  [e EXCEPT !.rcv = DropFront(@, n)] \in WindowEntry
    <3> DEFINE f == [e EXCEPT !.rcv = DropFront(@, n)]
    <3>1. f \in Entry
      BY <1>0 DEF Closed, ClosedUnderRequests
    <3>2. f.acked = e.acked /\ f.sent = e.sent /\ f.st = e.st
      BY <1>0 DEF Entry
    <3> HIDE DEF f
    <3>3. f \in WindowEntry
      BY <1>1, <3>1, <3>2
    <3> QED
      BY <3>3 DEF f
  <2>3. \A e \in WindowEntry, w \in Writes : Queued(e, w) \in WindowEntry
    BY WindowQueued
  <2>4. ASSUME NEW e \in WindowEntry
        PROVE  AfterClose(e) \in WindowEntry
    <3>1. /\ AfterClose(e) \in Entry /\ AfterClose(e).acked = e.acked
          /\ AfterClose(e).sent = e.sent /\ AfterClose(e).st # "SYN_SENT"
      BY <1>0, StatesListed DEF AfterClose, Entry
    <3> QED
      BY <1>1, <3>1
  <2> QED
    BY <2>1, <2>2, <2>3, <2>4, BoundConns DEF ClosedUnderRequests
<1>5. ClosedUnderTimers(WindowEntry)
  <2>1. ASSUME NEW e \in WindowEntry, e.tries > 0
        PROVE  Rearmed(e) \in WindowEntry /\ AfterRetry(Rearmed(e)) \in WindowEntry
    <3>1. e \in Entry
      BY <1>0
    <3>2. Rearmed(e) \in Entry /\ AfterRetry(Rearmed(e)) \in Entry
      BY <2>1, <3>1, RearmedType
    <3>3. Rearmed(e).st = e.st /\ Rearmed(e).acked = e.acked /\ Rearmed(e).sent = e.sent
      BY <3>1 DEF Rearmed, Entry
    <3>4. Rearmed(e) \in WindowEntry
      BY <1>1, <3>2, <3>3
    <3>5. /\ AfterRetry(Rearmed(e)).st \in {e.st, "LAST_ACK"}
          /\ AfterRetry(Rearmed(e)).acked = e.acked /\ AfterRetry(Rearmed(e)).sent = e.sent
      BY <3>2, <3>3 DEF AfterRetry, Entry
    <3> QED
      BY <1>1, <3>2, <3>4, <3>5
  <2>2. ASSUME NEW e \in WindowEntry, NEW d \in Seq(Bytes), d # <<>> => e.snd # <<>>
        PROVE  [e EXCEPT !.snd = @ \o d] \in WindowEntry
    <3> DEFINE f == [e EXCEPT !.snd = @ \o d]
    <3>1. f \in Entry
      BY <1>0, <2>2 DEF Closed, ClosedUnderTimers
    <3>2. f.acked = e.acked /\ f.sent = e.sent /\ f.st = e.st
      BY <1>0 DEF Entry
    <3> HIDE DEF f
    <3>3. f \in WindowEntry
      BY <1>1, <3>1, <3>2
    <3> QED
      BY <3>3 DEF f
  <2> QED
    BY <2>1, <2>2 DEF ClosedUnderTimers
<1> QED
  BY <1>0, <1>3, <1>4, <1>5 DEF Closed

\* The distance between last_sent and last_acked never passes N, whatever ACKs and
\* windows the peer sends and however the sequence numbers wrap
\* (TCPState::SendPacketPayload, TCPState::SetLastAcked).
THEOREM WindowBounded == Spec => []WindowRespected
<1> DEFINE Inv == TypeOK /\ ResendHasEntry /\ clist \in Seq(WindowEntry)
<1>1. Init => Inv
  BY TypeInit DEF Init
<1>2. Inv /\ [Next]_vars => Inv'
  <2> SUFFICES ASSUME Inv, [Next]_vars
               PROVE  Inv'
    OBVIOUS
  <2>1. TypeOK' /\ ResendHasEntry'
    BY TypeStep
  <2>2. now \in Nat
    BY DEF TypeOK
  <2>3. clist' \in Seq(WindowEntry)
    BY <2>2, WindowClosed, StepWithin
  <2> QED
    BY <2>1, <2>3
<1>3. Inv => WindowRespected
  BY DEF WindowRespected, WindowEntry, Within
<1> QED
  BY <1>1, <1>2, <1>3, PTL DEF Spec

=============================================================================
