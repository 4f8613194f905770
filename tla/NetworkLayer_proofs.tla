------------------------- MODULE NetworkLayer_proofs -------------------------
(***************************************************************************)
(* Invariants of NetworkLayer for every value of its constants, whatever   *)
(* the pipes hold and whatever arrives: the types, the addresses of what   *)
(* goes out, and what the modules can block on.                            *)
(***************************************************************************)
EXTENDS NetworkLayer, TLAPS

-----------------------------------------------------------------------------
(***************************************************************************)
(* Pipes and sends.  S[p] is a set of messages for each pipe p; what the   *)
(* messages mean does not matter here.                                     *)
(***************************************************************************)

Sendings(m, S) == UNION {[pipe : {p}, msg : S[p]] : p \in {q \in Pipes : q[1] = m}}

Carries(pp, ss, S) ==
    /\ DOMAIN pp = Pipes
    /\ \A p \in Pipes : pp[p] \in Seq(S[p]) /\ Len(pp[p]) <= Capacity
    /\ DOMAIN ss = Modules
    /\ \A m \in Modules : ss[m] \in Seq(Sendings(m, S))

LEMMA PipesAre ==
    Pipes = {<<"mux", "driver">>, <<"driver", "mux">>, <<"arp", "mux">>, <<"mux", "arp">>,
             <<"ip", "mux">>, <<"mux", "ip">>, <<"ip", "arp">>, <<"arp", "ip">>,
             <<"ipmux", "ip">>, <<"ip", "ipmux">>, <<"icmp", "ipmux">>, <<"ipmux", "icmp">>,
             <<"tcp", "ipmux">>, <<"ipmux", "tcp">>, <<"sock", "icmp">>, <<"icmp", "sock">>}
  BY DEF Pipes, Connections

LEMMA PipeEnds == ASSUME NEW p \in Pipes PROVE p = <<p[1], p[2]>> /\ p[1] \in Modules /\ p[2] \in Modules
  BY PipesAre DEF Modules

\* What a module has still to send.
LEMMA SendingFields ==
    ASSUME NEW S, NEW m, NEW s \in Sendings(m, S)
    PROVE  s.pipe \in Pipes /\ s.pipe[1] = m /\ s.msg \in S[s.pipe] /\ s = Message(s.pipe, s.msg)
  BY DEF Sendings, Message

LEMMA MessageSent ==
    ASSUME NEW S, NEW p \in Pipes, NEW v \in S[p]
    PROVE  Message(p, v) \in Sendings(p[1], S)
<1>1. Message(p, v) \in [pipe : {p}, msg : S[p]]
  BY DEF Message
<1> QED
  BY <1>1 DEF Sendings

\* MinetSend moves a message from a module to its pipe.
LEMMA SendCarries ==
    ASSUME NEW S, NEW pp, NEW ss, Carries(pp, ss, S),
           NEW m \in Modules, ss[m] # <<>>, Len(pp[Head(ss[m]).pipe]) < Capacity
    PROVE  LET s == Head(ss[m])
           IN  /\ s.pipe \in Pipes /\ s.pipe[1] = m /\ s.msg \in S[s.pipe]
               /\ Carries([pp EXCEPT ![s.pipe] = Append(@, s.msg)], [ss EXCEPT ![m] = Tail(@)], S)
<1> DEFINE s == Head(ss[m])
           T == Sendings(m, S)
<1>1. ss[m] \in Seq(T)
  BY DEF Carries
<1>2. s \in T /\ Tail(ss[m]) \in Seq(T)
  <2> HIDE DEF T
  <2> QED
    BY <1>1
<1>3. s.pipe \in Pipes /\ s.pipe[1] = m /\ s.msg \in S[s.pipe]
  BY <1>2, SendingFields
<1> HIDE DEF s
<1> DEFINE pp2 == [pp EXCEPT ![s.pipe] = Append(@, s.msg)]
<1>4. DOMAIN pp2 = Pipes /\ \A p \in Pipes : pp2[p] = IF p = s.pipe THEN Append(pp[p], s.msg) ELSE pp[p]
  BY <1>3 DEF Carries
<1>5. Append(pp[s.pipe], s.msg) \in Seq(S[s.pipe]) /\ Len(Append(pp[s.pipe], s.msg)) <= Capacity
  <2>1. pp[s.pipe] \in Seq(S[s.pipe]) /\ Len(pp[s.pipe]) < Capacity
    BY <1>3 DEF Carries, s
  <2> DEFINE q == pp[s.pipe]
             A == S[s.pipe]
             v == s.msg
  <2>2. q \in Seq(A) /\ Len(q) < Capacity /\ v \in A
    BY <2>1, <1>3
  <2> HIDE DEF q, A, v
  <2>3. Append(q, v) \in Seq(A) /\ Len(Append(q, v)) = Len(q) + 1 /\ Len(q) \in Nat
    BY <2>2
  <2> QED
    BY <2>2, <2>3, NetworkAssumption DEF q, A, v
<1>6. \A p \in Pipes : pp2[p] \in Seq(S[p]) /\ Len(pp2[p]) <= Capacity
  <2> HIDE DEF pp2
  <2> QED
    BY <1>4, <1>5 DEF Carries
<1>7. /\ DOMAIN [ss EXCEPT ![m] = Tail(@)] = Modules
      /\ \A n \in Modules : [ss EXCEPT ![m] = Tail(@)][n] \in Seq(Sendings(n, S))
  BY <1>2 DEF Carries
<1>8. Carries(pp2, [ss EXCEPT ![m] = Tail(@)], S)
  BY <1>4, <1>6, <1>7 DEF Carries
<1> QED
  BY <1>3, <1>8 DEF s

\* What a handler takes is of its pipe, and what it sends then counts.
LEMMA HandleCarries ==
    ASSUME NEW S, NEW pp, NEW ss, Carries(pp, ss, S),
           NEW m \in Modules, NEW x, <<x, m>> \in Pipes, pp[<<x, m>>] # <<>>
    PROVE  /\ Head(pp[<<x, m>>]) \in S[<<x, m>>]
           /\ \A out \in Seq(Sendings(m, S)) :
                Carries([pp EXCEPT ![<<x, m>>] = Tail(@)], [ss EXCEPT ![m] = out], S)
<1> DEFINE q == <<x, m>>
           A == S[q]
<1> SUFFICES ASSUME NEW out \in Seq(Sendings(m, S))
             PROVE  /\ Head(pp[q]) \in S[q]
                    /\ Carries([pp EXCEPT ![q] = Tail(@)], [ss EXCEPT ![m] = out], S)
  <2>1. <<>> \in Seq(Sendings(m, S))
    OBVIOUS
  <2> QED
    BY <2>1
<1>1. q \in Pipes /\ pp[q] \in Seq(A) /\ pp[q] # <<>> /\ Len(pp[q]) <= Capacity
  BY DEF Carries
<1> HIDE DEF q
<1>2. Head(pp[q]) \in A /\ Tail(pp[q]) \in Seq(A) /\ Len(Tail(pp[q])) <= Capacity
  <2> HIDE DEF A
  <2> DEFINE u == pp[q]
  <2>1. u \in Seq(A) /\ u # <<>> /\ Len(u) <= Capacity
    BY <1>1
  <2> HIDE DEF u
  <2>2. Head(u) \in A /\ Tail(u) \in Seq(A) /\ Len(Tail(u)) = Len(u) - 1 /\ Len(u) \in Nat
    BY <2>1
  <2> QED
    BY <2>1, <2>2, NetworkAssumption DEF u
<1> DEFINE pp2 == [pp EXCEPT ![q] = Tail(@)]
<1>3. DOMAIN pp2 = Pipes /\ \A p \in Pipes : pp2[p] = IF p = q THEN Tail(pp[p]) ELSE pp[p]
  BY <1>1 DEF Carries
<1>4. \A p \in Pipes : pp2[p] \in Seq(S[p]) /\ Len(pp2[p]) <= Capacity
  <2> HIDE DEF pp2
  <2> QED
    BY <1>2, <1>3 DEF Carries
<1>5. /\ DOMAIN [ss EXCEPT ![m] = out] = Modules
      /\ \A n \in Modules : [ss EXCEPT ![m] = out][n] \in Seq(Sendings(n, S))
  BY DEF Carries
<1> QED
  BY <1>2, <1>3, <1>4, <1>5 DEF Carries

\* A module that sends of its own accord.
LEMMA StartCarries ==
    ASSUME NEW S, NEW pp, NEW ss, Carries(pp, ss, S),
           NEW m \in Modules, NEW out \in Seq(Sendings(m, S))
    PROVE  Carries(pp, [ss EXCEPT ![m] = out], S)
  BY DEF Carries

LEMMA Widened ==
    ASSUME NEW S, NEW T, NEW pp, NEW ss, Carries(pp, ss, S), \A p \in Pipes : S[p] \subseteq T[p]
    PROVE  Carries(pp, ss, T)
<1>1. \A p \in Pipes : pp[p] \in Seq(T[p])
  <2> SUFFICES ASSUME NEW p \in Pipes PROVE pp[p] \in Seq(T[p])
    OBVIOUS
  <2> DEFINE A == S[p]
             B == T[p]
             u == pp[p]
  <2>1. u \in Seq(A) /\ A \subseteq B
    BY DEF Carries
  <2> HIDE DEF A, B, u
  <2>2. u \in Seq(B)
    BY <2>1
  <2> QED
    BY <2>2 DEF B, u
<1>2. \A m \in Modules : ss[m] \in Seq(Sendings(m, T))
  <2> SUFFICES ASSUME NEW m \in Modules PROVE ss[m] \in Seq(Sendings(m, T))
    OBVIOUS
  <2>1. Sendings(m, S) \subseteq Sendings(m, T)
    <3> SUFFICES ASSUME NEW s \in Sendings(m, S) PROVE s \in Sendings(m, T)
      OBVIOUS
    <3>1. s.pipe \in Pipes /\ s.pipe[1] = m /\ s.msg \in T[s.pipe] /\ s = Message(s.pipe, s.msg)
      BY SendingFields
    <3> QED
      BY <3>1, MessageSent
  <2> DEFINE A == Sendings(m, S)
             B == Sendings(m, T)
             u == ss[m]
  <2>2. u \in Seq(A) /\ A \subseteq B
    BY <2>1 DEF Carries
  <2> HIDE DEF A, B, u
  <2>3. u \in Seq(B)
    BY <2>2
  <2> QED
    BY <2>3 DEF B, u
<1> QED
  BY <1>1, <1>2 DEF Carries

-----------------------------------------------------------------------------
(***************************************************************************)
(* What each pipe carries, when the transports have sent n packets and the *)
(* pairs h have come with ARP.                                             *)
(***************************************************************************)

Numbered(p, n) == p.proto = "TCP" => p.seq <= n

Addressed(f, h) ==
    \/ <<f.packet.dest, f.hw>> \in h
    \/ f.packet.dest = BROADCAST /\ f.hw = BLANK

Fitting(n, h) == [p \in Pipes |->
    {v \in Messages[p] :
        /\ p \in {<<"tcp", "ipmux">>, <<"icmp", "ipmux">>, <<"ipmux", "ip">>} => Numbered(v, n)
        /\ p = <<"ipmux", "icmp">> => v.proto = "ICMP"
        /\ p = <<"ip", "arp">> => v.hw = BLANK
        /\ p = <<"arp", "ip">> => v.hw = BLANK \/ <<v.ip, v.hw>> \in h
        /\ p \in Outgoing /\ v.type = "PROTO_IP" => Numbered(v.packet, n) /\ Addressed(v, h)}]

LEMMA MessagesAt ==
    /\ Messages[<<"ip", "arp">>] = ARPRequestResponse /\ Messages[<<"arp", "ip">>] = ARPRequestResponse
    /\ Messages[<<"icmp", "sock">>] = SRR /\ Messages[<<"sock", "icmp">>] = SRR
    /\ Messages[<<"arp", "mux">>] = ARPFrame /\ Messages[<<"mux", "arp">>] = ARPFrame
    /\ Messages[<<"ip", "mux">>] = IPFrame /\ Messages[<<"mux", "ip">>] = IPFrame
    /\ Messages[<<"driver", "mux">>] = ARPFrame \cup IPFrame
    /\ Messages[<<"mux", "driver">>] = ARPFrame \cup IPFrame
    /\ Messages[<<"ipmux", "ip">>] = Packet /\ Messages[<<"ip", "ipmux">>] = Packet
    /\ Messages[<<"ipmux", "icmp">>] = Packet /\ Messages[<<"icmp", "ipmux">>] = Packet
    /\ Messages[<<"ipmux", "tcp">>] = Packet /\ Messages[<<"tcp", "ipmux">>] = Packet
  BY PipesAre DEF Messages

LEMMA FittingAt ==
    ASSUME NEW n, NEW h
    PROVE  LET F == Fitting(n, h)
           IN  /\ F[<<"ip", "arp">>] = {r \in ARPRequestResponse : r.hw = BLANK}
               /\ F[<<"arp", "ip">>] = {r \in ARPRequestResponse : r.hw = BLANK \/ <<r.ip, r.hw>> \in h}
               /\ F[<<"icmp", "sock">>] = SRR /\ F[<<"sock", "icmp">>] = SRR
               /\ F[<<"arp", "mux">>] = ARPFrame /\ F[<<"mux", "arp">>] = ARPFrame
               /\ F[<<"ip", "mux">>] = {f \in IPFrame : Numbered(f.packet, n) /\ Addressed(f, h)}
               /\ F[<<"mux", "ip">>] = IPFrame
               /\ F[<<"driver", "mux">>] = ARPFrame \cup IPFrame
               /\ F[<<"mux", "driver">>] =
                    {f \in ARPFrame \cup IPFrame :
                        f.type = "PROTO_IP" => Numbered(f.packet, n) /\ Addressed(f, h)}
               /\ F[<<"ipmux", "ip">>] = {p \in Packet : Numbered(p, n)}
               /\ F[<<"icmp", "ipmux">>] = {p \in Packet : Numbered(p, n)}
               /\ F[<<"tcp", "ipmux">>] = {p \in Packet : Numbered(p, n)}
               /\ F[<<"ip", "ipmux">>] = Packet /\ F[<<"ipmux", "tcp">>] = Packet
               /\ F[<<"ipmux", "icmp">>] = {p \in Packet : p.proto = "ICMP"}
<1> DEFINE F == Fitting(n, h)
<1>1. F[<<"ip", "arp">>] = {r \in ARPRequestResponse : r.hw = BLANK}
  BY PipesAre, MessagesAt DEF Fitting, Outgoing
<1>2. F[<<"arp", "ip">>] = {r \in ARPRequestResponse : r.hw = BLANK \/ <<r.ip, r.hw>> \in h}
  BY PipesAre, MessagesAt DEF Fitting, Outgoing
<1>3. F[<<"icmp", "sock">>] = SRR /\ F[<<"sock", "icmp">>] = SRR
  BY PipesAre, MessagesAt DEF Fitting, Outgoing
<1>4. F[<<"arp", "mux">>] = ARPFrame /\ F[<<"mux", "arp">>] = ARPFrame
  BY PipesAre, MessagesAt DEF Fitting, Outgoing
<1>5. F[<<"ip", "mux">>] = {f \in IPFrame : Numbered(f.packet, n) /\ Addressed(f, h)}
  <2>1. \A f \in IPFrame : f.type = "PROTO_IP"
    BY DEF IPFrame
  <2> QED
    BY <2>1, PipesAre, MessagesAt DEF Fitting, Outgoing
<1>6. F[<<"mux", "ip">>] = IPFrame /\ F[<<"driver", "mux">>] = ARPFrame \cup IPFrame
  BY PipesAre, MessagesAt DEF Fitting, Outgoing
<1>7. F[<<"mux", "driver">>] =
        {f \in ARPFrame \cup IPFrame :
            f.type = "PROTO_IP" => Numbered(f.packet, n) /\ Addressed(f, h)}
  BY PipesAre, MessagesAt DEF Fitting, Outgoing
<1>8. /\ F[<<"ipmux", "ip">>] = {p \in Packet : Numbered(p, n)}
      /\ F[<<"icmp", "ipmux">>] = {p \in Packet : Numbered(p, n)}
      /\ F[<<"tcp", "ipmux">>] = {p \in Packet : Numbered(p, n)}
  BY PipesAre, MessagesAt DEF Fitting, Outgoing
<1>9. F[<<"ip", "ipmux">>] = Packet /\ F[<<"ipmux", "tcp">>] = Packet
  BY PipesAre, MessagesAt DEF Fitting, Outgoing
<1>10. F[<<"ipmux", "icmp">>] = {p \in Packet : p.proto = "ICMP"}
  BY PipesAre, MessagesAt DEF Fitting, Outgoing
<1> QED
  BY <1>1, <1>2, <1>3, <1>4, <1>5, <1>6, <1>7, <1>8, <1>9, <1>10

\* More packets and more that is heard leave room for what was there before.
LEMMA FittingGrows ==
    ASSUME NEW n \in Nat, NEW k \in Nat, n <= k, NEW h, NEW g, h \subseteq g
    PROVE  \A p \in Pipes : Fitting(n, h)[p] \subseteq Fitting(k, g)[p]
<1> SUFFICES ASSUME NEW p \in Pipes, NEW v \in Fitting(n, h)[p]
             PROVE  v \in Fitting(k, g)[p]
  OBVIOUS
<1>1. \A x \in Packet : Numbered(x, n) => Numbered(x, k)
  BY DEF Numbered, Packet
<1>2. \A f \in IPFrame : f.packet \in Packet /\ (Addressed(f, h) => Addressed(f, g))
  BY DEF Addressed, IPFrame
<1>3. \A f \in ARPFrame : f.type # "PROTO_IP"
  BY DEF ARPFrame
<1>4. CASE p \in {<<"tcp", "ipmux">>, <<"icmp", "ipmux">>, <<"ipmux", "ip">>}
  BY <1>1, <1>4, FittingAt
<1>5. CASE p = <<"ip", "mux">>
  BY <1>1, <1>2, <1>5, FittingAt
<1>6. CASE p = <<"mux", "driver">>
  BY <1>1, <1>2, <1>3, <1>6, FittingAt
<1>7. CASE p = <<"arp", "ip">>
  <2>1. v \in ARPRequestResponse /\ (v.hw = BLANK \/ <<v.ip, v.hw>> \in h)
    BY <1>7, FittingAt
  <2>2. v \in {r \in ARPRequestResponse : r.hw = BLANK \/ <<r.ip, r.hw>> \in g}
    BY <2>1
  <2> QED
    BY <2>2, <1>7, FittingAt
<1>8. CASE p \in {<<"ip", "arp">>, <<"icmp", "sock">>, <<"sock", "icmp">>, <<"arp", "mux">>, <<"mux", "arp">>,
                  <<"mux", "ip">>, <<"driver", "mux">>, <<"ip", "ipmux">>, <<"ipmux", "tcp">>, <<"ipmux", "icmp">>}
  BY <1>8, FittingAt
<1> QED
  BY <1>4, <1>5, <1>6, <1>7, <1>8, PipesAre

-----------------------------------------------------------------------------
(***************************************************************************)
(* The types and what the messages say.                                    *)
(***************************************************************************)

Fit == Fitting(packets, heard)

Travel == Carries(pipe, sends, Fit)

State ==
    /\ held \in Packet \cup {NONE} /\ (held # NONE => Numbered(held, packets))
    /\ cache \in [IPs -> HW \cup {MyHW, NONE}] /\ cache[Me] # NONE
    /\ \A x \in IPs : cache[x] # NONE => <<x, cache[x]>> \in heard
    /\ asked \subseteq Hosts
    /\ coming \in Seq(IPFrame \cup ARPFrame)
    /\ packets \in 0..Len(Dests) /\ left \in 0..packets
    /\ heard \subseteq IPs \X (HW \cup {MyHW})

Counts == UNCHANGED <<packets, heard>>

Rest == UNCHANGED <<held, cache, asked, coming, packets, heard, left>>

LEMMA Numbers ==
    ASSUME State
    PROVE  Len(Dests) \in Nat /\ packets \in Nat /\ left \in Nat
  BY NetworkAssumption DEF State

LEMMA Unmoved == ASSUME State, Rest PROVE State'
  BY DEF State, Rest, Numbered

\* Nothing, one message or two.
LEMMA Outs ==
    ASSUME NEW S, NEW m
    PROVE  /\ <<>> \in Seq(Sendings(m, S))
           /\ \A p \in Pipes : p[1] = m =>
                \A v \in S[p] : <<Message(p, v)>> \in Seq(Sendings(m, S))
           /\ \A p, q \in Pipes : p[1] = m /\ q[1] = m =>
                \A v \in S[p], w \in S[q] : <<Message(p, v), Message(q, w)>> \in Seq(Sendings(m, S))
<1>1. \A p \in Pipes : p[1] = m => \A v \in S[p] : Message(p, v) \in Sendings(m, S)
  BY MessageSent
<1> DEFINE T == Sendings(m, S)
<1>2. \A s, t \in T : <<>> \in Seq(T) /\ <<s>> \in Seq(T) /\ <<s, t>> \in Seq(T)
  <2> HIDE DEF T
  <2> QED
    OBVIOUS
<1>3. <<>> \in Seq(T)
  OBVIOUS
<1> HIDE DEF T
<1>4. \A p \in Pipes : p[1] = m => \A v \in S[p] : Message(p, v) \in T
  BY <1>1 DEF T
<1> QED
  BY <1>2, <1>3, <1>4 DEF T

LEMMA TakenFits ==
    ASSUME Travel, NEW m \in Modules, NEW x, <<x, m>> \in Pipes, Receives(m, x)
    PROVE  Received(m, x) \in Fit[<<x, m>>]
  BY HandleCarries DEF Travel, Receives, Received

LEMMA Handled ==
    ASSUME Travel, NEW m \in Modules, NEW x, <<x, m>> \in Pipes, Receives(m, x),
           NEW out \in Seq(Sendings(m, Fit)), Handles(m, x, out), Counts
    PROVE  Travel'
<1>1. Fit' = Fit
  BY DEF Fit, Counts
<1>2. Carries(pipe', sends', Fit)
  BY HandleCarries DEF Travel, Receives, Handles
<1> QED
  BY <1>1, <1>2 DEF Travel

LEMMA Started ==
    ASSUME Travel, NEW m \in Modules, NEW p \in Pipes, p[1] = m, NEW v \in Fit[p], Counts,
           sends' = [sends EXCEPT ![m] = <<Message(p, v)>>], pipe' = pipe
    PROVE  Travel'
<1>1. Fit' = Fit
  BY DEF Fit, Counts
<1>2. <<Message(p, v)>> \in Seq(Sendings(m, Fit))
  BY Outs
<1>3. Carries(pipe', sends', Fit)
  BY StartCarries, <1>2 DEF Travel
<1> QED
  BY <1>1, <1>3 DEF Travel

LEMMA SendFits ==
    ASSUME Travel, State, NEW m \in Modules, Send(m)
    PROVE  Travel' /\ State'
<1>1. Fit' = Fit /\ Rest
  BY DEF Fit, Send, Rest
<1>2. Carries(pipe', sends', Fit)
  BY SendCarries DEF Travel, Send
<1> QED
  BY <1>1, <1>2, Unmoved DEF Travel

LEMMA MuxFits ==
    ASSUME Travel, State, MuxIncoming \/ MuxOutgoing
    PROVE  Travel' /\ State'
<1>1. Rest /\ Counts
  BY DEF MuxIncoming, MuxOutgoing, Rest, Counts
<1>2. "mux" \in Modules
  BY DEF Modules
<1>3. CASE MuxIncoming
  <2> DEFINE f == Received("mux", "driver")
             to == IF f.type = "PROTO_ARP" THEN "arp" ELSE "ip"
  <2>1. Receives("mux", "driver") /\ Handles("mux", "driver", <<Message(<<"mux", to>>, f)>>)
    BY <1>3 DEF MuxIncoming
  <2>2. f \in Fit[<<"driver", "mux">>]
    BY <1>2, <2>1, TakenFits, PipesAre
  <2>3. f \in ARPFrame \cup IPFrame
    BY <2>2, FittingAt DEF Fit
  <2>4. f \in Fit[<<"mux", to>>] /\ <<"mux", to>> \in Pipes
    <3>1. CASE f \in ARPFrame
      <4>1. f.type = "PROTO_ARP"
        BY <3>1 DEF ARPFrame
      <4> QED
        BY <3>1, <4>1, FittingAt, PipesAre DEF Fit
    <3>2. CASE f \in IPFrame
      <4>1. f.type = "PROTO_IP"
        BY <3>2 DEF IPFrame
      <4> QED
        BY <3>2, <4>1, FittingAt, PipesAre DEF Fit
    <3> QED
      BY <2>3, <3>1, <3>2
  <2> HIDE DEF f, to
  <2>5. <<Message(<<"mux", to>>, f)>> \in Seq(Sendings("mux", Fit))
    BY <2>4, Outs
  <2> QED
    BY <1>1, <1>2, <2>1, <2>5, Handled, Unmoved, PipesAre
<1>4. CASE MuxOutgoing
  <2>1. PICK x \in {"arp", "ip"} :
           /\ Receives("mux", x)
           /\ Handles("mux", x, <<Message(<<"mux", "driver">>, Received("mux", x))>>)
    BY <1>4 DEF MuxOutgoing
  <2> DEFINE f == Received("mux", x)
  <2>2. <<x, "mux">> \in Pipes /\ <<"mux", "driver">> \in Pipes
    BY PipesAre
  <2>3. f \in Fit[<<x, "mux">>]
    BY <1>2, <2>1, <2>2, TakenFits
  <2>4. f \in Fit[<<"mux", "driver">>]
    <3>1. \A a \in ARPFrame : a.type # "PROTO_IP"
      BY DEF ARPFrame
    <3> QED
      BY <2>3, <3>1, FittingAt DEF Fit
  <2> HIDE DEF f
  <2>5. <<Message(<<"mux", "driver">>, f)>> \in Seq(Sendings("mux", Fit))
    BY <2>2, <2>4, Outs
  <2> QED
    BY <1>1, <1>2, <2>1, <2>2, <2>5, Handled, Unmoved DEF f
<1> QED
  BY <1>3, <1>4

LEMMA ArpPackets ==
    ASSUME NEW opcode \in {"Request", "Reply"}, NEW ip \in Hosts \cup {Me}, NEW hw \in HW \cup {MyHW},
           NEW target \in IPs
    PROVE  ARPPacket(opcode, ip, hw, target) \in ARPFrame
  BY DEF ARPPacket, ARPFrame

LEMMA LookupFits ==
    ASSUME State, NEW r \in Fit[<<"ip", "arp">>]
    PROVE  Lookup(r) \in Seq(Sendings("arp", Fit))
<1>1. r \in ARPRequestResponse /\ r.hw = BLANK /\ r.ip \in IPs
  BY FittingAt DEF Fit, ARPRequestResponse
<1>2. <<"arp", "ip">> \in Pipes /\ <<"arp", "mux">> \in Pipes
  BY PipesAre
<1>3. CASE cache[r.ip] = NONE
  <2> DEFINE v == [r EXCEPT !.ok = FALSE]
             w == ARPPacket("Request", Me, MyHW, r.ip)
  <2>1. v \in ARPRequestResponse /\ v.hw = BLANK
    BY <1>1 DEF ARPRequestResponse
  <2> HIDE DEF v
  <2>2. v \in {x \in ARPRequestResponse : x.hw = BLANK \/ <<x.ip, x.hw>> \in heard}
    BY <2>1
  <2>3. v \in Fit[<<"arp", "ip">>]
    BY <2>2, FittingAt DEF Fit
  <2>4. w \in Fit[<<"arp", "mux">>]
    BY <1>1, ArpPackets, FittingAt DEF Fit
  <2> HIDE DEF w
  <2>5. <<Message(<<"arp", "ip">>, v), Message(<<"arp", "mux">>, w)>> \in Seq(Sendings("arp", Fit))
    BY <1>2, <2>3, <2>4, Outs
  <2> QED
    BY <1>3, <2>5 DEF Lookup, v, w
<1>4. CASE cache[r.ip] # NONE
  <2> DEFINE v == [ip |-> r.ip, hw |-> cache[r.ip], ok |-> TRUE]
  <2>1. <<r.ip, cache[r.ip]>> \in heard /\ cache[r.ip] \in HW \cup {MyHW}
    BY <1>1, <1>4 DEF State
  <2>2. v \in ARPRequestResponse
    BY <1>1, <2>1 DEF ARPRequestResponse
  <2>3. v \in Fit[<<"arp", "ip">>]
    BY <2>1, <2>2, FittingAt DEF Fit
  <2> HIDE DEF v
  <2>4. <<Message(<<"arp", "ip">>, v)>> \in Seq(Sendings("arp", Fit))
    BY <1>2, <2>3, Outs
  <2> QED
    BY <1>4, <2>4 DEF Lookup, v
<1> QED
  BY <1>3, <1>4

LEMMA ArpLocalFits ==
    ASSUME Travel, State, ArpLocal
    PROVE  Travel' /\ State'
<1>1. Rest /\ Counts /\ "arp" \in Modules /\ <<"ip", "arp">> \in Pipes
  BY PipesAre DEF ArpLocal, Rest, Counts, Modules
<1>2. Receives("arp", "ip") /\ Handles("arp", "ip", Lookup(Received("arp", "ip")))
  BY DEF ArpLocal
<1>3. Received("arp", "ip") \in Fit[<<"ip", "arp">>]
  BY <1>1, <1>2, TakenFits
<1>4. Lookup(Received("arp", "ip")) \in Seq(Sendings("arp", Fit))
  BY <1>3, LookupFits
<1> QED
  BY <1>1, <1>2, <1>4, Handled, Unmoved

LEMMA ArpRemoteFits ==
    ASSUME Travel, State, ArpRemote
    PROVE  Travel' /\ State'
<1> DEFINE a == Received("arp", "mux")
           reply == ARPPacket("Reply", Me, MyHW, a.ip)
           out == IF a.opcode = "Request" /\ a.target = Me THEN <<Message(<<"arp", "mux">>, reply)>> ELSE <<>>
<1>1. "arp" \in Modules /\ <<"mux", "arp">> \in Pipes /\ <<"arp", "mux">> \in Pipes
  BY PipesAre DEF Modules
<1>2. Receives("arp", "mux") /\ Handles("arp", "mux", out)
  BY DEF ArpRemote
<1>3. a \in Fit[<<"mux", "arp">>]
  BY <1>1, <1>2, TakenFits
<1>4. a \in ARPFrame
  BY <1>3, FittingAt DEF Fit
<1>5. a.ip \in Hosts \cup {Me} /\ a.hw \in HW \cup {MyHW} /\ a.ip \in IPs
  BY <1>4 DEF ARPFrame, IPs
<1>6. heard' = heard \cup {<<a.ip, a.hw>>} /\ cache' = [cache EXCEPT ![a.ip] = a.hw]
      /\ UNCHANGED <<held, asked, coming, packets, left>>
  BY DEF ArpRemote, Update
<1>7. reply \in Fit[<<"arp", "mux">>]
  BY <1>5, ArpPackets, FittingAt DEF Fit
<1> HIDE DEF a, reply
<1>8. out \in Seq(Sendings("arp", Fit))
  BY <1>1, <1>7, Outs
<1> HIDE DEF out
<1>9. Carries(pipe', sends', Fit)
  BY <1>1, <1>2, <1>8, HandleCarries DEF Travel, Receives, Handles
<1>10. Fit' = Fitting(packets, heard')
  BY <1>6 DEF Fit
<1>11. \A p \in Pipes : Fit[p] \subseteq Fitting(packets, heard')[p]
  BY <1>6, Numbers, FittingGrows DEF Fit
<1>12. Carries(pipe', sends', Fitting(packets, heard'))
  BY <1>9, <1>11, Widened
<1>13. State'
  <2>1. cache' \in [IPs -> HW \cup {MyHW, NONE}] /\ cache'[Me] # NONE
    BY <1>5, <1>6, NetworkAssumption DEF State
  <2>2. \A x \in IPs : cache'[x] # NONE => <<x, cache'[x]>> \in heard'
    BY <1>5, <1>6 DEF State
  <2>3. heard' \subseteq IPs \X (HW \cup {MyHW})
    BY <1>5, <1>6 DEF State
  <2> QED
    BY <1>6, <2>1, <2>2, <2>3 DEF State, Numbered
<1> QED
  BY <1>10, <1>12, <1>13 DEF Travel

LEMMA HeldFits ==
    ASSUME State, NEW p \in Packet
    PROVE  SendPacket(p) \in Seq(Sendings("ip", Fit))
<1> DEFINE v == [ip |-> p.dest, hw |-> BLANK, ok |-> FALSE]
<1>1. v \in ARPRequestResponse /\ v.hw = BLANK
  BY DEF ARPRequestResponse, Packet
<1>2. v \in Fit[<<"ip", "arp">>]
  BY <1>1, FittingAt DEF Fit
<1> HIDE DEF v
<1>3. <<Message(<<"ip", "arp">>, v)>> \in Seq(Sendings("ip", Fit))
  BY <1>2, Outs, PipesAre
<1> QED
  BY <1>3 DEF SendPacket, v

LEMMA ErrorPacket ==
    ASSUME NEW dest \in IPs
    PROVE  ICMPError(dest) \in Packet /\ ICMPError(dest).proto = "ICMP"
  BY DEF ICMPError, Packet, ICMPTypes, IPs

LEMMA IpIncomingFits ==
    ASSUME Travel, State, IpIncoming
    PROVE  Travel' /\ State'
<1> DEFINE f == Received("ip", "mux")
           p == f.packet
<1>1. "ip" \in Modules /\ <<"mux", "ip">> \in Pipes /\ <<"ip", "ipmux">> \in Pipes /\ Counts
  BY PipesAre DEF Modules, IpIncoming, Counts
<1>2. Receives("ip", "mux") /\ UNCHANGED <<cache, asked, coming, packets, heard, left>>
  BY DEF IpIncoming
<1>3. f \in Fit[<<"mux", "ip">>]
  BY <1>1, <1>2, TakenFits
<1>4. f \in IPFrame
  BY <1>3, FittingAt DEF Fit
<1>5. p \in Packet /\ p.src \in IPs
  BY <1>4 DEF IPFrame, Packet
<1>6. CASE Handles("ip", "mux", <<>>) /\ held' = held
  BY <1>1, <1>2, <1>6, Outs, Handled, Unmoved DEF Rest
<1>7. CASE Handles("ip", "mux", <<Message(<<"ip", "ipmux">>, p)>>) /\ held' = held
  <2>1. p \in Fit[<<"ip", "ipmux">>]
    BY <1>5, FittingAt DEF Fit
  <2> HIDE DEF p
  <2>2. <<Message(<<"ip", "ipmux">>, p)>> \in Seq(Sendings("ip", Fit))
    BY <1>1, <2>1, Outs
  <2> QED
    BY <1>1, <1>2, <1>7, <2>2, Handled, Unmoved DEF Rest
<1>8. CASE held' = ICMPError(p.src) /\ Handles("ip", "mux", SendPacket(held'))
  <2>1. held' \in Packet /\ held'.proto = "ICMP"
    BY <1>5, <1>8, ErrorPacket
  <2>2. SendPacket(held') \in Seq(Sendings("ip", Fit))
    BY <2>1, HeldFits
  <2>3. Travel'
    BY <1>1, <1>2, <1>8, <2>2, Handled
  <2>4. State'
    BY <1>2, <2>1 DEF State, Numbered
  <2> QED
    BY <2>3, <2>4
<1> QED
  BY <1>6, <1>7, <1>8 DEF IpIncoming

LEMMA IpOutgoingFits ==
    ASSUME Travel, State, IpOutgoing
    PROVE  Travel' /\ State'
<1> DEFINE p == Received("ip", "ipmux")
<1>1. "ip" \in Modules /\ <<"ipmux", "ip">> \in Pipes /\ Counts
  BY PipesAre DEF Modules, IpOutgoing, Counts
<1>2. /\ Receives("ip", "ipmux") /\ UNCHANGED <<cache, asked, coming, packets, heard, left>>
      /\ held' = p /\ Handles("ip", "ipmux", SendPacket(p))
  BY DEF IpOutgoing, Hold
<1>3. p \in Fit[<<"ipmux", "ip">>]
  BY <1>1, <1>2, TakenFits
<1>4. p \in Packet /\ Numbered(p, packets)
  BY <1>3, FittingAt DEF Fit
<1>5. SendPacket(p) \in Seq(Sendings("ip", Fit))
  BY <1>4, HeldFits
<1>6. Travel'
  BY <1>1, <1>2, <1>5, Handled
<1>7. State'
  BY <1>2, <1>4 DEF State, Numbered
<1> QED
  BY <1>6, <1>7

LEMMA IpAnsweredFits ==
    ASSUME Travel, State, IpAnswered,
           Receives("ip", "arp") => Received("ip", "arp").ip = held.dest
    PROVE  Travel' /\ State'
<1> DEFINE r == Received("ip", "arp")
           f == [type |-> "PROTO_IP", hw |-> r.hw, packet |-> held]
<1>1. "ip" \in Modules /\ <<"arp", "ip">> \in Pipes /\ <<"ip", "mux">> \in Pipes /\ Counts
  BY PipesAre DEF Modules, IpAnswered, Counts
<1>2. /\ Receives("ip", "arp") /\ UNCHANGED <<cache, asked, coming, packets, heard, left>>
      /\ held' = NONE /\ held # NONE /\ Handles("ip", "arp", SentOrDiscarded(r))
  BY DEF IpAnswered
<1>3. r \in Fit[<<"arp", "ip">>]
  BY <1>1, <1>2, TakenFits
<1>4. r \in ARPRequestResponse /\ (r.hw = BLANK \/ <<r.ip, r.hw>> \in heard)
  BY <1>3, FittingAt DEF Fit
<1>5. held \in Packet /\ Numbered(held, packets) /\ r.ip = held.dest
  BY <1>2 DEF State
<1> HIDE DEF r
<1>6. CASE r.hw # BLANK \/ held.dest = BROADCAST
  <2>1. f \in IPFrame /\ f.packet = held /\ f.hw = r.hw
    BY <1>4, <1>5 DEF IPFrame, ARPRequestResponse
  <2>2. Addressed(f, heard)
    BY <1>4, <1>5, <1>6, <2>1 DEF Addressed
  <2> HIDE DEF f
  <2>3. f \in Fit[<<"ip", "mux">>]
    BY <1>5, <2>1, <2>2, FittingAt DEF Fit
  <2>4. <<Message(<<"ip", "mux">>, f)>> \in Seq(Sendings("ip", Fit))
    BY <1>1, <2>3, Outs
  <2> QED
    BY <1>6, <2>4, <1>1, <1>2, Handled DEF SentOrDiscarded, Frame, f, State
<1>7. CASE ~ (r.hw # BLANK \/ held.dest = BROADCAST)
  BY <1>7, <1>1, <1>2, Outs, Handled DEF SentOrDiscarded, State
<1> QED
  BY <1>6, <1>7

LEMMA IpMuxFits ==
    ASSUME Travel, State, IpMuxUp \/ IpMuxDown
    PROVE  Travel' /\ State'
<1>1. Rest /\ Counts /\ "ipmux" \in Modules
  BY DEF IpMuxUp, IpMuxDown, Rest, Counts, Modules
<1>2. CASE IpMuxUp
  <2> DEFINE p == Received("ipmux", "ip")
  <2>1. Receives("ipmux", "ip") /\ Handles("ipmux", "ip", <<MuxUp(p)>>)
    BY <1>2 DEF IpMuxUp
  <2>2. p \in Fit[<<"ip", "ipmux">>]
    BY <1>1, <2>1, TakenFits, PipesAre
  <2>3. p \in Packet /\ p.src \in IPs
    <3>1. p \in Packet
      BY <2>2, FittingAt DEF Fit
    <3> QED
      BY <3>1 DEF Packet
  <2> HIDE DEF p
  <2>4. <<MuxUp(p)>> \in Seq(Sendings("ipmux", Fit))
    <3>1. CASE p.proto = "TCP"
      <4>1. p \in Fit[<<"ipmux", "tcp">>]
        BY <2>3, FittingAt DEF Fit
      <4> QED
        BY <3>1, <4>1, Outs, PipesAre DEF MuxUp
    <3>2. CASE p.proto = "ICMP"
      <4>1. p \in Fit[<<"ipmux", "icmp">>]
        BY <2>3, <3>2, FittingAt DEF Fit
      <4> QED
        BY <3>2, <4>1, Outs, PipesAre DEF MuxUp
    <3>3. CASE p.proto # "TCP" /\ p.proto # "ICMP"
      <4>1. ICMPError(p.src) \in Packet /\ Numbered(ICMPError(p.src), packets)
        BY <2>3, ErrorPacket DEF Numbered
      <4>2. ICMPError(p.src) \in Fit[<<"ipmux", "ip">>]
        BY <4>1, FittingAt DEF Fit
      <4> QED
        BY <3>3, <4>2, Outs, PipesAre DEF MuxUp
    <3> QED
      BY <3>1, <3>2, <3>3
  <2> QED
    BY <1>1, <2>1, <2>4, Handled, Unmoved, PipesAre DEF p
<1>3. CASE IpMuxDown
  <2>1. PICK x \in {"tcp", "icmp"} :
           /\ Receives("ipmux", x)
           /\ Handles("ipmux", x, <<Message(<<"ipmux", "ip">>, Received("ipmux", x))>>)
    BY <1>3 DEF IpMuxDown
  <2> DEFINE p == Received("ipmux", x)
  <2>2. <<x, "ipmux">> \in Pipes /\ <<"ipmux", "ip">> \in Pipes
    BY PipesAre
  <2>3. p \in Fit[<<x, "ipmux">>]
    BY <1>1, <2>1, <2>2, TakenFits
  <2>4. p \in Fit[<<"ipmux", "ip">>]
    BY <2>3, FittingAt DEF Fit
  <2> HIDE DEF p
  <2>5. <<Message(<<"ipmux", "ip">>, p)>> \in Seq(Sendings("ipmux", Fit))
    BY <2>2, <2>4, Outs
  <2> QED
    BY <1>1, <2>1, <2>2, <2>5, Handled, Unmoved DEF p
<1> QED
  BY <1>2, <1>3

LEMMA IcmpFits ==
    ASSUME Travel, State, IcmpIncoming \/ IcmpStatus \/ SockIcmp
    PROVE  Travel' /\ State'
<1>1. Rest /\ Counts /\ "icmp" \in Modules /\ "sock" \in Modules
  BY DEF IcmpIncoming, IcmpStatus, SockIcmp, Rest, Counts, Modules
<1>2. CASE IcmpIncoming
  <2> DEFINE p == Received("icmp", "ipmux")
  <2>1. PICK out \in {<<Message(<<"icmp", "ipmux">>, respond(p))>>, <<Message(<<"icmp", "sock">>, "WRITE")>>} :
           Receives("icmp", "ipmux") /\ Handles("icmp", "ipmux", out)
    BY <1>2 DEF IcmpIncoming
  <2>2. p \in Fit[<<"ipmux", "icmp">>]
    BY <1>1, <2>1, TakenFits, PipesAre
  <2>3. p \in Packet /\ p.proto = "ICMP"
    BY <2>2, FittingAt DEF Fit
  <2> HIDE DEF p
  <2>4. respond(p) \in Packet /\ respond(p).proto = "ICMP"
    BY <2>3 DEF respond, Packet, ICMPTypes
  <2>5. respond(p) \in Fit[<<"icmp", "ipmux">>]
    BY <2>4, FittingAt DEF Fit, Numbered
  <2>6. "WRITE" \in Fit[<<"icmp", "sock">>]
    BY FittingAt DEF Fit, SRR
  <2>7. out \in Seq(Sendings("icmp", Fit))
    BY <2>5, <2>6, Outs, PipesAre
  <2> QED
    BY <1>1, <2>1, <2>7, Handled, Unmoved, PipesAre
<1>3. CASE IcmpStatus
  <2>1. Receives("icmp", "sock") /\ Handles("icmp", "sock", <<>>)
    BY <1>3 DEF IcmpStatus
  <2> QED
    BY <1>1, <2>1, Outs, Handled, Unmoved, PipesAre
<1>4. CASE SockIcmp
  <2>1. Receives("sock", "icmp") /\ Handles("sock", "icmp", <<Message(<<"sock", "icmp">>, "STATUS")>>)
    BY <1>4 DEF SockIcmp
  <2>2. "STATUS" \in Fit[<<"sock", "icmp">>]
    BY FittingAt DEF Fit, SRR
  <2>3. <<Message(<<"sock", "icmp">>, "STATUS")>> \in Seq(Sendings("sock", Fit))
    BY <2>2, Outs, PipesAre
  <2> QED
    BY <1>1, <2>1, <2>3, Handled, Unmoved, PipesAre
<1> QED
  BY <1>2, <1>3, <1>4

LEMMA SegmentFits ==
    ASSUME State, NEW n \in 1..Len(Dests), NEW h
    PROVE  TCPPacket(n) \in Fitting(n, h)[<<"tcp", "ipmux">>]
<1>1. Dests[n] \in IPs /\ n \in Nat
  BY NetworkAssumption DEF IPs
<1>2. TCPPacket(n) \in Packet /\ Numbered(TCPPacket(n), n)
  BY <1>1 DEF TCPPacket, Packet, Numbered, IPs
<1> QED
  BY <1>2, FittingAt

LEMMA TcpFits ==
    ASSUME Travel, State, TcpSend \/ TcpResend \/ TcpReceive
    PROVE  Travel' /\ State'
<1>1. "tcp" \in Modules /\ <<"tcp", "ipmux">> \in Pipes /\ <<"ipmux", "tcp">> \in Pipes
  BY PipesAre DEF Modules
<1>2. CASE TcpSend
  <2>1. /\ packets < Len(Dests) /\ packets' = packets + 1
        /\ sends' = [sends EXCEPT !["tcp"] = <<Message(<<"tcp", "ipmux">>, TCPPacket(packets'))>>]
        /\ UNCHANGED <<pipe, held, cache, asked, coming, heard, left>>
    BY <1>2 DEF TcpSend
  <2>2. packets' \in 1..Len(Dests) /\ packets' \in Nat /\ packets \in Nat /\ packets <= packets'
    BY <2>1, Numbers
  <2> DEFINE F == Fitting(packets', heard)
  <2>3. TCPPacket(packets') \in F[<<"tcp", "ipmux">>]
    BY <2>2, SegmentFits
  <2>4. \A p \in Pipes : Fit[p] \subseteq F[p]
    BY <2>2, FittingGrows DEF Fit
  <2>5. Carries(pipe, sends, F)
    BY <2>4, Widened DEF Travel
  <2>6. Fit' = F
    BY <2>1 DEF Fit
  <2> HIDE DEF F
  <2>7. <<Message(<<"tcp", "ipmux">>, TCPPacket(packets'))>> \in Seq(Sendings("tcp", F))
    BY <1>1, <2>3, Outs
  <2>8. Carries(pipe', sends', F)
    BY <1>1, <2>1, <2>5, <2>7, StartCarries
  <2>9. held' # NONE => Numbered(held', packets')
    BY <2>1, <2>2 DEF State, Numbered, Packet
  <2>10. State'
    BY <2>1, <2>2, <2>9, Numbers DEF State
  <2> QED
    BY <2>6, <2>8, <2>10 DEF Travel
<1>3. CASE TcpResend
  <2>1. /\ left < packets /\ Rest /\ pipe' = pipe
        /\ sends' = [sends EXCEPT !["tcp"] = <<Message(<<"tcp", "ipmux">>, TCPPacket(packets))>>]
    BY <1>3 DEF TcpResend, Rest
  <2>2. packets \in 1..Len(Dests)
    BY <2>1, Numbers DEF State
  <2>3. TCPPacket(packets) \in Fit[<<"tcp", "ipmux">>]
    BY <2>2, SegmentFits DEF Fit
  <2> QED
    BY <1>1, <2>1, <2>3, Started, Unmoved DEF Rest, Counts
<1>4. CASE TcpReceive
  <2>1. Receives("tcp", "ipmux") /\ Handles("tcp", "ipmux", <<>>) /\ Rest /\ Counts
    BY <1>4 DEF TcpReceive, Rest, Counts
  <2> QED
    BY <1>1, <2>1, Outs, Handled, Unmoved
<1> QED
  BY <1>2, <1>3, <1>4

LEMMA DriverFits ==
    ASSUME Travel, State, NEW lost \in BOOLEAN, DriverOutgoing(lost)
    PROVE  Travel' /\ State'
<1> DEFINE f == Received("driver", "mux")
<1>1. "driver" \in Modules /\ <<"mux", "driver">> \in Pipes
  BY PipesAre DEF Modules
<1>2. /\ Receives("driver", "mux") /\ Handles("driver", "mux", <<>>) /\ Counts
      /\ UNCHANGED <<held, cache, coming, packets, heard>>
  BY DEF DriverOutgoing, Counts
<1>3. Travel'
  BY <1>1, <1>2, Outs, Handled
<1>4. f \in Fit[<<"mux", "driver">>]
  BY <1>1, <1>2, TakenFits
<1>5. f \in ARPFrame \cup IPFrame /\ (f.type = "PROTO_IP" => Numbered(f.packet, packets))
  BY <1>4, FittingAt DEF Fit
<1>6. CASE f.type = "PROTO_IP"
  <2>1. f \in IPFrame
    BY <1>5, <1>6 DEF ARPFrame
  <2>2. f.packet \in Packet
    BY <2>1 DEF IPFrame
  <2>3. f.packet.seq \in Nat
    BY <2>2 DEF Packet
  <2>4. left' = (IF f.packet.proto = "TCP" THEN f.packet.seq ELSE left) /\ asked' = asked
    BY <1>6 DEF DriverOutgoing
  <2>5. left' \in 0..packets
    BY <1>5, <1>6, <2>3, <2>4, Numbers DEF Numbered, State
  <2> QED
    BY <1>2, <1>3, <2>4, <2>5 DEF State, Numbered
<1>7. CASE f.type # "PROTO_IP"
  <2>1. left' = left /\ asked' \subseteq asked \cup Hosts
    BY <1>7 DEF DriverOutgoing
  <2> QED
    BY <1>2, <1>3, <2>1 DEF State, Numbered
<1> QED
  BY <1>6, <1>7

LEMMA NetworkFits ==
    ASSUME Travel, State, HostReplies \/ DriverIncoming
    PROVE  Travel' /\ State'
<1>1. "driver" \in Modules /\ <<"driver", "mux">> \in Pipes
  BY PipesAre DEF Modules
<1>2. CASE HostReplies
  <2>1. PICK h \in asked, hw \in HW :
           asked' = asked \ {h} /\ FromNetwork(ARPPacket("Reply", h, hw, Me))
    BY <1>2 DEF HostReplies
  <2>2. UNCHANGED <<pipe, held, cache, coming, packets, heard, left>> /\ Counts
    BY <1>2 DEF HostReplies, Counts
  <2>3. ARPPacket("Reply", h, hw, Me) \in ARPFrame
    BY ArpPackets DEF State, IPs
  <2>4. ARPPacket("Reply", h, hw, Me) \in Fit[<<"driver", "mux">>]
    BY <2>3, FittingAt DEF Fit
  <2>5. Travel'
    BY <1>1, <2>1, <2>2, <2>4, Started DEF FromNetwork
  <2>6. State'
    BY <2>1, <2>2 DEF State, Numbered
  <2> QED
    BY <2>5, <2>6
<1>3. CASE DriverIncoming
  <2>1. /\ coming # <<>> /\ FromNetwork(Head(coming)) /\ coming' = Tail(coming)
        /\ UNCHANGED <<pipe, held, cache, asked, packets, heard, left>> /\ Counts
    BY <1>3 DEF DriverIncoming, Counts
  <2>2. Head(coming) \in IPFrame \cup ARPFrame /\ Tail(coming) \in Seq(IPFrame \cup ARPFrame)
    <3> DEFINE A == IPFrame \cup ARPFrame
    <3>1. coming \in Seq(A)
      BY DEF State
    <3> HIDE DEF A
    <3>2. Head(coming) \in A /\ Tail(coming) \in Seq(A)
      BY <2>1, <3>1
    <3> QED
      BY <3>2 DEF A
  <2>3. Head(coming) \in Fit[<<"driver", "mux">>]
    BY <2>2, FittingAt DEF Fit
  <2>4. Travel'
    BY <1>1, <2>1, <2>3, Started DEF FromNetwork
  <2>5. State'
    BY <2>1, <2>2 DEF State, Numbered
  <2> QED
    BY <2>4, <2>5
<1> QED
  BY <1>2, <1>3

-----------------------------------------------------------------------------
(***************************************************************************)
(* The IP module has at most one question open: while it holds a packet    *)
(* the question or its answer is in exactly one place.                     *)
(***************************************************************************)

Question == <<"ip", "arp">>
Answer == <<"arp", "ip">>

NotAsked == \A i \in DOMAIN sends["ip"] : sends["ip"][i].pipe # Question
NotUnderWay == pipe[Question] = <<>>
NotAnswered == \A i \in DOMAIN sends["arp"] : sends["arp"][i].pipe # Answer
NotBack == pipe[Answer] = <<>>

Asking == sends["ip"] = SendPacket(held)

UnderWay == \E r : pipe[Question] = <<r>> /\ r.ip = held.dest

Answering ==
    /\ sends["arp"] # <<>>
    /\ Head(sends["arp"]).pipe = Answer /\ Head(sends["arp"]).msg.ip = held.dest
    /\ \A i \in DOMAIN Tail(sends["arp"]) : Tail(sends["arp"])[i].pipe # Answer

Back == \E r : pipe[Answer] = <<r>> /\ r.ip = held.dest

OneQuestion ==
    \/ held = NONE /\ NotAsked /\ NotUnderWay /\ NotAnswered /\ NotBack
    \/ held # NONE /\ Asking /\ NotUnderWay /\ NotAnswered /\ NotBack
    \/ held # NONE /\ NotAsked /\ UnderWay /\ NotAnswered /\ NotBack
    \/ held # NONE /\ NotAsked /\ NotUnderWay /\ Answering /\ NotBack
    \/ held # NONE /\ NotAsked /\ NotUnderWay /\ NotAnswered /\ Back

LEMMA HandlesEffect ==
    ASSUME Travel, NEW m \in Modules, NEW x, <<x, m>> \in Pipes, NEW out, Handles(m, x, out)
    PROVE  /\ sends'[m] = out /\ pipe'[<<x, m>>] = Tail(pipe[<<x, m>>])
           /\ \A k \in Modules : k # m => sends'[k] = sends[k]
           /\ \A q \in Pipes : q # <<x, m>> => pipe'[q] = pipe[q]
  BY DEF Travel, Carries, Handles

LEMMA SendEffect ==
    ASSUME Travel, NEW m \in Modules, Send(m)
    PROVE  LET s == Head(sends[m])
           IN  /\ s.pipe \in Pipes /\ s.pipe[1] = m /\ held' = held
               /\ sends[m] # <<>> /\ sends'[m] = Tail(sends[m])
               /\ pipe'[s.pipe] = Append(pipe[s.pipe], s.msg)
               /\ \A k \in Modules : k # m => sends'[k] = sends[k]
               /\ \A q \in Pipes : q # s.pipe => pipe'[q] = pipe[q]
<1>1. Head(sends[m]).pipe \in Pipes /\ Head(sends[m]).pipe[1] = m
  BY SendCarries DEF Travel, Send
<1> QED
  BY <1>1 DEF Travel, Carries, Send

LEMMA Untouched ==
    ASSUME OneQuestion, held' = held, sends'["ip"] = sends["ip"], sends'["arp"] = sends["arp"],
           pipe'[Question] = pipe[Question], pipe'[Answer] = pipe[Answer]
    PROVE  OneQuestion'
  BY DEF OneQuestion, NotAsked, NotUnderWay, NotAnswered, NotBack, Asking, UnderWay, Answering, Back,
         SendPacket, Question, Answer

\* The handlers of the other modules have nothing to do with it.
LEMMA OthersUntouched ==
    ASSUME Travel, OneQuestion, NEW m \in Modules \ {"ip", "arp"}, NEW x, <<x, m>> \in Pipes,
           NEW out, Handles(m, x, out), held' = held
    PROVE  OneQuestion'
<1>1. Question \in Pipes /\ Answer \in Pipes /\ "ip" \in Modules /\ "arp" \in Modules
  BY PipesAre DEF Question, Answer, Modules
<1>2. <<x, m>> # Question /\ <<x, m>> # Answer
  BY DEF Question, Answer
<1> QED
  BY <1>1, <1>2, HandlesEffect, Untouched

LEMMA SequenceFacts ==
    ASSUME NEW S, NEW q \in Seq(S), q # <<>>
    PROVE  /\ Len(q) \in Nat /\ Len(q) > 0 /\ DOMAIN q = 1..Len(q) /\ Head(q) = q[1]
           /\ DOMAIN Tail(q) = 1..(Len(q) - 1)
           /\ \A i \in DOMAIN Tail(q) : i + 1 \in DOMAIN q /\ Tail(q)[i] = q[i + 1]
  OBVIOUS

LEMMA SendKeepsQuestion ==
    ASSUME Travel, State, OneQuestion, NEW m \in Modules, Send(m)
    PROVE  OneQuestion'
<1> DEFINE s == Head(sends[m])
<1>1. Question \in Pipes /\ Answer \in Pipes /\ "ip" \in Modules /\ "arp" \in Modules
      /\ Question[1] = "ip" /\ Answer[1] = "arp" /\ Question # Answer
  BY PipesAre DEF Question, Answer, Modules
<1>2. /\ s.pipe \in Pipes /\ s.pipe[1] = m /\ held' = held
      /\ sends[m] # <<>> /\ sends'[m] = Tail(sends[m])
      /\ pipe'[s.pipe] = Append(pipe[s.pipe], s.msg)
      /\ \A k \in Modules : k # m => sends'[k] = sends[k]
      /\ \A q \in Pipes : q # s.pipe => pipe'[q] = pipe[q]
  BY SendEffect
<1>3. sends[m] \in Seq(Sendings(m, Fit))
  BY DEF Travel, Carries
<1>4. /\ s = sends[m][1] /\ 1 \in DOMAIN sends[m]
      /\ \A i \in DOMAIN Tail(sends[m]) : i + 1 \in DOMAIN sends[m] /\ Tail(sends[m])[i] = sends[m][i + 1]
  <2> DEFINE q == sends[m]
             S == Sendings(m, Fit)
  <2>1. q \in Seq(S) /\ q # <<>>
    BY <1>2, <1>3
  <2> HIDE DEF q, S
  <2>2. /\ Len(q) \in Nat /\ Len(q) > 0 /\ DOMAIN q = 1..Len(q) /\ Head(q) = q[1]
        /\ \A i \in DOMAIN Tail(q) : i + 1 \in DOMAIN q /\ Tail(q)[i] = q[i + 1]
    BY <2>1, SequenceFacts
  <2>3. 1 \in DOMAIN q
    BY <2>2
  <2> QED
    BY <2>2, <2>3 DEF q
<1> HIDE DEF s
<1>5. CASE m # "ip" /\ m # "arp"
  <2>1. s.pipe # Question /\ s.pipe # Answer
    BY <1>1, <1>2, <1>5
  <2> QED
    BY <1>1, <1>2, <1>5, <2>1, Untouched
<1>6. CASE m = "ip"
  <2>1. s.pipe # Answer /\ pipe'[Answer] = pipe[Answer] /\ sends'["arp"] = sends["arp"]
    BY <1>1, <1>2, <1>6
  <2>2. NotAsked => NotAsked'
    <3>1. sends'["ip"] = Tail(sends["ip"])
      BY <1>2, <1>6
    <3> SUFFICES ASSUME NotAsked, NEW i \in DOMAIN Tail(sends["ip"])
                 PROVE  Tail(sends["ip"])[i].pipe # Question
      BY <3>1 DEF NotAsked
    <3>2. i + 1 \in DOMAIN sends["ip"] /\ Tail(sends["ip"])[i] = sends["ip"][i + 1]
      BY <1>4, <1>6
    <3> QED
      BY <3>2 DEF NotAsked
  <2>3. NotAsked => s.pipe # Question
    BY <1>4, <1>6 DEF NotAsked
  <2>4. CASE NotAsked
    <3>1. pipe'[Question] = pipe[Question]
      BY <1>1, <1>2, <2>3, <2>4
    <3>2. held # NONE /\ Asking => ~ NotAsked
      BY <1>4, <1>6 DEF Asking, NotAsked, SendPacket, Message, Question
    <3> QED
      BY <1>2, <2>1, <2>2, <2>4, <3>1, <3>2
      DEF OneQuestion, NotUnderWay, NotAnswered, NotBack, UnderWay, Answering, Back
  <2>5. CASE held # NONE /\ Asking /\ NotUnderWay /\ NotAnswered /\ NotBack
    <3> DEFINE r == [ip |-> held.dest, hw |-> BLANK, ok |-> FALSE]
    <3>1. s = Message(Question, r) /\ Tail(sends["ip"]) = <<>>
      BY <1>4, <1>6, <2>5 DEF Asking, SendPacket, s, Question
    <3>2. s.pipe = Question /\ s.msg = r /\ r.ip = held.dest
      BY <3>1 DEF Message
    <3> HIDE DEF r
    <3>3. sends'["ip"] = <<>> /\ pipe'[Question] = Append(<<>>, r)
      BY <1>2, <1>6, <2>5, <3>1, <3>2 DEF NotUnderWay
    <3>4. NotAsked' /\ pipe'[Question] = <<r>>
      BY <3>3 DEF NotAsked
    <3>5. UnderWay' /\ NotAnswered' /\ NotBack'
      BY <1>2, <2>1, <2>5, <3>2, <3>4 DEF UnderWay, NotAnswered, NotBack
    <3> QED
      BY <1>2, <2>5, <3>4, <3>5 DEF OneQuestion
  <2> QED
    BY <2>4, <2>5 DEF OneQuestion
<1>7. CASE m = "arp"
  <2>1. s.pipe # Question /\ pipe'[Question] = pipe[Question] /\ sends'["ip"] = sends["ip"]
    BY <1>1, <1>2, <1>7
  <2>2. NotAnswered => NotAnswered'
    <3>1. sends'["arp"] = Tail(sends["arp"])
      BY <1>2, <1>7
    <3> SUFFICES ASSUME NotAnswered, NEW i \in DOMAIN Tail(sends["arp"])
                 PROVE  Tail(sends["arp"])[i].pipe # Answer
      BY <3>1 DEF NotAnswered
    <3>2. i + 1 \in DOMAIN sends["arp"] /\ Tail(sends["arp"])[i] = sends["arp"][i + 1]
      BY <1>4, <1>7
    <3> QED
      BY <3>2 DEF NotAnswered
  <2>3. NotAnswered => s.pipe # Answer
    BY <1>4, <1>7 DEF NotAnswered
  <2>4. CASE NotAnswered
    <3>1. pipe'[Answer] = pipe[Answer]
      BY <1>1, <1>2, <2>3, <2>4
    <3>2. Answering => ~ NotAnswered
      BY <1>4, <1>7 DEF Answering, NotAnswered, s
    <3> QED
      BY <1>2, <2>1, <2>2, <2>4, <3>1, <3>2
      DEF OneQuestion, NotUnderWay, NotAsked, NotBack, UnderWay, Asking, Back, SendPacket
  <2>5. CASE held # NONE /\ NotAsked /\ NotUnderWay /\ Answering /\ NotBack
    <3>1. s.pipe = Answer /\ s.msg.ip = held.dest
      BY <1>7, <2>5 DEF Answering, s
    <3>2. pipe'[Answer] = Append(<<>>, s.msg) /\ NotAnswered'
      BY <1>2, <1>7, <2>5, <3>1 DEF Answering, NotAnswered, NotBack
    <3>3. pipe'[Answer] = <<s.msg>>
      BY <3>2
    <3>4. Back' /\ NotAsked' /\ NotUnderWay'
      BY <1>2, <2>1, <2>5, <3>1, <3>3 DEF Back, NotAsked, NotUnderWay
    <3> QED
      BY <1>2, <2>5, <3>2, <3>4 DEF OneQuestion
  <2> QED
    BY <2>4, <2>5 DEF OneQuestion
<1> QED
  BY <1>5, <1>6, <1>7

LEMMA ArpKeepsQuestion ==
    ASSUME Travel, State, OneQuestion, ArpLocal \/ ArpRemote
    PROVE  OneQuestion'
<1>1. /\ Question \in Pipes /\ Answer \in Pipes /\ "ip" \in Modules /\ "arp" \in Modules
      /\ <<"mux", "arp">> \in Pipes
      /\ Question # Answer /\ <<"mux", "arp">> # Question /\ <<"mux", "arp">> # Answer
  BY PipesAre DEF Question, Answer, Modules
<1>2. Receives("arp", "ip") \/ Receives("arp", "mux")
  BY DEF ArpLocal, ArpRemote
<1>3. NotAnswered /\ ~ Answering
  BY <1>2 DEF Receives, NotAnswered, Answering
<1>4. CASE ArpLocal
  <2> DEFINE out == Lookup(Received("arp", "ip"))
  <2>1. Receives("arp", "ip") /\ Handles("arp", "ip", out) /\ held' = held
    BY <1>4 DEF ArpLocal
  <2>2. held # NONE /\ NotAsked /\ UnderWay /\ NotBack
    BY <1>3, <2>1 DEF OneQuestion, NotUnderWay, Receives, Question
  <2>3. PICK r : pipe[Question] = <<r>> /\ r.ip = held.dest
    BY <2>2 DEF UnderWay
  <2>4. Received("arp", "ip") = r
    BY <2>3 DEF Received, Question
  <2>5. r \in Fit[Question]
    BY <1>1, <2>1, <2>4, TakenFits DEF Question
  <2>6. r \in ARPRequestResponse
    BY <2>5, FittingAt DEF Fit, Question
  <2>7. /\ sends'["arp"] = Lookup(r) /\ pipe'[Question] = Tail(<<r>>)
        /\ sends'["ip"] = sends["ip"] /\ pipe'[Answer] = pipe[Answer]
    <3>1. Handles("arp", "ip", Lookup(r)) /\ <<"ip", "arp">> = Question
      BY <2>1, <2>4 DEF Question
    <3>2. /\ sends'["arp"] = Lookup(r) /\ pipe'[Question] = Tail(pipe[Question])
          /\ \A k \in Modules : k # "arp" => sends'[k] = sends[k]
          /\ \A q \in Pipes : q # Question => pipe'[q] = pipe[q]
      BY <1>1, <3>1, HandlesEffect
    <3> QED
      BY <1>1, <2>3, <3>2
  <2>8. NotUnderWay' /\ NotAsked' /\ NotBack'
    BY <2>2, <2>7 DEF NotUnderWay, NotAsked, NotBack
  <2>9. /\ Lookup(r) # <<>> /\ Head(Lookup(r)).pipe = Answer /\ Head(Lookup(r)).msg.ip = r.ip
        /\ \A i \in DOMAIN Tail(Lookup(r)) : Tail(Lookup(r))[i].pipe # Answer
    <3>1. CASE cache[r.ip] = NONE
      <4> DEFINE v == [r EXCEPT !.ok = FALSE]
                 w == ARPPacket("Request", Me, MyHW, r.ip)
      <4>1. v.ip = r.ip
        BY <2>6 DEF ARPRequestResponse
      <4> HIDE DEF v, w
      <4>2. Lookup(r) = <<Message(<<"arp", "ip">>, v), Message(<<"arp", "mux">>, w)>>
        BY <3>1 DEF Lookup, v, w
      <4>3. /\ Head(Lookup(r)) = Message(<<"arp", "ip">>, v)
            /\ Tail(Lookup(r)) = <<Message(<<"arp", "mux">>, w)>> /\ Lookup(r) # <<>>
        BY <4>2
      <4>4. \A i \in DOMAIN Tail(Lookup(r)) : Tail(Lookup(r))[i] = Message(<<"arp", "mux">>, w)
        <5>1. \A x : \A i \in DOMAIN <<x>> : <<x>>[i] = x
          OBVIOUS
        <5> QED
          BY <4>3, <5>1
      <4> QED
        BY <4>1, <4>3, <4>4 DEF Message, Answer
    <3>2. CASE cache[r.ip] # NONE
      <4> DEFINE v == [ip |-> r.ip, hw |-> cache[r.ip], ok |-> TRUE]
      <4>1. v.ip = r.ip
        OBVIOUS
      <4> HIDE DEF v
      <4>2. Lookup(r) = <<Message(<<"arp", "ip">>, v)>>
        BY <3>2 DEF Lookup, v
      <4>3. Head(Lookup(r)) = Message(<<"arp", "ip">>, v) /\ Tail(Lookup(r)) = <<>> /\ Lookup(r) # <<>>
        BY <4>2
      <4> QED
        BY <4>1, <4>3 DEF Message, Answer
    <3> QED
      BY <3>1, <3>2
  <2>10. Answering'
    BY <2>1, <2>3, <2>7, <2>9 DEF Answering
  <2> QED
    BY <2>1, <2>2, <2>8, <2>10 DEF OneQuestion
<1>5. CASE ArpRemote
  <2> DEFINE a == Received("arp", "mux")
             reply == ARPPacket("Reply", Me, MyHW, a.ip)
             out == IF a.opcode = "Request" /\ a.target = Me
                    THEN <<Message(<<"arp", "mux">>, reply)>> ELSE <<>>
  <2>1. Handles("arp", "mux", out) /\ held' = held
    BY <1>5 DEF ArpRemote
  <2> HIDE DEF a, reply
  <2>2. \A i \in DOMAIN out : out[i].pipe # Answer
    BY DEF Answer, Message
  <2> HIDE DEF out
  <2>3. /\ sends'["arp"] = out /\ sends'["ip"] = sends["ip"]
        /\ pipe'[Question] = pipe[Question] /\ pipe'[Answer] = pipe[Answer]
    BY <1>1, <2>1, HandlesEffect
  <2>4. NotAnswered'
    BY <2>2, <2>3 DEF NotAnswered
  <2> QED
    BY <1>3, <2>1, <2>3, <2>4
    DEF OneQuestion, NotAsked, NotUnderWay, NotBack, Asking, UnderWay, Back, SendPacket
<1> QED
  BY <1>4, <1>5

LEMMA IpKeepsQuestion ==
    ASSUME Travel, State, OneQuestion, IpIncoming \/ IpOutgoing \/ IpAnswered
    PROVE  OneQuestion' /\ (Receives("ip", "arp") => Received("ip", "arp").ip = held.dest)
<1>1. /\ Question \in Pipes /\ Answer \in Pipes /\ "ip" \in Modules /\ "arp" \in Modules
      /\ <<"mux", "ip">> \in Pipes /\ <<"ipmux", "ip">> \in Pipes
      /\ <<"mux", "ip">> \notin {Question, Answer} /\ <<"ipmux", "ip">> \notin {Question, Answer}
      /\ Question # Answer /\ Question[1] = "ip"
  BY PipesAre DEF Question, Answer, Modules
<1>2. sends["ip"] = <<>>
  BY DEF IpIncoming, IpOutgoing, IpAnswered, Receives
<1>3. NotAsked /\ ~ (held # NONE /\ Asking)
  BY <1>2 DEF NotAsked, Asking, SendPacket
<1>4. Receives("ip", "arp") => Received("ip", "arp").ip = held.dest
  <2> SUFFICES ASSUME Receives("ip", "arp") PROVE Received("ip", "arp").ip = held.dest
    OBVIOUS
  <2>1. Back
    BY <1>3 DEF OneQuestion, NotBack, Receives, Answer
  <2> QED
    BY <2>1 DEF Back, Received, Answer
<1>5. ASSUME NEW x \in {"mux", "ipmux"}, NEW out, held = NONE, Handles("ip", x, out),
             \/ held' = NONE /\ \A i \in DOMAIN out : out[i].pipe # Question
             \/ held' # NONE /\ out = SendPacket(held')
      PROVE  OneQuestion'
  <2>1. /\ sends'["ip"] = out /\ sends'["arp"] = sends["arp"]
        /\ pipe'[Question] = pipe[Question] /\ pipe'[Answer] = pipe[Answer]
    BY <1>1, <1>5, HandlesEffect
  <2>2. NotUnderWay' /\ NotAnswered' /\ NotBack'
    BY <1>5, <2>1 DEF OneQuestion, NotUnderWay, NotAnswered, NotBack
  <2>3. CASE held' = NONE /\ \A i \in DOMAIN out : out[i].pipe # Question
    BY <2>1, <2>2, <2>3 DEF OneQuestion, NotAsked
  <2>4. CASE held' # NONE /\ out = SendPacket(held')
    BY <2>1, <2>2, <2>4 DEF OneQuestion, Asking
  <2> QED
    BY <1>5, <2>3, <2>4
<1>6. CASE IpIncoming
  <2> DEFINE p == Received("ip", "mux").packet
  <2>1. held = NONE /\ Receives("ip", "mux")
    BY <1>6 DEF IpIncoming
  <2>2. CASE Handles("ip", "mux", <<>>) /\ held' = held
    BY <1>4, <1>5, <2>1, <2>2
  <2>3. CASE Handles("ip", "mux", <<Message(<<"ip", "ipmux">>, p)>>) /\ held' = held
    <3>1. \A i \in DOMAIN <<Message(<<"ip", "ipmux">>, p)>> :
             <<Message(<<"ip", "ipmux">>, p)>>[i].pipe # Question
      BY DEF Message, Question
    <3> QED
      BY <1>4, <1>5, <2>1, <2>3, <3>1
  <2>4. CASE held' = ICMPError(p.src) /\ Handles("ip", "mux", SendPacket(held'))
    <3>1. Received("ip", "mux") \in Fit[<<"mux", "ip">>]
      BY <1>1, <2>1, TakenFits
    <3>2. Received("ip", "mux") \in IPFrame
      BY <3>1, FittingAt DEF Fit
    <3>3. p.src \in IPs
      BY <3>2 DEF IPFrame, Packet
    <3>4. held' \in Packet
      BY <2>4, <3>3, ErrorPacket
    <3>5. held' # NONE
      BY <3>4, NetworkAssumption
    <3> QED
      BY <1>4, <1>5, <2>1, <2>4, <3>5
  <2> QED
    BY <1>6, <2>2, <2>3, <2>4 DEF IpIncoming
<1>7. CASE IpOutgoing
  <2> DEFINE p == Received("ip", "ipmux")
  <2>1. /\ held = NONE /\ Receives("ip", "ipmux")
        /\ held' = p /\ Handles("ip", "ipmux", SendPacket(p))
    BY <1>7 DEF IpOutgoing, Hold
  <2>2. p \in Fit[<<"ipmux", "ip">>]
    BY <1>1, <2>1, TakenFits
  <2>3. p \in Packet
    BY <2>2, FittingAt DEF Fit
  <2>4. p # NONE
    BY <2>3, NetworkAssumption
  <2> QED
    BY <1>4, <1>5, <2>1, <2>4
<1>8. CASE IpAnswered
  <2> DEFINE r == Received("ip", "arp")
             out == SentOrDiscarded(r)
  <2>1. held # NONE /\ Receives("ip", "arp") /\ held' = NONE /\ Handles("ip", "arp", out)
    BY <1>8 DEF IpAnswered
  <2>2. Back /\ NotUnderWay /\ NotAnswered
    BY <1>3, <2>1 DEF OneQuestion, NotBack, Receives, Answer
  <2>3. \A i \in DOMAIN out : out[i].pipe # Question
    BY DEF SentOrDiscarded, Frame, Message, Question
  <2> HIDE DEF out
  <2>4. PICK b : pipe[Answer] = <<b>>
    BY <2>2 DEF Back
  <2>5. /\ sends'["ip"] = out /\ sends'["arp"] = sends["arp"]
        /\ pipe'[Question] = pipe[Question] /\ pipe'[Answer] = Tail(<<b>>)
    <3>1. /\ sends'["ip"] = out /\ pipe'[Answer] = Tail(pipe[Answer])
          /\ \A k \in Modules : k # "ip" => sends'[k] = sends[k]
          /\ \A q \in Pipes : q # Answer => pipe'[q] = pipe[q]
      BY <1>1, <2>1, HandlesEffect DEF Answer
    <3> QED
      BY <1>1, <2>4, <3>1
  <2>6. NotAsked' /\ NotUnderWay' /\ NotAnswered' /\ NotBack'
    BY <2>2, <2>3, <2>5 DEF NotAsked, NotUnderWay, NotAnswered, NotBack
  <2> QED
    BY <1>4, <2>1, <2>6 DEF OneQuestion
<1> QED
  BY <1>6, <1>7, <1>8

\* The other modules, the transport and the network.
LEMMA RestKeepsQuestion ==
    ASSUME Travel, OneQuestion,
           \/ MuxIncoming \/ MuxOutgoing \/ IpMuxUp \/ IpMuxDown
           \/ IcmpIncoming \/ IcmpStatus \/ SockIcmp \/ TcpReceive
           \/ DriverOutgoing(TRUE) \/ DriverOutgoing(FALSE)
           \/ TcpSend \/ TcpResend \/ HostReplies \/ DriverIncoming
    PROVE  OneQuestion'
<1>1. /\ {"mux", "ipmux", "icmp", "sock", "tcp", "driver"} \subseteq Modules \ {"ip", "arp"}
      /\ <<"driver", "mux">> \in Pipes /\ <<"arp", "mux">> \in Pipes /\ <<"ip", "mux">> \in Pipes
      /\ <<"ip", "ipmux">> \in Pipes /\ <<"tcp", "ipmux">> \in Pipes /\ <<"icmp", "ipmux">> \in Pipes
      /\ <<"ipmux", "icmp">> \in Pipes /\ <<"sock", "icmp">> \in Pipes /\ <<"icmp", "sock">> \in Pipes
      /\ <<"ipmux", "tcp">> \in Pipes /\ <<"mux", "driver">> \in Pipes
  BY PipesAre DEF Modules
<1>2. CASE MuxIncoming \/ MuxOutgoing \/ IpMuxUp \/ IpMuxDown
  <2>1. PICK m, x, out :
            /\ m \in {"mux", "ipmux"} /\ x \in {"driver", "arp", "ip", "tcp", "icmp"}
            /\ <<x, m>> \in Pipes /\ Handles(m, x, out) /\ held' = held
    BY <1>1, <1>2 DEF MuxIncoming, MuxOutgoing, IpMuxUp, IpMuxDown
  <2> QED
    BY <1>1, <2>1, OthersUntouched
<1>3. CASE IcmpIncoming \/ IcmpStatus \/ SockIcmp
  <2>1. PICK m, x, out :
            /\ m \in {"icmp", "sock"} /\ x \in {"ipmux", "icmp", "sock"}
            /\ <<x, m>> \in Pipes /\ Handles(m, x, out) /\ held' = held
    BY <1>1, <1>3 DEF IcmpIncoming, IcmpStatus, SockIcmp
  <2> QED
    BY <1>1, <2>1, OthersUntouched
<1>4. CASE TcpReceive \/ DriverOutgoing(TRUE) \/ DriverOutgoing(FALSE)
  <2>1. PICK m, x, out :
            /\ m \in {"tcp", "driver"} /\ x \in {"ipmux", "mux"}
            /\ <<x, m>> \in Pipes /\ Handles(m, x, out) /\ held' = held
    BY <1>1, <1>4 DEF TcpReceive, DriverOutgoing
  <2> QED
    BY <1>1, <2>1, OthersUntouched
<1>5. CASE TcpSend \/ TcpResend \/ HostReplies \/ DriverIncoming
  <2>1. /\ \E m \in {"tcp", "driver"} : \E out : sends' = [sends EXCEPT ![m] = out]
        /\ UNCHANGED <<pipe, held>>
    BY <1>5 DEF TcpSend, TcpResend, HostReplies, DriverIncoming, FromNetwork
  <2>2. sends'["ip"] = sends["ip"] /\ sends'["arp"] = sends["arp"]
    BY <2>1
  <2> QED
    BY <2>1, <2>2, Untouched
<1> QED
  BY <1>2, <1>3, <1>4, <1>5

Inv == Travel /\ State /\ OneQuestion

LEMMA InitInv == Init => Inv
<1> SUFFICES ASSUME Init PROVE Inv
  OBVIOUS
<1>1. /\ pipe = [p \in Pipes |-> <<>>] /\ sends = [m \in Modules |-> <<>>] /\ held = NONE
      /\ cache = [ip \in IPs |-> IF ip = Me THEN MyHW ELSE NONE]
      /\ asked = {} /\ coming \in Arrivals /\ packets = 0 /\ heard = {<<Me, MyHW>>} /\ left = 0
  BY DEF Init
<1>2. Travel
  <2>1. \A p \in Pipes : <<>> \in Seq(Fit[p])
    OBVIOUS
  <2>2. \A m \in Modules : <<>> \in Seq(Sendings(m, Fit))
    OBVIOUS
  <2>3. Len(<<>>) <= Capacity
    BY NetworkAssumption
  <2> QED
    BY <1>1, <2>1, <2>2, <2>3 DEF Travel, Carries
<1>3. State
  <2>1. Me \in IPs /\ MyHW # NONE
    BY NetworkAssumption DEF IPs
  <2>2. coming \in Seq(IPFrame \cup ARPFrame)
    BY <1>1, NetworkAssumption
  <2>3. Len(Dests) \in Nat
    BY NetworkAssumption
  <2> QED
    BY <1>1, <2>1, <2>2, <2>3 DEF State
<1>4. OneQuestion
  <2>1. Question \in Pipes /\ Answer \in Pipes /\ "ip" \in Modules /\ "arp" \in Modules
    BY PipesAre DEF Question, Answer, Modules
  <2> QED
    BY <1>1, <2>1 DEF OneQuestion, NotAsked, NotUnderWay, NotAnswered, NotBack
<1> QED
  BY <1>2, <1>3, <1>4 DEF Inv

LEMMA StepInv == Inv /\ [Next]_vars => Inv'
<1> SUFFICES ASSUME Travel, State, OneQuestion, [Next]_vars
             PROVE  Travel' /\ State' /\ OneQuestion'
  BY DEF Inv
<1>1. CASE \E m \in Modules : Send(m)
  BY <1>1, SendFits, SendKeepsQuestion
<1>2. CASE MuxIncoming \/ MuxOutgoing
  BY <1>2, MuxFits, RestKeepsQuestion
<1>3. CASE ArpLocal \/ ArpRemote
  BY <1>3, ArpLocalFits, ArpRemoteFits, ArpKeepsQuestion
<1>4. CASE IpIncoming \/ IpOutgoing \/ IpAnswered
  <2>1. OneQuestion' /\ (Receives("ip", "arp") => Received("ip", "arp").ip = held.dest)
    BY <1>4, IpKeepsQuestion
  <2> QED
    BY <1>4, <2>1, IpIncomingFits, IpOutgoingFits, IpAnsweredFits
<1>5. CASE IpMuxUp \/ IpMuxDown
  BY <1>5, IpMuxFits, RestKeepsQuestion
<1>6. CASE IcmpIncoming \/ IcmpStatus \/ SockIcmp
  BY <1>6, IcmpFits, RestKeepsQuestion
<1>7. CASE TcpSend \/ TcpResend \/ TcpReceive
  BY <1>7, TcpFits, RestKeepsQuestion
<1>8. CASE DriverOutgoing(TRUE) \/ DriverOutgoing(FALSE)
  BY <1>8, DriverFits, RestKeepsQuestion
<1>9. CASE HostReplies \/ DriverIncoming
  BY <1>9, NetworkFits, RestKeepsQuestion
<1>10. CASE UNCHANGED vars
  <2>1. Rest /\ pipe' = pipe /\ sends' = sends
    BY <1>10 DEF vars, Rest
  <2>2. Travel'
    BY <2>1 DEF Travel, Fit, Rest
  <2>3. State'
    BY <2>1, Unmoved
  <2>4. OneQuestion'
    BY <2>1, Untouched DEF Rest
  <2> QED
    BY <2>2, <2>3, <2>4
<1> QED
  BY <1>1, <1>2, <1>3, <1>4, <1>5, <1>6, <1>7, <1>8, <1>9, <1>10 DEF Next, ModuleStep

THEOREM Invariance == Spec => []Inv
  BY InitInv, StepInv, PTL DEF Spec

\* The types: every module sends on its own pipes what the reader of the pipe
\* understands, and a packet that has got out is one that a transport has sent.
THEOREM TypeCorrect == Spec => []TypeOK
<1>1. Inv => TypeOK
  <2> SUFFICES ASSUME Travel, State PROVE TypeOK
    BY DEF Inv
  <2>1. \A p \in Pipes : Fit[p] \subseteq Messages[p]
    BY DEF Fit, Fitting
  <2>2. Carries(pipe, sends, Messages)
    BY <2>1, Widened DEF Travel
  <2>3. \A m \in Modules : \A i \in DOMAIN sends[m] : sends[m][i] \in Sendings(m, Messages)
    <3> SUFFICES ASSUME NEW m \in Modules, NEW i \in DOMAIN sends[m]
                 PROVE  sends[m][i] \in Sendings(m, Messages)
      OBVIOUS
    <3> DEFINE S == Sendings(m, Messages)
    <3>1. sends[m] \in Seq(S)
      BY <2>2 DEF Carries
    <3> HIDE DEF S
    <3>2. sends[m][i] \in S
      BY <3>1
    <3> QED
      BY <3>2 DEF S
  <2>4. \A m \in Modules : \A i \in DOMAIN sends[m] :
           sends[m][i].pipe \in Pipes /\ sends[m][i].pipe[1] = m
           /\ sends[m][i].msg \in Messages[sends[m][i].pipe]
    BY <2>3, SendingFields
  <2> QED
    BY <2>2, <2>4 DEF TypeOK, State, Carries
<1> QED
  BY <1>1, Invariance, PTL

\* ip_module never takes the answer of ARP to one question for the answer to
\* another, however many hosts there are and whatever addresses they change to.
THEOREM RightAddress == Spec => []AddressesMatch
<1>1. Inv => AddressesMatch
  <2> SUFFICES ASSUME Travel, State, NEW f \in Frames PROVE Addressed(f, heard)
    BY DEF Inv, AddressesMatch, Addressed
  <2>1. f.type = "PROTO_IP"
    BY DEF Frames
  <2>2. <<"ip", "mux">> \in Pipes /\ <<"mux", "driver">> \in Pipes /\ "ip" \in Modules /\ "mux" \in Modules
    BY PipesAre DEF Modules
  <2>3. \A q \in Outgoing : \A v \in Fit[q] : v.type = "PROTO_IP" => Addressed(v, heard)
    BY FittingAt DEF Fit, Outgoing
  <2>4. CASE \E q \in Outgoing : \E i \in DOMAIN pipe[q] : f = pipe[q][i]
    <3>1. PICK q \in Outgoing : \E i \in DOMAIN pipe[q] : f = pipe[q][i]
      BY <2>4
    <3>2. PICK i \in DOMAIN pipe[q] : f = pipe[q][i]
      BY <3>1
    <3> DEFINE S == Fit[q]
    <3>3. pipe[q] \in Seq(S)
      BY <2>2 DEF Travel, Carries, Outgoing
    <3> HIDE DEF S
    <3>4. f \in S
      BY <3>2, <3>3
    <3> QED
      BY <2>1, <2>3, <3>4 DEF S
  <2>5. CASE \E m \in {"ip", "mux"} : \E i \in DOMAIN sends[m] :
                sends[m][i].pipe \in Outgoing /\ f = sends[m][i].msg
    <3>1. PICK m \in {"ip", "mux"} : \E i \in DOMAIN sends[m] :
             sends[m][i].pipe \in Outgoing /\ f = sends[m][i].msg
      BY <2>5
    <3>2. PICK i \in DOMAIN sends[m] : sends[m][i].pipe \in Outgoing /\ f = sends[m][i].msg
      BY <3>1
    <3> DEFINE S == Sendings(m, Fit)
    <3>3. sends[m] \in Seq(S)
      BY <2>2 DEF Travel, Carries
    <3> HIDE DEF S
    <3>4. sends[m][i] \in S
      BY <3>3
    <3>5. sends[m][i].msg \in Fit[sends[m][i].pipe]
      BY <3>4, SendingFields DEF S
    <3> QED
      BY <2>1, <2>3, <3>2, <3>5
  <2>6. f \in InPipes \/ \E s \in InSends : s.pipe \in Outgoing /\ f = s.msg
    BY DEF Frames
  <2> QED
    BY <2>4, <2>5, <2>6 DEF InPipes, InSends
<1> QED
  BY <1>1, Invariance, PTL

-----------------------------------------------------------------------------
(***************************************************************************)
(* What the modules can block on.                                          *)
(***************************************************************************)

Blocked(m, n) ==
    /\ sends[m] # <<>> /\ Head(sends[m]).pipe = <<m, n>>
    /\ Len(pipe[<<m, n>>]) = Capacity

LEMMA BlockedOn ==
    ASSUME Travel, NEW m \in Modules, ~ Runs(m), sends[m] # <<>>
    PROVE  \E n \in Modules : <<m, n>> \in Pipes /\ Blocked(m, n)
<1> DEFINE p == Head(sends[m]).pipe
           S == Sendings(m, Fit)
<1>1. sends[m] \in Seq(S)
  BY DEF Travel, Carries
<1>2. Head(sends[m]) \in S
  <2> HIDE DEF S
  <2> QED
    BY <1>1
<1>3. p \in Pipes /\ p[1] = m
  BY <1>2, SendingFields
<1>4. p = <<m, p[2]>> /\ p[2] \in Modules
  BY <1>3, PipeEnds
<1>5. Len(pipe[p]) <= Capacity /\ Len(pipe[p]) \in Nat
  BY <1>3 DEF Travel, Carries
<1>6. ~ (Len(pipe[p]) < Capacity)
  BY DEF Runs
<1>7. Len(pipe[p]) = Capacity
  BY <1>5, <1>6, NetworkAssumption
<1> QED
  BY <1>3, <1>4, <1>7 DEF Blocked

\* A question and an answer always find room.
LEMMA QuestionsNeverBlock ==
    ASSUME Travel, OneQuestion
    PROVE  ~ Blocked("ip", "arp") /\ ~ Blocked("arp", "ip")
<1>1. Capacity # 0 /\ Len(<<>>) = 0
  BY NetworkAssumption
<1>2. "ip" \in Modules /\ "arp" \in Modules
  BY DEF Modules
<1>3. ASSUME NEW m \in Modules, sends[m] # <<>>
      PROVE  1 \in DOMAIN sends[m] /\ Head(sends[m]) = sends[m][1]
  <2> DEFINE S == Sendings(m, Fit)
  <2>1. sends[m] \in Seq(S)
    BY DEF Travel, Carries
  <2> HIDE DEF S
  <2>2. Len(sends[m]) \in Nat /\ Len(sends[m]) > 0 /\ DOMAIN sends[m] = 1..Len(sends[m])
        /\ Head(sends[m]) = sends[m][1]
    BY <1>3, <2>1, SequenceFacts
  <2> QED
    BY <2>2
<1>4. Blocked("ip", "arp") => ~ NotAsked /\ ~ NotUnderWay
  BY <1>1, <1>2, <1>3 DEF Blocked, NotAsked, NotUnderWay, Question
<1>5. Blocked("arp", "ip") => ~ NotAnswered /\ ~ NotBack
  BY <1>1, <1>2, <1>3 DEF Blocked, NotAnswered, NotBack, Answer
<1> QED
  BY <1>4, <1>5 DEF OneQuestion

\* Whatever the modules exchange: they stand still only when two of them fill each
\* other's pipes, or ip_module waits for an ARP module that cannot send because
\* ethernet_mux is about to send to ip_module.
THEOREM FullPipesOnly == Spec => []OnlyFullPipesBlock
<1>1. Inv => OnlyFullPipesBlock
  <2> SUFFICES ASSUME Travel, OneQuestion, Standstill
               PROVE  WaitForEachOther \/ ArpWaitsForMux
    BY DEF Inv, OnlyFullPipesBlock
  <2>1. ASSUME NEW m \in Modules, NEW n \in Modules, <<m, n>> \in Pipes, Blocked(m, n), Blocked(n, m)
        PROVE  WaitForEachOther
    <3>1. <<m, n>> \in Connections \/ <<n, m>> \in Connections
      BY <2>1, PipesAre DEF Connections
    <3>2. PICK c \in Connections : c = <<m, n>> \/ c = <<n, m>>
      BY <3>1
    <3>3. \A p \in {c, <<c[2], c[1]>>} : p = <<m, n>> \/ p = <<n, m>>
      BY <3>2
    <3>4. \A p \in {c, <<c[2], c[1]>>} :
             sends[p[1]] # <<>> /\ Head(sends[p[1]]).pipe = p /\ Len(pipe[p]) = Capacity
      BY <2>1, <3>3 DEF Blocked
    <3> QED
      BY <3>4 DEF WaitForEachOther
  <2>2. \A m \in Modules : sends[m] # <<>> => \E n \in Modules : <<m, n>> \in Pipes /\ Blocked(m, n)
    BY BlockedOn DEF Standstill
  <2>3. \A m, n \in Modules : Blocked(m, n) => pipe[<<m, n>>] # <<>>
    BY NetworkAssumption DEF Blocked
  <2>4. \A n \in Modules \ {"ip"} : \A p \in Pipes : p[2] = n /\ pipe[p] # <<>> => sends[n] # <<>>
    BY DEF Standstill, Runs
  <2>5. ASSUME NEW m \in Modules, NEW n \in Modules \ {"ip"}, <<m, n>> \in Pipes, Blocked(m, n)
        PROVE  sends[n] # <<>>
    BY <2>3, <2>4, <2>5
  <2>6. sends["ip"] = <<>> =>
           IF held = NONE THEN pipe[<<"mux", "ip">>] = <<>> /\ pipe[<<"ipmux", "ip">>] = <<>>
           ELSE NotBack
    BY DEF Standstill, Runs, Modules, NotBack, Answer
  <2>7. ~ Blocked("ip", "arp") /\ ~ Blocked("arp", "ip")
    BY QuestionsNeverBlock
  <2>8. /\ sends["driver"] # <<>> => Blocked("driver", "mux")
        /\ sends["mux"] # <<>> => Blocked("mux", "driver") \/ Blocked("mux", "arp") \/ Blocked("mux", "ip")
        /\ sends["arp"] # <<>> => Blocked("arp", "mux")
        /\ sends["ip"] # <<>> => Blocked("ip", "mux") \/ Blocked("ip", "ipmux")
        /\ sends["ipmux"] # <<>> =>
              Blocked("ipmux", "ip") \/ Blocked("ipmux", "icmp") \/ Blocked("ipmux", "tcp")
        /\ sends["icmp"] # <<>> => Blocked("icmp", "ipmux") \/ Blocked("icmp", "sock")
        /\ sends["tcp"] # <<>> => Blocked("tcp", "ipmux")
        /\ sends["sock"] # <<>> => Blocked("sock", "icmp")
    BY <2>2, <2>7, PipesAre DEF Modules
  <2>9. CASE held # NONE /\ sends["ip"] = <<>>
    <3>1. ~ Asking /\ NotBack
      BY <2>6, <2>9 DEF Asking, SendPacket
    <3>2. CASE UnderWay
      <4>1. sends["arp"] # <<>>
        <5>1. pipe[<<"ip", "arp">>] # <<>>
          BY <3>2 DEF UnderWay, Question
        <5> QED
          BY <2>4, <5>1, PipesAre DEF Modules
      <4> QED
        BY <4>1, <2>1, <2>5, <2>8, <2>9, PipesAre DEF ArpWaitsForMux, Blocked, Modules
    <3>3. ~ Answering
      BY <2>7, <2>8 DEF Answering, Answer, Blocked
    <3>4. ~ Back
      BY <3>1 DEF Back, NotBack
    <3> QED
      BY <2>9, <3>1, <3>2, <3>3, <3>4 DEF OneQuestion
  <2>10. CASE held = NONE \/ sends["ip"] # <<>>
    <3>1. Blocked("mux", "ip") \/ Blocked("ipmux", "ip") => sends["ip"] # <<>>
      BY <2>3, <2>6, <2>10 DEF Modules
    <3>2. \E m \in Modules : sends[m] # <<>>
      BY <2>10 DEF Standstill, Modules
    <3>3. sends["driver"] # <<>> \/ sends["arp"] # <<>> => sends["mux"] # <<>>
      BY <2>5, <2>8, PipesAre DEF Modules
    <3>4. sends["tcp"] # <<>> => sends["ipmux"] # <<>>
      BY <2>5, <2>8, PipesAre DEF Modules
    <3>5. sends["sock"] # <<>> => sends["icmp"] # <<>>
      BY <2>5, <2>8, PipesAre DEF Modules
    <3>6. sends["icmp"] # <<>> => sends["ipmux"] # <<>> \/ WaitForEachOther
      BY <2>1, <2>5, <2>8, PipesAre DEF Modules
    <3>7. Blocked("mux", "driver") \/ Blocked("mux", "arp") => WaitForEachOther
      BY <2>1, <2>5, <2>8, PipesAre DEF Modules
    <3>8. Blocked("ipmux", "tcp") => WaitForEachOther
      BY <2>1, <2>5, <2>8, PipesAre DEF Modules
    <3>9. Blocked("ipmux", "icmp") =>
             WaitForEachOther \/ (sends["sock"] # <<>> /\ Blocked("icmp", "sock"))
      BY <2>1, <2>5, <2>8, PipesAre DEF Modules
    <3>10. Blocked("icmp", "sock") => WaitForEachOther
      BY <2>1, <2>5, <2>8, PipesAre DEF Modules
    <3>11. Blocked("mux", "ip") /\ Blocked("ip", "mux") => WaitForEachOther
      BY <2>1, PipesAre DEF Modules
    <3>12. Blocked("ipmux", "ip") /\ Blocked("ip", "ipmux") => WaitForEachOther
      BY <2>1, PipesAre DEF Modules
    <3>13. /\ Blocked("ip", "mux") => sends["mux"] # <<>>
           /\ Blocked("ip", "ipmux") => sends["ipmux"] # <<>>
      BY <2>5, PipesAre DEF Modules
    <3> QED
      BY <2>8, <3>1, <3>2, <3>3, <3>4, <3>5, <3>6, <3>7, <3>8, <3>9, <3>10, <3>11, <3>12, <3>13 DEF Modules
  <2> QED
    BY <2>9, <2>10
<1> QED
  BY <1>1, Invariance, PTL
=============================================================================
