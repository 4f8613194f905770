----------------------------- MODULE NetworkLayer -----------------------------
(***************************************************************************)
(* The modules below the transports: ethernet_mux, arp_module, ip_module,  *)
(* ip_mux and icmp_module, between the device driver and TCP (UDP is       *)
(* served by ip_mux in the same way).                                      *)
(*                                                                         *)
(* Each is a process that takes one event at a time.  A handler computes   *)
(* what it sends; MinetSend blocks while the pipe is full, so what is left *)
(* of it is kept in sends, and the module takes no event meanwhile.        *)
(***************************************************************************)
EXTENDS Naturals, Sequences, FiniteSets

CONSTANTS
    Me,           \* MyIPAddr
    MyHW,         \* MyEthernetAddr
    Hosts,        \* the other addresses of the network
    BROADCAST,    \* 255.255.255.255
    HW,           \* Ethernet addresses of the other machines
    BLANK,        \* ETHERNET_BLANK_ADDR
    NONE,
    Capacity,     \* messages that a pipe holds
    Dests,        \* where the packets of the transports go, one after the other
    Arrivals      \* the sequences of frames that the network may deliver of its own accord

IPs == Hosts \cup {Me, BROADCAST}

Modules == {"driver", "mux", "arp", "ip", "ipmux", "icmp", "tcp", "sock"}

\* The connections of the modules, one pipe each way.
Connections ==
    {<<"mux", "driver">>, <<"arp", "mux">>, <<"ip", "mux">>, <<"ip", "arp">>, <<"ipmux", "ip">>,
     <<"icmp", "ipmux">>, <<"tcp", "ipmux">>, <<"sock", "icmp">>}

Pipes == Connections \cup {<<c[2], c[1]>> : c \in Connections}

ICMPTypes ==
    {"ECHO_REQUEST", "ADDRESSMASK_REQUEST", "TIMESTAMP_REQUEST",
     "REPLY",                 \* the replies to these three
     "ERROR", "UNKNOWN"}

\* What arrives in a packet besides its addresses: a fault that makes ip_module
\* discard it, the type of an ICMP message, the number of a packet of TCP.
Packet ==
    [proto : {"TCP", "ICMP", "OTHER"}, src : IPs, dest : IPs, icmp : ICMPTypes \cup {NONE},
     fault : {NONE, "CHECKSUM", "TTL", "FRAGMENT"}, seq : Nat]

IPFrame == [type : {"PROTO_IP"}, hw : HW \cup {MyHW, BLANK}, packet : Packet]

ARPFrame ==
    [type : {"PROTO_ARP"}, opcode : {"Request", "Reply"}, ip : Hosts \cup {Me},
     hw : HW \cup {MyHW}, target : IPs]

ARPRequestResponse == [ip : IPs, hw : HW \cup {MyHW, BLANK}, ok : BOOLEAN]

\* A SockRequestResponse of the ICMP module: its data is never looked at.
SRR == {"WRITE", "STATUS"}

ASSUME NetworkAssumption ==
    /\ Me \notin Hosts /\ BROADCAST \notin Hosts \cup {Me}
    /\ BLANK \notin HW \cup {MyHW} /\ MyHW \notin HW
    /\ NONE \notin Packet \cup HW \cup {MyHW}
    /\ Capacity \in Nat \ {0}
    /\ Dests \in Seq(Hosts \cup {BROADCAST})
    /\ Arrivals \subseteq Seq(IPFrame \cup ARPFrame)

VARIABLES
    pipe,
    sends,     \* sends[m]: what the handler of m has still to send
    held,      \* the packet for which ip_module waits for the answer of ARP
    cache,     \* ARPCache::data
    asked,     \* hosts that have got an ARP request and not yet answered it
    coming,    \* the frames that are still to arrive
    packets,   \* packets that the transports have sent
    heard,     \* history: the pairs of addresses that have come with ARP
    left       \* history: the number of their last packet on the network

vars == <<pipe, sends, held, cache, asked, coming, packets, heard, left>>
-----------------------------------------------------------------------------
Message(p, m) == [pipe |-> p, msg |-> m]

\* MinetSend: blocks while the pipe is full.
Send(m) ==
    /\ sends[m] # <<>>
    /\ LET s == Head(sends[m])
       IN  /\ Len(pipe[s.pipe]) < Capacity
           /\ pipe' = [pipe EXCEPT ![s.pipe] = Append(@, s.msg)]
    /\ sends' = [sends EXCEPT ![m] = Tail(@)]
    /\ UNCHANGED <<held, cache, asked, coming, packets, heard, left>>

\* MinetGetNextEvent and MinetReceive: m may take what x has sent to it.
Receives(m, x) == sends[m] = <<>> /\ pipe[<<x, m>>] # <<>>

Received(m, x) == Head(pipe[<<x, m>>])

\* The handler of m takes the message of x and is about to send out.
Handles(m, x, out) ==
    /\ pipe' = [pipe EXCEPT ![<<x, m>>] = Tail(@)]
    /\ sends' = [sends EXCEPT ![m] = out]
-----------------------------------------------------------------------------
\* ethernet_mux: frames go by their type.
MuxIncoming ==
    /\ Receives("mux", "driver")
    /\ LET f == Received("mux", "driver")
           to == IF f.type = "PROTO_ARP" THEN "arp" ELSE "ip"
       IN  Handles("mux", "driver", <<Message(<<"mux", to>>, f)>>)
    /\ UNCHANGED <<held, cache, asked, coming, packets, heard, left>>

MuxOutgoing ==
    /\ \E x \in {"arp", "ip"} :
        /\ Receives("mux", x)
        /\ Handles("mux", x, <<Message(<<"mux", "driver">>, Received("mux", x))>>)
    /\ UNCHANGED <<held, cache, asked, coming, packets, heard, left>>
-----------------------------------------------------------------------------
ARPPacket(opcode, ip, hw, target) ==
    [type |-> "PROTO_ARP", opcode |-> opcode, ip |-> ip, hw |-> hw, target |-> target]

\* Mutant: only the entry of a known address is overwritten.
Merged(ip, hw) == [cache EXCEPT ![ip] = IF @ = NONE THEN @ ELSE hw]

\* ARPCache::Update.  Entries are overwritten and never expire.
Update(ip, hw) == [cache EXCEPT ![ip] = hw]

\* Mutant: end() of the cache is not looked for.
LookupUnchecked(r) == <<Message(<<"arp", "ip">>, [ip |-> r.ip, hw |-> cache[r.ip], ok |-> TRUE])>>

\* Mutant: an unknown address is asked for and not answered.
LookupOrWait(r) ==
    IF cache[r.ip] = NONE
    THEN <<Message(<<"arp", "mux">>, ARPPacket("Request", Me, MyHW, r.ip))>>
    ELSE <<Message(<<"arp", "ip">>, [ip |-> r.ip, hw |-> cache[r.ip], ok |-> TRUE])>>

\* ARPCache::Lookup, its answer, and for an unknown address a request.
Lookup(r) ==
    IF cache[r.ip] = NONE
    THEN <<Message(<<"arp", "ip">>, [r EXCEPT !.ok = FALSE]),
           Message(<<"arp", "mux">>, ARPPacket("Request", Me, MyHW, r.ip))>>
    ELSE <<Message(<<"arp", "ip">>, [ip |-> r.ip, hw |-> cache[r.ip], ok |-> TRUE])>>

ArpLocal ==
    /\ Receives("arp", "ip")
    /\ Handles("arp", "ip", Lookup(Received("arp", "ip")))
    /\ UNCHANGED <<held, cache, asked, coming, packets, heard, left>>

\* An ARP packet from the network: its sender is learned, whoever it is for.
ArpRemote ==
    /\ Receives("arp", "mux")
    /\ LET a == Received("arp", "mux")
       IN  /\ cache' = Update(a.ip, a.hw)
           /\ heard' = heard \cup {<<a.ip, a.hw>>}
           /\ Handles("arp", "mux",
                IF a.opcode = "Request" /\ a.target = Me
                THEN <<Message(<<"arp", "mux">>, ARPPacket("Reply", Me, MyHW, a.ip))>>
                ELSE <<>>)
    /\ UNCHANGED <<held, asked, coming, packets, left>>
-----------------------------------------------------------------------------
\* An ICMPPacket about another packet.
ICMPError(dest) ==
    [proto |-> "ICMP", src |-> Me, dest |-> dest, icmp |-> "ERROR", fault |-> NONE, seq |-> 0]

\* SendPacket asks ARP ...
SendPacket(p) == <<Message(<<"ip", "arp">>, [ip |-> p.dest, hw |-> BLANK, ok |-> FALSE])>>

\* ip_module, from the network: a faulty packet is answered by an ICMP error.
IpIncoming ==
    /\ Receives("ip", "mux") /\ held = NONE
    /\ LET p == Received("ip", "mux").packet
       IN  \/ /\ p.dest \notin {Me, BROADCAST}
              /\ Handles("ip", "mux", <<>>)
              /\ UNCHANGED held
           \/ /\ p.dest \in {Me, BROADCAST} /\ p.fault = NONE
              /\ Handles("ip", "mux", <<Message(<<"ip", "ipmux">>, p)>>)
              /\ UNCHANGED held
           \/ /\ p.dest \in {Me, BROADCAST} /\ p.fault # NONE
              /\ held' = ICMPError(p.src)
              /\ Handles("ip", "mux", SendPacket(held'))
    /\ UNCHANGED <<cache, asked, coming, packets, heard, left>>

Frame(hw, p) == <<Message(<<"ip", "mux">>, [type |-> "PROTO_IP", hw |-> hw, packet |-> p])>>

\* Mutant: a broadcast does not wait for the answer of ARP.
BroadcastAtOnce(p) ==
    IF p.dest = BROADCAST
    THEN held' = NONE /\ Handles("ip", "ipmux", SendPacket(p) \o Frame(BLANK, p))
    ELSE held' = p /\ Handles("ip", "ipmux", SendPacket(p))

\* A packet of ip_mux is held until the answer comes.
Hold(p) == held' = p /\ Handles("ip", "ipmux", SendPacket(p))

IpOutgoing ==
    /\ Receives("ip", "ipmux") /\ held = NONE
    /\ Hold(Received("ip", "ipmux"))
    /\ UNCHANGED <<cache, asked, coming, packets, heard, left>>

\* ... and without an entry the packet is discarded.  A broadcast goes out all the
\* same, to the blank address that is in the answer.
SentOrDiscarded(r) ==
    IF r.hw # BLANK \/ held.dest = BROADCAST THEN Frame(r.hw, held) ELSE <<>>

IpAnswered ==
    /\ Receives("ip", "arp") /\ held # NONE
    /\ Handles("ip", "arp", SentOrDiscarded(Received("ip", "arp")))
    /\ held' = NONE
    /\ UNCHANGED <<cache, asked, coming, packets, heard, left>>
-----------------------------------------------------------------------------
\* ip_mux: packets of no known protocol, and no ipother_module.
MuxUp(p) ==
    IF p.proto = "TCP" THEN Message(<<"ipmux", "tcp">>, p)
    ELSE IF p.proto = "ICMP" THEN Message(<<"ipmux", "icmp">>, p)
    ELSE Message(<<"ipmux", "ip">>, ICMPError(p.src))

IpMuxUp ==
    /\ Receives("ipmux", "ip")
    /\ Handles("ipmux", "ip", <<MuxUp(Received("ipmux", "ip"))>>)
    /\ UNCHANGED <<held, cache, asked, coming, packets, heard, left>>

IpMuxDown ==
    /\ \E x \in {"tcp", "icmp"} :
        /\ Receives("ipmux", x)
        /\ Handles("ipmux", x, <<Message(<<"ipmux", "ip">>, Received("ipmux", x))>>)
    /\ UNCHANGED <<held, cache, asked, coming, packets, heard, left>>
-----------------------------------------------------------------------------
\* ICMPPacket::respond: the packet that is to be sent back.  The type of an unknown
\* message is not changed, nor are its addresses.
respond(p) ==
    IF p.icmp \in {"ECHO_REQUEST", "ADDRESSMASK_REQUEST", "TIMESTAMP_REQUEST"}
    THEN [p EXCEPT !.src = p.dest, !.dest = p.src, !.icmp = "REPLY"]
    ELSE p

\* requires_response is set for the requests except that of a timestamp, and cleared
\* for replies and errors; else it is whatever the memory holds.
requires_reply(p) ==
    CASE p.icmp \in {"ECHO_REQUEST", "ADDRESSMASK_REQUEST"} -> {TRUE}
      [] p.icmp \in {"REPLY", "ERROR"} -> {FALSE}
      [] p.icmp \in {"TIMESTAMP_REQUEST", "UNKNOWN"} -> BOOLEAN

IcmpIncoming ==
    /\ Receives("icmp", "ipmux")
    /\ LET p == Received("icmp", "ipmux")
       IN  \E reply \in requires_reply(p) :
            Handles("icmp", "ipmux",
                IF reply THEN <<Message(<<"icmp", "ipmux">>, respond(p))>>
                ELSE <<Message(<<"icmp", "sock">>, "WRITE")>>)
    /\ UNCHANGED <<held, cache, asked, coming, packets, heard, left>>

\* The answer of the sock module is ignored.
IcmpStatus ==
    /\ Receives("icmp", "sock")
    /\ Handles("icmp", "sock", <<>>)
    /\ UNCHANGED <<held, cache, asked, coming, packets, heard, left>>

\* ProcessICMPMessage: there are no ICMP sockets, the data is dropped.
SockIcmp ==
    /\ Receives("sock", "icmp")
    /\ Handles("sock", "icmp", <<Message(<<"sock", "icmp">>, "STATUS")>>)
    /\ UNCHANGED <<held, cache, asked, coming, packets, heard, left>>
-----------------------------------------------------------------------------
\* A packet of TCP; those of UDP go the same way.
TCPPacket(n) ==
    [proto |-> "TCP", src |-> Me, dest |-> Dests[n], icmp |-> NONE, fault |-> NONE, seq |-> n]

\* A handler of TCP hands a packet to the IP mux; TcpModule says when it does.
TcpSend ==
    /\ sends["tcp"] = <<>> /\ packets < Len(Dests)
    /\ packets' = packets + 1
    /\ sends' = [sends EXCEPT !["tcp"] = <<Message(<<"tcp", "ipmux">>, TCPPacket(packets'))>>]
    /\ UNCHANGED <<pipe, held, cache, asked, coming, heard, left>>

\* After some idle seconds TCP sends again what has not been acknowledged.
TcpResend ==
    /\ \A m \in Modules : sends[m] = <<>>
    /\ \A p \in Pipes : pipe[p] = <<>>
    /\ left < packets /\ Dests[packets] # BROADCAST
    /\ sends' = [sends EXCEPT !["tcp"] = <<Message(<<"tcp", "ipmux">>, TCPPacket(packets))>>]
    /\ UNCHANGED <<pipe, held, cache, asked, coming, packets, heard, left>>

TcpReceive ==
    /\ Receives("tcp", "ipmux")
    /\ Handles("tcp", "ipmux", <<>>)
    /\ UNCHANGED <<held, cache, asked, coming, packets, heard, left>>

\* The device driver writes a frame to the network, which may lose it.
DriverOutgoing(lost) ==
    /\ Receives("driver", "mux")
    /\ Handles("driver", "mux", <<>>)
    /\ LET f == Received("driver", "mux")
       IN  IF f.type = "PROTO_IP"
           THEN left' = (IF f.packet.proto = "TCP" THEN f.packet.seq ELSE left) /\ UNCHANGED asked
           ELSE /\ asked' = IF f.opcode = "Request" /\ ~ lost THEN asked \cup ({f.target} \cap Hosts) ELSE asked
                /\ UNCHANGED left
    /\ UNCHANGED <<held, cache, coming, packets, heard>>

FromNetwork(f) == sends' = [sends EXCEPT !["driver"] = <<Message(<<"driver", "mux">>, f)>>]

\* A host answers an ARP request, with the address it has at the time.
HostReplies ==
    /\ sends["driver"] = <<>>
    /\ \E h \in asked, hw \in HW :
        /\ asked' = asked \ {h}
        /\ FromNetwork(ARPPacket("Reply", h, hw, Me))
    /\ UNCHANGED <<pipe, held, cache, coming, packets, heard, left>>

DriverIncoming ==
    /\ sends["driver"] = <<>> /\ coming # <<>>
    /\ FromNetwork(Head(coming))
    /\ coming' = Tail(coming)
    /\ UNCHANGED <<pipe, held, cache, asked, packets, heard, left>>
-----------------------------------------------------------------------------
Init ==
    /\ pipe = [p \in Pipes |-> <<>>]
    /\ sends = [m \in Modules |-> <<>>]
    /\ held = NONE
    /\ cache = [ip \in IPs |-> IF ip = Me THEN MyHW ELSE NONE]
    /\ asked = {}
    /\ coming \in Arrivals /\ packets = 0
    /\ heard = {<<Me, MyHW>>}
    /\ left = 0

\* The steps that the modules take as soon as they can.
ModuleStep ==
    \/ \E m \in Modules : Send(m)
    \/ MuxIncoming \/ MuxOutgoing
    \/ ArpLocal \/ ArpRemote
    \/ IpIncoming \/ IpOutgoing \/ IpAnswered
    \/ IpMuxUp \/ IpMuxDown
    \/ IcmpIncoming \/ IcmpStatus \/ SockIcmp
    \/ TcpReceive \/ DriverOutgoing(TRUE)

Next == ModuleStep \/ TcpSend \/ TcpResend \/ DriverOutgoing(FALSE) \/ HostReplies \/ DriverIncoming

Spec == Init /\ [][Next]_vars

\* Some module that can run does (select and blocking writes); TCP resends from its
\* timer; of the ARP requests that go out again and again one is heard and answered.
FairSpec ==
    /\ Spec
    /\ WF_vars(ModuleStep)
    /\ WF_vars(TcpSend) /\ WF_vars(TcpResend)
    /\ SF_vars(DriverOutgoing(FALSE)) /\ WF_vars(HostReplies)
-----------------------------------------------------------------------------
Messages ==
    [p \in Pipes |->
        CASE p \in {<<"ip", "arp">>, <<"arp", "ip">>} -> ARPRequestResponse
          [] p \in {<<"icmp", "sock">>, <<"sock", "icmp">>} -> SRR
          [] p \in {<<"arp", "mux">>, <<"mux", "arp">>} -> ARPFrame
          [] p \in {<<"ip", "mux">>, <<"mux", "ip">>} -> IPFrame
          [] p \in {<<"driver", "mux">>, <<"mux", "driver">>} -> ARPFrame \cup IPFrame
          [] OTHER -> Packet]

\* The type invariant: every module sends on its own pipes, and on each pipe there
\* is only what its reader unserializes.
TypeOK ==
    /\ \A p \in Pipes : pipe[p] \in Seq(Messages[p]) /\ Len(pipe[p]) <= Capacity
    /\ \A m \in Modules : \A i \in DOMAIN sends[m] :
          LET s == sends[m][i]
          IN  s.pipe \in Pipes /\ s.pipe[1] = m /\ s.msg \in Messages[s.pipe]
    /\ held \in Packet \cup {NONE}
    /\ cache \in [IPs -> HW \cup {MyHW, NONE}] /\ cache[Me] # NONE
    /\ asked \subseteq Hosts
    /\ coming \in Seq(IPFrame \cup ARPFrame)
    /\ packets \in 0..Len(Dests) /\ left \in 0..packets
    /\ heard \subseteq IPs \X (HW \cup {MyHW})

\* The IP frames on their way to the network.
Outgoing == {<<"ip", "mux">>, <<"mux", "driver">>}

InPipes == UNION {{pipe[p][i] : i \in DOMAIN pipe[p]} : p \in Outgoing}

InSends == UNION {{sends[m][i] : i \in DOMAIN sends[m]} : m \in {"ip", "mux"}}

Frames ==
    {f \in InPipes \cup {s.msg : s \in {t \in InSends : t.pipe \in Outgoing}} : f.type = "PROTO_IP"}

\* An IP frame on its way out carries an address that ARP has heard for its
\* destination, or none if it is a broadcast: ip_module reads one answer for each
\* of its questions, so that no packet gets the answer of another
\* (ip_module.cc:39-54).
AddressesMatch == \A f \in Frames :
    \/ <<f.packet.dest, f.hw>> \in heard
    \/ f.packet.dest = BROADCAST /\ f.hw = BLANK

\* The modules that can take a step, and those that are not at rest.
Runs(m) ==
    IF sends[m] # <<>> THEN Len(pipe[Head(sends[m]).pipe]) < Capacity
    ELSE IF m = "ip" THEN
        \E x \in IF held = NONE THEN {"mux", "ipmux"} ELSE {"arp"} : pipe[<<x, m>>] # <<>>
    ELSE \E p \in Pipes : p[2] = m /\ pipe[p] # <<>>

Standstill ==
    /\ \A m \in Modules : ~ Runs(m)
    /\ held # NONE \/ \E m \in Modules : sends[m] # <<>>

\* Two modules that wait for each other, each in the middle of a send, with both
\* pipes between them full; or ip_module waits for the answer of an ARP module that
\* waits for ethernet_mux.
WaitForEachOther ==
    \E c \in Connections : \A p \in {c, <<c[2], c[1]>>} :
        sends[p[1]] # <<>> /\ Head(sends[p[1]]).pipe = p /\ Len(pipe[p]) = Capacity

ArpWaitsForMux ==
    /\ held # NONE /\ sends["ip"] = <<>>
    /\ sends["arp"] # <<>> /\ Head(sends["arp"]).pipe = <<"arp", "mux">>
    /\ sends["mux"] # <<>> /\ Head(sends["mux"]).pipe = <<"mux", "ip">>

\* The modules stand still only behind full pipes: the question of ip_module to the
\* ARP module, asked with a packet in hand, is always answered (ip_module.cc:39-40,
\* arp_module.cc:66-86).
OnlyFullPipesBlock == Standstill => WaitForEachOther \/ ArpWaitsForMux

\* A packet that is sent again and again gets out although ip_module discards it as
\* long as ARP has no entry, unless the modules block each other for good.
RetriesGetOut == <>(left = Len(Dests) \/ Standstill)
=============================================================================
