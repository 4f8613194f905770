------------------------------- MODULE MCNetwork -------------------------------
(* One other machine on the network, whose Ethernet address changes.          *)
EXTENDS NetworkLayer

Datagram(proto, icmp, dest, fault) ==
    [type |-> "PROTO_IP", hw |-> MyHW,
     packet |-> [proto |-> proto, src |-> "host", dest |-> dest, icmp |-> icmp, fault |-> fault, seq |-> 0]]

Segment == Datagram("TCP", NONE, Me, NONE)
Request == ARPPacket("Request", "host", "new", Me)

Others ==
    {Datagram("OTHER", NONE, Me, NONE), Datagram("TCP", NONE, "host", NONE),
     Datagram("ICMP", "ERROR", Me, "CHECKSUM"), Datagram("ICMP", "ECHO_REQUEST", BROADCAST, NONE),
     Datagram("ICMP", "UNKNOWN", Me, NONE)}

FromHost ==
    {<<Request, Request, Segment, Segment>>} \cup
    {<<Segment, f>> : f \in Others} \cup {<<f, Request>> : f \in Others}

Destinations == <<BROADCAST, "host">>
=============================================================================
