-------------------------------- MODULE Startup --------------------------------
(***************************************************************************)
(* How the processes of the Minet stack find each other and how they end.  *)
(*                                                                         *)
(* A connection is a pair of FIFOs.  open() of a FIFO blocks until the     *)
(* other end is opened too, and each module opens its FIFOs one after the  *)
(* other, so the modules may wait for each other in a circle.  When one of *)
(* them dies, those that share a FIFO with it read an end of file or get a *)
(* SIGPIPE and die as well.                                                *)
(***************************************************************************)
EXTENDS Naturals, Sequences

CONSTANTS
    Modules,     \* the processes that are launched
    Config,      \* MINET_MODULES
    Monitored    \* MINET_MONITOR

\* The modules of Minet; the application is the one that calls itself "socklib".
AllModules ==
    {"monitor", "driver", "mux", "arp", "ip", "other", "ipmux", "icmp", "udp", "tcp", "ipother",
     "sock", "socklib"}

VARIABLES
    state,     \* "opening", "running", "left" (after minet_deinit) or "dead"
    opened     \* how many FIFOs of its program a module has opened

vars == <<state, opened>>
-----------------------------------------------------------------------------
\* MinetIsModuleInConfig looks for the name anywhere in the list, and "other_module"
\* is a part of "ipother_module".
Named(m, list) == m \in list \/ (m = "other" /\ "ipother" \in list)

InConfig(m) == Named(m, Config)

IsMonitored(m) == Named(m, Monitored)

\* What is configured is launched, and so is the monitor if there is one to watch.
ASSUME StartupAssumption ==
    /\ Modules \subseteq AllModules
    /\ \A m \in AllModules : m \in Modules <=> InConfig(m)
    /\ \A m \in AllModules : IsMonitored(m) => {m, "monitor"} \subseteq Modules /\ m # "monitor"

\* A FIFO is <<its writer, its reader>>.  MinetConnect opens from, then to.
Connect(m, p) == IF InConfig(p) THEN <<<<p, m>>, <<m, p>>>> ELSE <<>>

\* Mutant: MinetAccept opens in the same order as MinetConnect.
AcceptFromFirst(m, p) == IF InConfig(p) THEN <<<<p, m>>, <<m, p>>>> ELSE <<>>

\* MinetAccept opens to, then from.
Accept(m, p) == IF InConfig(p) THEN <<<<m, p>>, <<p, m>>>> ELSE <<>>

\* MinetInit opens the FIFO to the monitor, which opens it in MinetAccept.
MinetInit(m) == IF IsMonitored(m) THEN <<<<m, "monitor">>>> ELSE <<>>

Watch(m) == IF IsMonitored(m) THEN <<<<m, "monitor">>>> ELSE <<>>

monitor ==
    Watch("driver") \o Watch("mux") \o Watch("ip") \o Watch("arp") \o Watch("other")
        \o Watch("ipmux") \o Watch("ipother") \o Watch("icmp") \o Watch("udp") \o Watch("tcp")
        \o Watch("sock") \o Watch("socklib")

device_driver == MinetInit("driver") \o Accept("driver", "mux")

ethernet_mux ==
    MinetInit("mux") \o Connect("mux", "driver")
        \o Accept("mux", "arp") \o Accept("mux", "ip") \o Accept("mux", "other")

arp_module == MinetInit("arp") \o Connect("arp", "mux") \o Accept("arp", "ip")

ip_module == MinetInit("ip") \o Connect("ip", "mux") \o Connect("ip", "arp") \o Accept("ip", "ipmux")

other_module == MinetInit("other") \o Connect("other", "mux")

ip_mux ==
    MinetInit("ipmux") \o Connect("ipmux", "ip") \o Accept("ipmux", "udp") \o Accept("ipmux", "tcp")
        \o Accept("ipmux", "icmp") \o Accept("ipmux", "ipother")

icmp_module == MinetInit("icmp") \o Connect("icmp", "ipmux") \o Accept("icmp", "sock")

\* Mutant: the connection from the sock module is accepted first.
AcceptSockFirst == MinetInit("udp") \o Accept("udp", "sock") \o Connect("udp", "ipmux")

udp_module == MinetInit("udp") \o Connect("udp", "ipmux") \o Accept("udp", "sock")

tcp_module == MinetInit("tcp") \o Connect("tcp", "ipmux") \o Accept("tcp", "sock")

ipother_module == MinetInit("ipother") \o Connect("ipother", "ipmux") \o Accept("ipother", "sock")

sock_module ==
    MinetInit("sock") \o Connect("sock", "tcp") \o Connect("sock", "udp") \o Connect("sock", "icmp")
        \o Connect("sock", "ipother") \o Accept("sock", "socklib")

minet_init == MinetInit("socklib") \o Connect("socklib", "sock")

Program == [m \in Modules |->
    CASE m = "monitor" -> monitor [] m = "driver" -> device_driver [] m = "mux" -> ethernet_mux
      [] m = "arp" -> arp_module [] m = "ip" -> ip_module [] m = "other" -> other_module
      [] m = "ipmux" -> ip_mux [] m = "icmp" -> icmp_module [] m = "udp" -> udp_module
      [] m = "tcp" -> tcp_module [] m = "ipother" -> ipother_module [] m = "sock" -> sock_module
      [] m = "socklib" -> minet_init]
-----------------------------------------------------------------------------
Peer(m, f) == IF f[1] = m THEN f[2] ELSE f[1]

\* The FIFO whose open() m is in.
Pending(m) == Program[m][opened[m] + 1]

\* p has opened f, or waits in the open().
Reached(p, f) ==
    \/ \E i \in 1..opened[p] : Program[p][i] = f
    \/ state[p] = "opening" /\ Pending(p) = f

\* Mutant: a module goes on before the last of its FIFOs is open.
DoneEarly(m, n) == n + 1 >= Len(Program[m])

Done(m, n) == n = Len(Program[m])

CanOpen(m) == state[m] = "opening" /\ Reached(Peer(m, Pending(m)), Pending(m))

\* The monitor is told of each connection; without it the module dies of SIGPIPE.
MonitorGone(m) == <<m, "monitor">> \in {Program[m][i] : i \in 1..opened[m]} /\ state["monitor"] = "dead"

Open(m) ==
    /\ CanOpen(m)
    /\ opened' = [opened EXCEPT ![m] = @ + 1]
    /\ state' = [state EXCEPT ![m] =
            IF MonitorGone(m) THEN "dead"
            ELSE IF Done(m, opened'[m]) THEN "running" ELSE "opening"]

\* minet_deinit closes the FIFO to the monitor and no other.
Deinit ==
    /\ state["socklib"] = "running"
    /\ state' = [state EXCEPT !["socklib"] = "left"]
    /\ UNCHANGED opened

Exit ==
    /\ state["socklib"] \in {"running", "left"}
    /\ state' = [state EXCEPT !["socklib"] = "dead"]
    /\ UNCHANGED opened

\* Mutant: only the end of the monitor is noticed.
ClosedMonitor(p, f) == p = "monitor" /\ state[p] = "dead"

\* p no longer has its end of f.
Closed(p, f) == state[p] = "dead" \/ (state[p] = "left" /\ f = <<p, "monitor">>)

\* Reading an end of file throws a SerializationException, which nothing catches, and
\* writing raises SIGPIPE.  (With the display xterm the module first waits for Enter.)
Fall(m) ==
    /\ state[m] = "running"
    /\ \E i \in DOMAIN Program[m] : Closed(Peer(m, Program[m][i]), Program[m][i])
    /\ state' = [state EXCEPT ![m] = "dead"]
    /\ UNCHANGED opened
-----------------------------------------------------------------------------
\* All modules have been launched; one that is still on its way to an open() is
\* like one that is in it.
Init ==
    /\ state = [m \in Modules |-> IF Done(m, 0) THEN "running" ELSE "opening"]
    /\ opened = [m \in Modules |-> 0]

Step == \E m \in Modules : Open(m) \/ Fall(m)

Next == Step \/ Deinit \/ Exit

Spec == Init /\ [][Next]_vars

\* Some open() that can return does; a module reads what it gets, and writes to the
\* monitor (TCP after five idle seconds at the latest).
FairSpec == Spec /\ WF_vars(Step)
-----------------------------------------------------------------------------
\* The type invariant, and what the states say of the FIFOs that are open.
TypeOK ==
    /\ state \in [Modules -> {"opening", "running", "left", "dead"}]
    /\ opened \in [Modules -> Nat]
    /\ \A m \in Modules :
          /\ opened[m] \in 0..Len(Program[m])
          /\ state[m] = "opening" => opened[m] < Len(Program[m])
          /\ state[m] \in {"running", "left"} => opened[m] = Len(Program[m])

Alive == \A m \in Modules : state[m] # "dead"

\* The modules never all wait for each other: as long as one of those that have been
\* launched is in an open(), some open() can return.
NoDeadlock == Alive /\ (\E m \in Modules : state[m] = "opening") => \E m \in Modules : CanOpen(m)

Up == \A m \in Modules : state[m] # "opening"

\* The stack comes up in whatever order its modules get to run, unless the
\* application is up, done and gone before the others are ready.
StartsUp ==
    \/ <>Up
    \/ <>(state["socklib"] \in {"left", "dead"})

\* minet_deinit "will shut down the Minet stack" (minet_socket.cc:154): it closes but
\* one FIFO, and one module after the other dies of the end of the one before.  So
\* does the whole stack when the application exits without it.
ShutsDown ==
    (Up /\ state["socklib"] \in {"left", "dead"}) ~> \A m \in Modules \ {"socklib"} : state[m] = "dead"
=============================================================================
