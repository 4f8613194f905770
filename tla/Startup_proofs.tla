----------------------------- MODULE Startup_proofs -----------------------------
(***************************************************************************)
(* The modules of Startup never wait for each other in a circle, whichever *)
(* of them are configured and monitored.  All open their FIFOs in one      *)
(* order, that of Rank, and each FIFO is opened by both of its ends: of    *)
(* the open()s that are pending, the one of lowest rank can return.        *)
(***************************************************************************)
EXTENDS Startup, WellFoundedInduction, SequenceTheorems, TLAPS

FIFOs == AllModules \X AllModules

\* The order in which the monitor opens its FIFOs.
Watched(m) ==
    CASE m = "driver" -> 1 [] m = "mux" -> 2 [] m = "ip" -> 3 [] m = "arp" -> 4 [] m = "other" -> 5
      [] m = "ipmux" -> 6 [] m = "ipother" -> 7 [] m = "icmp" -> 8 [] m = "udp" -> 9 [] m = "tcp" -> 10
      [] m = "sock" -> 11 [] m = "socklib" -> 12 [] OTHER -> 0

\* The connections, by acceptor and connector, from the device upwards.
Connection(a, c) ==
    CASE a = "driver" /\ c = "mux" -> 20 [] a = "mux" /\ c = "arp" -> 22 [] a = "mux" /\ c = "ip" -> 24
      [] a = "mux" /\ c = "other" -> 26 [] a = "arp" /\ c = "ip" -> 28 [] a = "ip" /\ c = "ipmux" -> 30
      [] a = "ipmux" /\ c = "udp" -> 32 [] a = "ipmux" /\ c = "tcp" -> 34
      [] a = "ipmux" /\ c = "icmp" -> 36 [] a = "ipmux" /\ c = "ipother" -> 38
      [] a = "tcp" /\ c = "sock" -> 40 [] a = "udp" /\ c = "sock" -> 42 [] a = "icmp" /\ c = "sock" -> 44
      [] a = "ipother" /\ c = "sock" -> 46 [] a = "sock" /\ c = "socklib" -> 48 [] OTHER -> 0

\* Of the two FIFOs of a connection, the one from the acceptor comes first.
Rank(f) ==
    IF f[2] = "monitor" THEN Watched(f[1])
    ELSE IF Connection(f[1], f[2]) > 0 THEN Connection(f[1], f[2])
    ELSE Connection(f[2], f[1]) + 1

\* s opens FIFOs of the ranks from a to b, in their order.
InOrder(s, a, b) ==
    /\ s \in Seq(FIFOs)
    /\ \A i \in DOMAIN s : Rank(s[i]) \in a..b
    /\ \A i, j \in DOMAIN s : i < j => Rank(s[i]) < Rank(s[j])

Opens(s, f) == \E i \in DOMAIN s : s[i] = f
-----------------------------------------------------------------------------
LEMMA ConcatInOrder ==
    ASSUME NEW s, NEW t, NEW a \in Nat, NEW b \in Nat, NEW c \in Nat, NEW d \in Nat,
           a <= b, b < c, c <= d, InOrder(s, a, b), InOrder(t, c, d)
    PROVE  InOrder(s \o t, a, d)
<1>1. s \in Seq(FIFOs) /\ t \in Seq(FIFOs) BY DEF InOrder
<1>2. /\ s \o t \in Seq(FIFOs)
      /\ Len(s \o t) = Len(s) + Len(t)
      /\ \A i \in 1..(Len(s) + Len(t)) : (s \o t)[i] = IF i <= Len(s) THEN s[i] ELSE t[i - Len(s)]
  BY <1>1, ConcatProperties
<1>3. DOMAIN s = 1..Len(s) /\ DOMAIN t = 1..Len(t) /\ DOMAIN (s \o t) = 1..(Len(s) + Len(t))
  BY <1>1, <1>2, LenProperties
<1>4. Len(s) \in Nat /\ Len(t) \in Nat BY <1>1, LenProperties
<1>5. \A i \in DOMAIN (s \o t) :
         \/ i \in DOMAIN s /\ (s \o t)[i] = s[i]
         \/ i > Len(s) /\ i - Len(s) \in DOMAIN t /\ (s \o t)[i] = t[i - Len(s)]
  BY <1>2, <1>3, <1>4
<1>6. \A i \in DOMAIN (s \o t) : Rank((s \o t)[i]) \in a..d
  <2> SUFFICES ASSUME NEW i \in DOMAIN (s \o t) PROVE Rank((s \o t)[i]) \in a..d OBVIOUS
  <2>1. CASE i \in DOMAIN s /\ (s \o t)[i] = s[i]
    <3>1. Rank(s[i]) \in a..b BY <2>1 DEF InOrder
    <3> QED BY <2>1, <3>1
  <2>2. CASE i - Len(s) \in DOMAIN t /\ (s \o t)[i] = t[i - Len(s)]
    <3>1. Rank(t[i - Len(s)]) \in c..d BY <2>2 DEF InOrder
    <3> QED BY <2>2, <3>1
  <2> QED BY <1>5, <2>1, <2>2
<1>7. ASSUME NEW i \in DOMAIN (s \o t), NEW j \in DOMAIN (s \o t), i < j
      PROVE  Rank((s \o t)[i]) < Rank((s \o t)[j])
  <2>1. CASE i \in DOMAIN s /\ (s \o t)[i] = s[i] /\ j \in DOMAIN s /\ (s \o t)[j] = s[j]
    <3>1. Rank(s[i]) < Rank(s[j]) BY <1>7, <2>1 DEF InOrder
    <3> QED BY <2>1, <3>1
  <2>2. CASE /\ i \in DOMAIN s /\ (s \o t)[i] = s[i]
             /\ j - Len(s) \in DOMAIN t /\ (s \o t)[j] = t[j - Len(s)]
    <3>1. Rank(s[i]) \in a..b /\ Rank(t[j - Len(s)]) \in c..d BY <2>2 DEF InOrder
    <3> QED BY <2>2, <3>1
  <2>3. CASE /\ i - Len(s) \in DOMAIN t /\ (s \o t)[i] = t[i - Len(s)]
             /\ j - Len(s) \in DOMAIN t /\ (s \o t)[j] = t[j - Len(s)]
    <3>1. i - Len(s) < j - Len(s) BY <1>3, <1>4, <1>7
    <3>2. Rank(t[i - Len(s)]) < Rank(t[j - Len(s)]) BY <2>3, <3>1 DEF InOrder
    <3> QED BY <2>3, <3>2
  <2>4. CASE i > Len(s) /\ j \in DOMAIN s BY <1>3, <1>4, <1>7, <2>4
  <2> QED BY <1>5, <2>1, <2>2, <2>3, <2>4
<1> QED BY <1>2, <1>6, <1>7 DEF InOrder

LEMMA ConcatOpens ==
    ASSUME NEW s \in Seq(FIFOs), NEW t \in Seq(FIFOs), NEW f
    PROVE  Opens(s \o t, f) <=> Opens(s, f) \/ Opens(t, f)
<1>1. /\ Len(s \o t) = Len(s) + Len(t)
      /\ s \o t \in Seq(FIFOs)
      /\ \A i \in 1..(Len(s) + Len(t)) : (s \o t)[i] = IF i <= Len(s) THEN s[i] ELSE t[i - Len(s)]
  BY ConcatProperties
<1>2. DOMAIN s = 1..Len(s) /\ DOMAIN t = 1..Len(t) /\ DOMAIN (s \o t) = 1..(Len(s) + Len(t))
  BY <1>1, LenProperties
<1>3. Len(s) \in Nat /\ Len(t) \in Nat BY LenProperties
<1>4. Opens(s \o t, f) => Opens(s, f) \/ Opens(t, f) BY <1>1, <1>2, <1>3 DEF Opens
<1>5. Opens(s, f) => Opens(s \o t, f) BY <1>1, <1>2, <1>3 DEF Opens
<1>6. ASSUME NEW i \in DOMAIN t, t[i] = f PROVE Opens(s \o t, f)
  <2>1. i + Len(s) \in DOMAIN (s \o t) /\ (s \o t)[i + Len(s)] = t[i] BY <1>1, <1>2, <1>3
  <2> QED BY <1>6, <2>1 DEF Opens
<1> QED BY <1>4, <1>5, <1>6 DEF Opens

\* The FIFOs of one connection.
LEMMA PairInOrder ==
    ASSUME NEW f \in FIFOs, NEW g \in FIFOs, NEW r \in Nat, Rank(f) = r, Rank(g) = r + 1
    PROVE  InOrder(<<f, g>>, r, r + 1) /\ \A h : Opens(<<f, g>>, h) <=> h \in {f, g}
<1>1. <<f, g>> \in Seq(FIFOs) /\ DOMAIN <<f, g>> = {1, 2} /\ <<f, g>>[1] = f /\ <<f, g>>[2] = g
  OBVIOUS
<1>2. InOrder(<<f, g>>, r, r + 1) BY <1>1 DEF InOrder
<1>3. \A h : Opens(<<f, g>>, h) <=> h \in {f, g} BY <1>1 DEF Opens
<1> QED BY <1>2, <1>3

LEMMA NothingInOrder ==
    ASSUME NEW a \in Nat, NEW b \in Nat
    PROVE  InOrder(<<>>, a, b) /\ \A h : ~ Opens(<<>>, h)
<1>1. << >> \in Seq(FIFOs) /\ DOMAIN << >> = {} OBVIOUS
<1> QED BY <1>1 DEF InOrder, Opens

\* The FIFO to the monitor.
LEMMA WatchInOrder ==
    ASSUME NEW f \in FIFOs, NEW r \in Nat, Rank(f) = r, NEW c \in BOOLEAN
    PROVE  /\ InOrder(IF c THEN <<f>> ELSE <<>>, r, r)
           /\ \A h : Opens(IF c THEN <<f>> ELSE <<>>, h) <=> c /\ h = f
<1>1. CASE c
  <2>1. <<f>> \in Seq(FIFOs) /\ DOMAIN <<f>> = {1} /\ <<f>>[1] = f OBVIOUS
  <2>2. InOrder(<<f>>, r, r) BY <2>1 DEF InOrder
  <2>3. \A h : Opens(<<f>>, h) <=> h = f BY <2>1 DEF Opens
  <2> QED BY <1>1, <2>2, <2>3
<1>2. CASE ~ c
  <2>1. << >> \in Seq(FIFOs) /\ DOMAIN << >> = {} OBVIOUS
  <2>2. InOrder(<< >>, r, r) BY <2>1 DEF InOrder
  <2>3. \A h : ~ Opens(<< >>, h) BY <2>1 DEF Opens
  <2> QED BY <1>2, <2>2, <2>3
<1> QED BY <1>1, <1>2
-----------------------------------------------------------------------------
\* s opens the FIFOs of F, in their order, and their ranks are from a to b.
Runs(s, a, b, F) == InOrder(s, a, b) /\ \A f : Opens(s, f) <=> f \in F

Configured(m, p) == {f \in {<<m, p>>, <<p, m>>} : InConfig(p)}

ToMonitor(m) == {f \in {<<m, "monitor">>} : IsMonitored(m)}

LEMMA ConcatRuns ==
    ASSUME NEW s, NEW t, NEW a \in Nat, NEW b \in Nat, NEW c \in Nat, NEW d \in Nat, NEW F, NEW G,
           a <= b, b < c, c <= d, Runs(s, a, b, F), Runs(t, c, d, G)
    PROVE  Runs(s \o t, a, d, F \cup G)
<1>1. InOrder(s \o t, a, d) BY ConcatInOrder DEF Runs
<1>2. s \in Seq(FIFOs) /\ t \in Seq(FIFOs) BY DEF Runs, InOrder
<1>3. \A f : Opens(s \o t, f) <=> Opens(s, f) \/ Opens(t, f) BY <1>2, ConcatOpens
<1> QED BY <1>1, <1>3 DEF Runs

LEMMA ConnectRuns ==
    ASSUME NEW m \in AllModules, NEW p \in AllModules, m # "monitor", p # "monitor",
           NEW r \in Nat, r > 0, Connection(p, m) = r, Connection(m, p) = 0
    PROVE  Runs(Connect(m, p), r, r + 1, Configured(m, p))
<1>1. <<p, m>> \in FIFOs /\ <<m, p>> \in FIFOs BY DEF FIFOs
<1>2. Rank(<<p, m>>) = r /\ Rank(<<m, p>>) = r + 1 BY DEF Rank
<1>3. CASE InConfig(p)
  <2>1. Connect(m, p) = <<<<p, m>>, <<m, p>>>> BY <1>3 DEF Connect
  <2>2. /\ InOrder(<<<<p, m>>, <<m, p>>>>, r, r + 1)
        /\ \A h : Opens(<<<<p, m>>, <<m, p>>>>, h) <=> h \in {<<p, m>>, <<m, p>>}
    BY <1>1, <1>2, PairInOrder
  <2> QED BY <1>3, <2>1, <2>2 DEF Runs, Configured
<1>4. CASE ~ InConfig(p)
  <2>1. Connect(m, p) = <<>> BY <1>4 DEF Connect
  <2> QED BY <1>4, <2>1, NothingInOrder DEF Runs, Configured
<1> QED BY <1>3, <1>4

LEMMA AcceptRuns ==
    ASSUME NEW m \in AllModules, NEW p \in AllModules, m # "monitor", p # "monitor",
           NEW r \in Nat, r > 0, Connection(m, p) = r, Connection(p, m) = 0
    PROVE  Runs(Accept(m, p), r, r + 1, Configured(m, p))
<1>1. <<p, m>> \in FIFOs /\ <<m, p>> \in FIFOs BY DEF FIFOs
<1>2. Rank(<<m, p>>) = r /\ Rank(<<p, m>>) = r + 1 BY DEF Rank
<1>3. CASE InConfig(p)
  <2>1. Accept(m, p) = <<<<m, p>>, <<p, m>>>> BY <1>3 DEF Accept
  <2>2. /\ InOrder(<<<<m, p>>, <<p, m>>>>, r, r + 1)
        /\ \A h : Opens(<<<<m, p>>, <<p, m>>>>, h) <=> h \in {<<m, p>>, <<p, m>>}
    BY <1>1, <1>2, PairInOrder
  <2> QED BY <1>3, <2>1, <2>2 DEF Runs, Configured
<1>4. CASE ~ InConfig(p)
  <2>1. Accept(m, p) = <<>> BY <1>4 DEF Accept
  <2> QED BY <1>4, <2>1, NothingInOrder DEF Runs, Configured
<1> QED BY <1>3, <1>4

LEMMA MonitorRuns ==
    ASSUME NEW m \in AllModules, NEW r \in Nat, Watched(m) = r
    PROVE  /\ Runs(MinetInit(m), r, r, ToMonitor(m))
           /\ Runs(Watch(m), r, r, ToMonitor(m))
<1>1. <<m, "monitor">> \in FIFOs BY DEF FIFOs, AllModules
<1>2. Rank(<<m, "monitor">>) = r BY DEF Rank
<1>3. IsMonitored(m) \in BOOLEAN BY DEF IsMonitored, Named
<1>4. MinetInit(m) = Watch(m) BY DEF MinetInit, Watch
<1>5. /\ InOrder(Watch(m), r, r)
      /\ \A h : Opens(Watch(m), h) <=> IsMonitored(m) /\ h = <<m, "monitor">>
  BY <1>1, <1>2, <1>3, WatchInOrder DEF Watch
<1> QED BY <1>4, <1>5 DEF Runs, ToMonitor
-----------------------------------------------------------------------------
LEMMA Runs_monitor ==
    Runs(monitor, 1, 12,
         ToMonitor("driver") \cup ToMonitor("mux") \cup ToMonitor("ip") \cup ToMonitor("arp")
         \cup ToMonitor("other") \cup ToMonitor("ipmux") \cup ToMonitor("ipother")
         \cup ToMonitor("icmp") \cup ToMonitor("udp") \cup ToMonitor("tcp")
         \cup ToMonitor("sock") \cup ToMonitor("socklib"))
<1>1. Runs(Watch("driver"), 1, 1, ToMonitor("driver")) BY MonitorRuns DEF Watched, AllModules
<1>2. Runs(Watch("mux"), 2, 2, ToMonitor("mux")) BY MonitorRuns DEF Watched, AllModules
<1>3. Runs(Watch("ip"), 3, 3, ToMonitor("ip")) BY MonitorRuns DEF Watched, AllModules
<1>4. Runs(Watch("arp"), 4, 4, ToMonitor("arp")) BY MonitorRuns DEF Watched, AllModules
<1>5. Runs(Watch("other"), 5, 5, ToMonitor("other")) BY MonitorRuns DEF Watched, AllModules
<1>6. Runs(Watch("ipmux"), 6, 6, ToMonitor("ipmux")) BY MonitorRuns DEF Watched, AllModules
<1>7. Runs(Watch("ipother"), 7, 7, ToMonitor("ipother")) BY MonitorRuns DEF Watched, AllModules
<1>8. Runs(Watch("icmp"), 8, 8, ToMonitor("icmp")) BY MonitorRuns DEF Watched, AllModules
<1>9. Runs(Watch("udp"), 9, 9, ToMonitor("udp")) BY MonitorRuns DEF Watched, AllModules
<1>10. Runs(Watch("tcp"), 10, 10, ToMonitor("tcp")) BY MonitorRuns DEF Watched, AllModules
<1>11. Runs(Watch("sock"), 11, 11, ToMonitor("sock")) BY MonitorRuns DEF Watched, AllModules
<1>12. Runs(Watch("socklib"), 12, 12, ToMonitor("socklib")) BY MonitorRuns DEF Watched, AllModules
<1> DEFINE s2 == Watch("driver") \o Watch("mux")
<1> DEFINE F2 == ToMonitor("driver") \cup ToMonitor("mux")
<1> DEFINE s3 == s2 \o Watch("ip")
<1> DEFINE F3 == F2 \cup ToMonitor("ip")
<1> DEFINE s4 == s3 \o Watch("arp")
<1> DEFINE F4 == F3 \cup ToMonitor("arp")
<1> DEFINE s5 == s4 \o Watch("other")
<1> DEFINE F5 == F4 \cup ToMonitor("other")
<1> DEFINE s6 == s5 \o Watch("ipmux")
<1> DEFINE F6 == F5 \cup ToMonitor("ipmux")
<1> DEFINE s7 == s6 \o Watch("ipother")
<1> DEFINE F7 == F6 \cup ToMonitor("ipother")
<1> DEFINE s8 == s7 \o Watch("icmp")
<1> DEFINE F8 == F7 \cup ToMonitor("icmp")
<1> DEFINE s9 == s8 \o Watch("udp")
<1> DEFINE F9 == F8 \cup ToMonitor("udp")
<1> DEFINE s10 == s9 \o Watch("tcp")
<1> DEFINE F10 == F9 \cup ToMonitor("tcp")
<1> DEFINE s11 == s10 \o Watch("sock")
<1> DEFINE F11 == F10 \cup ToMonitor("sock")
<1>13. Runs(s2, 1, 2, F2) BY <1>1, <1>2, ConcatRuns
<1>14. Runs(s3, 1, 3, F3) BY <1>13, <1>3, ConcatRuns
<1>15. Runs(s4, 1, 4, F4) BY <1>14, <1>4, ConcatRuns
<1>16. Runs(s5, 1, 5, F5) BY <1>15, <1>5, ConcatRuns
<1>17. Runs(s6, 1, 6, F6) BY <1>16, <1>6, ConcatRuns
<1>18. Runs(s7, 1, 7, F7) BY <1>17, <1>7, ConcatRuns
<1>19. Runs(s8, 1, 8, F8) BY <1>18, <1>8, ConcatRuns
<1>20. Runs(s9, 1, 9, F9) BY <1>19, <1>9, ConcatRuns
<1>21. Runs(s10, 1, 10, F10) BY <1>20, <1>10, ConcatRuns
<1>22. Runs(s11, 1, 11, F11) BY <1>21, <1>11, ConcatRuns
<1> QED BY <1>22, <1>12, ConcatRuns DEF monitor

LEMMA Runs_device_driver ==
    Runs(device_driver, 1, 21,
         ToMonitor("driver") \cup Configured("driver", "mux"))
<1>1. Runs(MinetInit("driver"), 1, 1, ToMonitor("driver")) BY MonitorRuns DEF Watched, AllModules
<1>2. Runs(Accept("driver", "mux"), 20, 21, Configured("driver", "mux")) BY AcceptRuns DEF Connection, AllModules
<1> QED BY <1>1, <1>2, ConcatRuns DEF device_driver

LEMMA Runs_ethernet_mux ==
    Runs(ethernet_mux, 2, 27,
         ToMonitor("mux") \cup Configured("mux", "driver") \cup Configured("mux", "arp")
         \cup Configured("mux", "ip") \cup Configured("mux", "other"))
<1>1. Runs(MinetInit("mux"), 2, 2, ToMonitor("mux")) BY MonitorRuns DEF Watched, AllModules
<1>2. Runs(Connect("mux", "driver"), 20, 21, Configured("mux", "driver")) BY ConnectRuns DEF Connection, AllModules
<1>3. Runs(Accept("mux", "arp"), 22, 23, Configured("mux", "arp")) BY AcceptRuns DEF Connection, AllModules
<1>4. Runs(Accept("mux", "ip"), 24, 25, Configured("mux", "ip")) BY AcceptRuns DEF Connection, AllModules
<1>5. Runs(Accept("mux", "other"), 26, 27, Configured("mux", "other")) BY AcceptRuns DEF Connection, AllModules
<1> DEFINE s2 == MinetInit("mux") \o Connect("mux", "driver")
<1> DEFINE F2 == ToMonitor("mux") \cup Configured("mux", "driver")
<1> DEFINE s3 == s2 \o Accept("mux", "arp")
<1> DEFINE F3 == F2 \cup Configured("mux", "arp")
<1> DEFINE s4 == s3 \o Accept("mux", "ip")
<1> DEFINE F4 == F3 \cup Configured("mux", "ip")
<1>6. Runs(s2, 2, 21, F2) BY <1>1, <1>2, ConcatRuns
<1>7. Runs(s3, 2, 23, F3) BY <1>6, <1>3, ConcatRuns
<1>8. Runs(s4, 2, 25, F4) BY <1>7, <1>4, ConcatRuns
<1> QED BY <1>8, <1>5, ConcatRuns DEF ethernet_mux

LEMMA Runs_arp_module ==
    Runs(arp_module, 4, 29,
         ToMonitor("arp") \cup Configured("arp", "mux") \cup Configured("arp", "ip"))
<1>1. Runs(MinetInit("arp"), 4, 4, ToMonitor("arp")) BY MonitorRuns DEF Watched, AllModules
<1>2. Runs(Connect("arp", "mux"), 22, 23, Configured("arp", "mux")) BY ConnectRuns DEF Connection, AllModules
<1>3. Runs(Accept("arp", "ip"), 28, 29, Configured("arp", "ip")) BY AcceptRuns DEF Connection, AllModules
<1> DEFINE s2 == MinetInit("arp") \o Connect("arp", "mux")
<1> DEFINE F2 == ToMonitor("arp") \cup Configured("arp", "mux")
<1>4. Runs(s2, 4, 23, F2) BY <1>1, <1>2, ConcatRuns
<1> QED BY <1>4, <1>3, ConcatRuns DEF arp_module

LEMMA Runs_ip_module ==
    Runs(ip_module, 3, 31,
         ToMonitor("ip") \cup Configured("ip", "mux") \cup Configured("ip", "arp")
         \cup Configured("ip", "ipmux"))
<1>1. Runs(MinetInit("ip"), 3, 3, ToMonitor("ip")) BY MonitorRuns DEF Watched, AllModules
<1>2. Runs(Connect("ip", "mux"), 24, 25, Configured("ip", "mux")) BY ConnectRuns DEF Connection, AllModules
<1>3. Runs(Connect("ip", "arp"), 28, 29, Configured("ip", "arp")) BY ConnectRuns DEF Connection, AllModules
<1>4. Runs(Accept("ip", "ipmux"), 30, 31, Configured("ip", "ipmux")) BY AcceptRuns DEF Connection, AllModules
<1> DEFINE s2 == MinetInit("ip") \o Connect("ip", "mux")
<1> DEFINE F2 == ToMonitor("ip") \cup Configured("ip", "mux")
<1> DEFINE s3 == s2 \o Connect("ip", "arp")
<1> DEFINE F3 == F2 \cup Configured("ip", "arp")
<1>5. Runs(s2, 3, 25, F2) BY <1>1, <1>2, ConcatRuns
<1>6. Runs(s3, 3, 29, F3) BY <1>5, <1>3, ConcatRuns
<1> QED BY <1>6, <1>4, ConcatRuns DEF ip_module

LEMMA Runs_other_module ==
    Runs(other_module, 5, 27,
         ToMonitor("other") \cup Configured("other", "mux"))
<1>1. Runs(MinetInit("other"), 5, 5, ToMonitor("other")) BY MonitorRuns DEF Watched, AllModules
<1>2. Runs(Connect("other", "mux"), 26, 27, Configured("other", "mux")) BY ConnectRuns DEF Connection, AllModules
<1> QED BY <1>1, <1>2, ConcatRuns DEF other_module

LEMMA Runs_ip_mux ==
    Runs(ip_mux, 6, 39,
         ToMonitor("ipmux") \cup Configured("ipmux", "ip") \cup Configured("ipmux", "udp")
         \cup Configured("ipmux", "tcp") \cup Configured("ipmux", "icmp")
         \cup Configured("ipmux", "ipother"))
<1>1. Runs(MinetInit("ipmux"), 6, 6, ToMonitor("ipmux")) BY MonitorRuns DEF Watched, AllModules
<1>2. Runs(Connect("ipmux", "ip"), 30, 31, Configured("ipmux", "ip")) BY ConnectRuns DEF Connection, AllModules
<1>3. Runs(Accept("ipmux", "udp"), 32, 33, Configured("ipmux", "udp")) BY AcceptRuns DEF Connection, AllModules
<1>4. Runs(Accept("ipmux", "tcp"), 34, 35, Configured("ipmux", "tcp")) BY AcceptRuns DEF Connection, AllModules
<1>5. Runs(Accept("ipmux", "icmp"), 36, 37, Configured("ipmux", "icmp")) BY AcceptRuns DEF Connection, AllModules
<1>6. Runs(Accept("ipmux", "ipother"), 38, 39, Configured("ipmux", "ipother")) BY AcceptRuns DEF Connection, AllModules
<1> DEFINE s2 == MinetInit("ipmux") \o Connect("ipmux", "ip")
<1> DEFINE F2 == ToMonitor("ipmux") \cup Configured("ipmux", "ip")
<1> DEFINE s3 == s2 \o Accept("ipmux", "udp")
<1> DEFINE F3 == F2 \cup Configured("ipmux", "udp")
<1> DEFINE s4 == s3 \o Accept("ipmux", "tcp")
<1> DEFINE F4 == F3 \cup Configured("ipmux", "tcp")
<1> DEFINE s5 == s4 \o Accept("ipmux", "icmp")
<1> DEFINE F5 == F4 \cup Configured("ipmux", "icmp")
<1>7. Runs(s2, 6, 31, F2) BY <1>1, <1>2, ConcatRuns
<1>8. Runs(s3, 6, 33, F3) BY <1>7, <1>3, ConcatRuns
<1>9. Runs(s4, 6, 35, F4) BY <1>8, <1>4, ConcatRuns
<1>10. Runs(s5, 6, 37, F5) BY <1>9, <1>5, ConcatRuns
<1> QED BY <1>10, <1>6, ConcatRuns DEF ip_mux

LEMMA Runs_icmp_module ==
    Runs(icmp_module, 8, 45,
         ToMonitor("icmp") \cup Configured("icmp", "ipmux") \cup Configured("icmp", "sock"))
<1>1. Runs(MinetInit("icmp"), 8, 8, ToMonitor("icmp")) BY MonitorRuns DEF Watched, AllModules
<1>2. Runs(Connect("icmp", "ipmux"), 36, 37, Configured("icmp", "ipmux")) BY ConnectRuns DEF Connection, AllModules
<1>3. Runs(Accept("icmp", "sock"), 44, 45, Configured("icmp", "sock")) BY AcceptRuns DEF Connection, AllModules
<1> DEFINE s2 == MinetInit("icmp") \o Connect("icmp", "ipmux")
<1> DEFINE F2 == ToMonitor("icmp") \cup Configured("icmp", "ipmux")
<1>4. Runs(s2, 8, 37, F2) BY <1>1, <1>2, ConcatRuns
<1> QED BY <1>4, <1>3, ConcatRuns DEF icmp_module

LEMMA Runs_udp_module ==
    Runs(udp_module, 9, 43,
         ToMonitor("udp") \cup Configured("udp", "ipmux") \cup Configured("udp", "sock"))
<1>1. Runs(MinetInit("udp"), 9, 9, ToMonitor("udp")) BY MonitorRuns DEF Watched, AllModules
<1>2. Runs(Connect("udp", "ipmux"), 32, 33, Configured("udp", "ipmux")) BY ConnectRuns DEF Connection, AllModules
<1>3. Runs(Accept("udp", "sock"), 42, 43, Configured("udp", "sock")) BY AcceptRuns DEF Connection, AllModules
<1> DEFINE s2 == MinetInit("udp") \o Connect("udp", "ipmux")
<1> DEFINE F2 == ToMonitor("udp") \cup Configured("udp", "ipmux")
<1>4. Runs(s2, 9, 33, F2) BY <1>1, <1>2, ConcatRuns
<1> QED BY <1>4, <1>3, ConcatRuns DEF udp_module

LEMMA Runs_tcp_module ==
    Runs(tcp_module, 10, 41,
         ToMonitor("tcp") \cup Configured("tcp", "ipmux") \cup Configured("tcp", "sock"))
<1>1. Runs(MinetInit("tcp"), 10, 10, ToMonitor("tcp")) BY MonitorRuns DEF Watched, AllModules
<1>2. Runs(Connect("tcp", "ipmux"), 34, 35, Configured("tcp", "ipmux")) BY ConnectRuns DEF Connection, AllModules
<1>3. Runs(Accept("tcp", "sock"), 40, 41, Configured("tcp", "sock")) BY AcceptRuns DEF Connection, AllModules
<1> DEFINE s2 == MinetInit("tcp") \o Connect("tcp", "ipmux")
<1> DEFINE F2 == ToMonitor("tcp") \cup Configured("tcp", "ipmux")
<1>4. Runs(s2, 10, 35, F2) BY <1>1, <1>2, ConcatRuns
<1> QED BY <1>4, <1>3, ConcatRuns DEF tcp_module

LEMMA Runs_ipother_module ==
    Runs(ipother_module, 7, 47,
         ToMonitor("ipother") \cup Configured("ipother", "ipmux")
         \cup Configured("ipother", "sock"))
<1>1. Runs(MinetInit("ipother"), 7, 7, ToMonitor("ipother")) BY MonitorRuns DEF Watched, AllModules
<1>2. Runs(Connect("ipother", "ipmux"), 38, 39, Configured("ipother", "ipmux")) BY ConnectRuns DEF Connection, AllModules
<1>3. Runs(Accept("ipother", "sock"), 46, 47, Configured("ipother", "sock")) BY AcceptRuns DEF Connection, AllModules
<1> DEFINE s2 == MinetInit("ipother") \o Connect("ipother", "ipmux")
<1> DEFINE F2 == ToMonitor("ipother") \cup Configured("ipother", "ipmux")
<1>4. Runs(s2, 7, 39, F2) BY <1>1, <1>2, ConcatRuns
<1> QED BY <1>4, <1>3, ConcatRuns DEF ipother_module

LEMMA Runs_sock_module ==
    Runs(sock_module, 11, 49,
         ToMonitor("sock") \cup Configured("sock", "tcp") \cup Configured("sock", "udp")
         \cup Configured("sock", "icmp") \cup Configured("sock", "ipother")
         \cup Configured("sock", "socklib"))
<1>1. Runs(MinetInit("sock"), 11, 11, ToMonitor("sock")) BY MonitorRuns DEF Watched, AllModules
<1>2. Runs(Connect("sock", "tcp"), 40, 41, Configured("sock", "tcp")) BY ConnectRuns DEF Connection, AllModules
<1>3. Runs(Connect("sock", "udp"), 42, 43, Configured("sock", "udp")) BY ConnectRuns DEF Connection, AllModules
<1>4. Runs(Connect("sock", "icmp"), 44, 45, Configured("sock", "icmp")) BY ConnectRuns DEF Connection, AllModules
<1>5. Runs(Connect("sock", "ipother"), 46, 47, Configured("sock", "ipother")) BY ConnectRuns DEF Connection, AllModules
<1>6. Runs(Accept("sock", "socklib"), 48, 49, Configured("sock", "socklib")) BY AcceptRuns DEF Connection, AllModules
<1> DEFINE s2 == MinetInit("sock") \o Connect("sock", "tcp")
<1> DEFINE F2 == ToMonitor("sock") \cup Configured("sock", "tcp")
<1> DEFINE s3 == s2 \o Connect("sock", "udp")
<1> DEFINE F3 == F2 \cup Configured("sock", "udp")
<1> DEFINE s4 == s3 \o Connect("sock", "icmp")
<1> DEFINE F4 == F3 \cup Configured("sock", "icmp")
<1> DEFINE s5 == s4 \o Connect("sock", "ipother")
<1> DEFINE F5 == F4 \cup Configured("sock", "ipother")
<1>7. Runs(s2, 11, 41, F2) BY <1>1, <1>2, ConcatRuns
<1>8. Runs(s3, 11, 43, F3) BY <1>7, <1>3, ConcatRuns
<1>9. Runs(s4, 11, 45, F4) BY <1>8, <1>4, ConcatRuns
<1>10. Runs(s5, 11, 47, F5) BY <1>9, <1>5, ConcatRuns
<1> QED BY <1>10, <1>6, ConcatRuns DEF sock_module

LEMMA Runs_minet_init ==
    Runs(minet_init, 12, 49,
         ToMonitor("socklib") \cup Configured("socklib", "sock"))
<1>1. Runs(MinetInit("socklib"), 12, 12, ToMonitor("socklib")) BY MonitorRuns DEF Watched, AllModules
<1>2. Runs(Connect("socklib", "sock"), 48, 49, Configured("socklib", "sock")) BY ConnectRuns DEF Connection, AllModules
<1> QED BY <1>1, <1>2, ConcatRuns DEF minet_init

-----------------------------------------------------------------------------
Linked(m, p) == Connection(m, p) > 0 \/ Connection(p, m) > 0

\* All FIFOs of m: those of its connections, and those to the monitor.
FIFOsOf(m) ==
    {f \in FIFOs :
        \/ \E p \in AllModules : Linked(m, p) /\ InConfig(p) /\ f \in {<<m, p>>, <<p, m>>}
        \/ m # "monitor" /\ IsMonitored(m) /\ f = <<m, "monitor">>
        \/ m = "monitor" /\ \E p \in AllModules \ {"monitor"} : IsMonitored(p) /\ f = <<p, "monitor">>}

LEMMA Programs ==
    ASSUME NEW m \in Modules
    PROVE  InOrder(Program[m], 1, 49) /\ \A f : Opens(Program[m], f) <=> f \in FIFOsOf(m)
<1>1. ASSUME NEW s, NEW a \in Nat, NEW b \in Nat, 1 <= a, b <= 49, InOrder(s, a, b) PROVE InOrder(s, 1, 49)
  <2>1. a..b \subseteq 1..49 BY <1>1
  <2>2. \A i \in DOMAIN s : Rank(s[i]) \in 1..49 BY <1>1, <2>1 DEF InOrder
  <2> QED BY <1>1, <2>2 DEF InOrder

<1>2. CASE m = "monitor"
  <2>1. Program[m] = monitor BY <1>2 DEF Program
  <2>2. FIFOsOf("monitor") =
           ToMonitor("driver") \cup ToMonitor("mux") \cup ToMonitor("ip") \cup ToMonitor("arp")
           \cup ToMonitor("other") \cup ToMonitor("ipmux") \cup ToMonitor("ipother")
           \cup ToMonitor("icmp") \cup ToMonitor("udp") \cup ToMonitor("tcp")
           \cup ToMonitor("sock") \cup ToMonitor("socklib")
    BY DEF FIFOsOf, Linked, Connection, AllModules, FIFOs, Configured, ToMonitor
  <2> QED BY <1>1, <1>2, <2>1, <2>2, Runs_monitor DEF Runs
<1>3. CASE m = "driver"
  <2>1. Program[m] = device_driver BY <1>3 DEF Program
  <2>2. FIFOsOf("driver") =
           ToMonitor("driver") \cup Configured("driver", "mux")
    BY DEF FIFOsOf, Linked, Connection, AllModules, FIFOs, Configured, ToMonitor
  <2> QED BY <1>1, <1>3, <2>1, <2>2, Runs_device_driver DEF Runs
<1>4. CASE m = "mux"
  <2>1. Program[m] = ethernet_mux BY <1>4 DEF Program
  <2>2. FIFOsOf("mux") =
           ToMonitor("mux") \cup Configured("mux", "driver") \cup Configured("mux", "arp")
           \cup Configured("mux", "ip") \cup Configured("mux", "other")
    BY DEF FIFOsOf, Linked, Connection, AllModules, FIFOs, Configured, ToMonitor
  <2> QED BY <1>1, <1>4, <2>1, <2>2, Runs_ethernet_mux DEF Runs
<1>5. CASE m = "arp"
  <2>1. Program[m] = arp_module BY <1>5 DEF Program
  <2>2. FIFOsOf("arp") =
           ToMonitor("arp") \cup Configured("arp", "mux") \cup Configured("arp", "ip")
    BY DEF FIFOsOf, Linked, Connection, AllModules, FIFOs, Configured, ToMonitor
  <2> QED BY <1>1, <1>5, <2>1, <2>2, Runs_arp_module DEF Runs
<1>6. CASE m = "ip"
  <2>1. Program[m] = ip_module BY <1>6 DEF Program
  <2>2. FIFOsOf("ip") =
           ToMonitor("ip") \cup Configured("ip", "mux") \cup Configured("ip", "arp")
           \cup Configured("ip", "ipmux")
    BY DEF FIFOsOf, Linked, Connection, AllModules, FIFOs, Configured, ToMonitor
  <2> QED BY <1>1, <1>6, <2>1, <2>2, Runs_ip_module DEF Runs
<1>7. CASE m = "other"
  <2>1. Program[m] = other_module BY <1>7 DEF Program
  <2>2. FIFOsOf("other") =
           ToMonitor("other") \cup Configured("other", "mux")
    BY DEF FIFOsOf, Linked, Connection, AllModules, FIFOs, Configured, ToMonitor
  <2> QED BY <1>1, <1>7, <2>1, <2>2, Runs_other_module DEF Runs
<1>8. CASE m = "ipmux"
  <2>1. Program[m] = ip_mux BY <1>8 DEF Program
  <2>2. FIFOsOf("ipmux") =
           ToMonitor("ipmux") \cup Configured("ipmux", "ip") \cup Configured("ipmux", "udp")
           \cup Configured("ipmux", "tcp") \cup Configured("ipmux", "icmp")
           \cup Configured("ipmux", "ipother")
    BY DEF FIFOsOf, Linked, Connection, AllModules, FIFOs, Configured, ToMonitor
  <2> QED BY <1>1, <1>8, <2>1, <2>2, Runs_ip_mux DEF Runs
<1>9. CASE m = "icmp"
  <2>1. Program[m] = icmp_module BY <1>9 DEF Program
  <2>2. FIFOsOf("icmp") =
           ToMonitor("icmp") \cup Configured("icmp", "ipmux") \cup Configured("icmp", "sock")
    BY DEF FIFOsOf, Linked, Connection, AllModules, FIFOs, Configured, ToMonitor
  <2> QED BY <1>1, <1>9, <2>1, <2>2, Runs_icmp_module DEF Runs
<1>10. CASE m = "udp"
  <2>1. Program[m] = udp_module BY <1>10 DEF Program
  <2>2. FIFOsOf("udp") =
           ToMonitor("udp") \cup Configured("udp", "ipmux") \cup Configured("udp", "sock")
    BY DEF FIFOsOf, Linked, Connection, AllModules, FIFOs, Configured, ToMonitor
  <2> QED BY <1>1, <1>10, <2>1, <2>2, Runs_udp_module DEF Runs
<1>11. CASE m = "tcp"
  <2>1. Program[m] = tcp_module BY <1>11 DEF Program
  <2>2. FIFOsOf("tcp") =
           ToMonitor("tcp") \cup Configured("tcp", "ipmux") \cup Configured("tcp", "sock")
    BY DEF FIFOsOf, Linked, Connection, AllModules, FIFOs, Configured, ToMonitor
  <2> QED BY <1>1, <1>11, <2>1, <2>2, Runs_tcp_module DEF Runs
<1>12. CASE m = "ipother"
  <2>1. Program[m] = ipother_module BY <1>12 DEF Program
  <2>2. FIFOsOf("ipother") =
           ToMonitor("ipother") \cup Configured("ipother", "ipmux")
           \cup Configured("ipother", "sock")
    BY DEF FIFOsOf, Linked, Connection, AllModules, FIFOs, Configured, ToMonitor
  <2> QED BY <1>1, <1>12, <2>1, <2>2, Runs_ipother_module DEF Runs
<1>13. CASE m = "sock"
  <2>1. Program[m] = sock_module BY <1>13 DEF Program
  <2>2. FIFOsOf("sock") =
           ToMonitor("sock") \cup Configured("sock", "tcp") \cup Configured("sock", "udp")
           \cup Configured("sock", "icmp") \cup Configured("sock", "ipother")
           \cup Configured("sock", "socklib")
    BY DEF FIFOsOf, Linked, Connection, AllModules, FIFOs, Configured, ToMonitor
  <2> QED BY <1>1, <1>13, <2>1, <2>2, Runs_sock_module DEF Runs
<1>14. CASE m = "socklib"
  <2>1. Program[m] = minet_init BY <1>14 DEF Program
  <2>2. FIFOsOf("socklib") =
           ToMonitor("socklib") \cup Configured("socklib", "sock")
    BY DEF FIFOsOf, Linked, Connection, AllModules, FIFOs, Configured, ToMonitor
  <2> QED BY <1>1, <1>14, <2>1, <2>2, Runs_minet_init DEF Runs
<1> QED BY <1>2, <1>3, <1>4, <1>5, <1>6, <1>7, <1>8, <1>9, <1>10, <1>11, <1>12, <1>13, <1>14, StartupAssumption DEF AllModules

\* Both ends of a FIFO are modules that open it.
LEMMA Matched ==
    ASSUME NEW m \in Modules, NEW f \in FIFOsOf(m)
    PROVE  Peer(m, f) \in Modules /\ f \in FIFOsOf(Peer(m, f))
<1>1. m \in AllModules /\ InConfig(m) BY StartupAssumption
<1>2. \A x \in AllModules : ~ Linked(x, x)
  BY DEF Linked, Connection, AllModules
<1>3. CASE \E p \in AllModules : Linked(m, p) /\ InConfig(p) /\ f \in {<<m, p>>, <<p, m>>}
  <2>1. PICK p \in AllModules : Linked(m, p) /\ InConfig(p) /\ f \in {<<m, p>>, <<p, m>>} BY <1>3
  <2>2. p # m BY <1>1, <1>2, <2>1
  <2>3. Peer(m, f) = p BY <2>1, <2>2 DEF Peer
  <2>4. p \in Modules BY <2>1, StartupAssumption
  <2>5. Linked(p, m) BY <2>1 DEF Linked
  <2>6. f \in FIFOs BY DEF FIFOsOf
  <2> QED BY <1>1, <2>1, <2>3, <2>4, <2>5, <2>6 DEF FIFOsOf
<1>4. CASE m # "monitor" /\ IsMonitored(m) /\ f = <<m, "monitor">>
  <2>1. Peer(m, f) = "monitor" BY <1>4 DEF Peer
  <2>2. "monitor" \in Modules BY <1>1, <1>4, StartupAssumption
  <2>3. f \in FIFOs BY DEF FIFOsOf
  <2> QED BY <1>1, <1>4, <2>1, <2>2, <2>3 DEF FIFOsOf
<1>5. CASE m = "monitor" /\ \E p \in AllModules \ {"monitor"} : IsMonitored(p) /\ f = <<p, "monitor">>
  <2>1. PICK p \in AllModules \ {"monitor"} : IsMonitored(p) /\ f = <<p, "monitor">> BY <1>5
  <2>2. Peer(m, f) = p BY <1>5, <2>1 DEF Peer
  <2>3. p \in Modules BY <2>1, StartupAssumption
  <2>4. f \in FIFOs BY DEF FIFOsOf
  <2> QED BY <2>1, <2>2, <2>3, <2>4 DEF FIFOsOf
<1> QED BY <1>3, <1>4, <1>5 DEF FIFOsOf
-----------------------------------------------------------------------------
\* The type invariant holds, whatever is configured.
THEOREM TypeCorrect == Spec => []TypeOK
<1>1. \A m \in Modules : Program[m] \in Seq(FIFOs) /\ Len(Program[m]) \in Nat
  BY Programs, LenProperties DEF InOrder
<1>2. Init => TypeOK
  <2> SUFFICES ASSUME Init PROVE TypeOK OBVIOUS
  <2> QED BY <1>1 DEF Init, TypeOK, Done
<1>3. TypeOK /\ [Next]_vars => TypeOK'
  <2> SUFFICES ASSUME TypeOK, [Next]_vars PROVE TypeOK' OBVIOUS
  <2>1. ASSUME NEW m \in Modules, Open(m) PROVE TypeOK'
    <3>1. state[m] = "opening" /\ opened[m] < Len(Program[m]) /\ opened[m] \in Nat
      BY <2>1 DEF Open, CanOpen, TypeOK
    <3>2. opened' = [opened EXCEPT ![m] = opened[m] + 1] BY <2>1 DEF Open
    <3>3. opened' \in [Modules -> Nat] /\ opened'[m] = opened[m] + 1 BY <3>1, <3>2 DEF TypeOK
    <3>4. PICK x \in {"dead", "running", "opening"} :
             /\ state' = [state EXCEPT ![m] = x]
             /\ x = "running" => opened'[m] = Len(Program[m])
             /\ x = "opening" => opened'[m] # Len(Program[m])
      BY <2>1 DEF Open, Done
    <3>5. state' \in [Modules -> {"opening", "running", "left", "dead"}] BY <3>4 DEF TypeOK
    <3>6. ASSUME NEW k \in Modules
          PROVE  /\ opened'[k] \in 0..Len(Program[k])
                 /\ state'[k] = "opening" => opened'[k] < Len(Program[k])
                 /\ state'[k] \in {"running", "left"} => opened'[k] = Len(Program[k])
      <4>1. CASE k = m BY <1>1, <3>1, <3>3, <3>4, <4>1 DEF TypeOK
      <4>2. CASE k # m BY <3>2, <3>4, <4>2 DEF TypeOK
      <4> QED BY <4>1, <4>2
    <3> QED BY <3>3, <3>5, <3>6 DEF TypeOK
  <2>2. ASSUME NEW m \in Modules, Fall(m) PROVE TypeOK' BY <2>2 DEF Fall, TypeOK
  <2>3. CASE Deinit BY <2>3 DEF Deinit, TypeOK
  <2>4. CASE Exit BY <2>4 DEF Exit, TypeOK
  <2>5. CASE UNCHANGED vars BY <2>5 DEF vars, TypeOK
  <2> QED BY <2>1, <2>2, <2>3, <2>4, <2>5 DEF Next, Step
<1> QED BY <1>2, <1>3, PTL DEF Spec

\* Whichever modules are configured and monitored, they do not wait for each other in
\* a circle: the open() of the lowest rank can return.
LEMMA LowestCanOpen == TypeOK => NoDeadlock
<1> SUFFICES ASSUME TypeOK, Alive, \E m \in Modules : state[m] = "opening"
             PROVE  \E m \in Modules : CanOpen(m)
  BY DEF NoDeadlock
<1> DEFINE Waiting == {m \in Modules : state[m] = "opening"}
           Ranks == {Rank(Pending(m)) : m \in Waiting}
<1>1. ASSUME NEW m \in Waiting
      PROVE  /\ opened[m] \in Nat /\ opened[m] + 1 \in DOMAIN Program[m]
             /\ Rank(Pending(m)) \in Nat
  <2>1. opened[m] \in Nat /\ opened[m] < Len(Program[m]) BY DEF TypeOK
  <2>2. Program[m] \in Seq(FIFOs) /\ \A i \in DOMAIN Program[m] : Rank(Program[m][i]) \in 1..49
    BY Programs DEF InOrder
  <2>3. DOMAIN Program[m] = 1..Len(Program[m]) /\ Len(Program[m]) \in Nat BY <2>2, LenProperties
  <2>4. opened[m] + 1 \in DOMAIN Program[m] BY <2>1, <2>3
  <2>5. Rank(Program[m][opened[m] + 1]) \in 1..49 BY <2>2, <2>4, Zenon
  <2>6. 1..49 \subseteq Nat OBVIOUS
  <2> QED BY <2>1, <2>4, <2>5, <2>6 DEF Pending
<1>2. Ranks \in SUBSET Nat /\ Ranks # {}
  <2>1. \A q \in Ranks : q \in Nat BY <1>1
  <2>2. PICK m \in Modules : state[m] = "opening" OBVIOUS
  <2>3. Rank(Pending(m)) \in Ranks BY <2>2
  <2> QED BY <2>1, <2>3
<1>3. PICK r \in Ranks : \A q \in Ranks : r <= q
  <2> DEFINE R == OpToRel(<, Nat)
  <2>1. IsWellFoundedOn(R, Nat) BY NatLessThanWellFounded
  <2>2. \A x, y \in Nat : <<x, y>> \in R <=> x < y BY DEF OpToRel
  <2> HIDE DEF R, Ranks
  <2>3. PICK r \in Ranks : \A q \in Ranks : ~ (<<q, r>> \in R) BY <1>2, <2>1, WFMin
  <2>4. ASSUME NEW q \in Ranks PROVE r <= q
    <3>1. q \in Nat /\ r \in Nat BY <1>2
    <3>2. ~ (q < r) BY <2>2, <2>3, <3>1, Zenon
    <3> QED BY <3>1, <3>2
  <2> QED BY <2>4
<1>4. PICK m \in Waiting : r = Rank(Pending(m)) BY <1>3
<1> DEFINE f == Pending(m)
           p == Peer(m, f)
<1>5. Opens(Program[m], f) BY <1>1, <1>4 DEF Opens, Pending
<1>6. p \in Modules /\ Opens(Program[p], f) BY <1>5, Programs, Matched
<1>7. PICK j \in DOMAIN Program[p] : Program[p][j] = f BY <1>6 DEF Opens
<1>8. Program[p] \in Seq(FIFOs) /\ j \in Nat /\ 1 <= j /\ j <= Len(Program[p])
  BY <1>6, <1>7, Programs, LenProperties DEF InOrder
<1>9. opened[p] \in Nat BY <1>6 DEF TypeOK
<1>10. CASE j <= opened[p]
  <2>1. j \in 1..opened[p] BY <1>8, <1>9, <1>10
  <2>2. Reached(p, f) BY <1>7, <2>1 DEF Reached
  <2> QED BY <1>4, <2>2 DEF CanOpen
<1>11. CASE ~ (j <= opened[p])
  <2>1. opened[p] < Len(Program[p]) BY <1>8, <1>9, <1>11
  <2>2. p \in Waiting
    <3>1. state[p] \in {"opening", "running", "left", "dead"} /\ state[p] # "dead" BY <1>6 DEF TypeOK, Alive
    <3>2. state[p] \notin {"running", "left"} BY <1>6, <1>9, <2>1 DEF TypeOK
    <3> QED BY <1>6, <3>1, <3>2
  <2>3. Rank(f) <= Rank(Pending(p)) BY <1>3, <1>4, <2>2
  <2>4. opened[p] + 1 \in DOMAIN Program[p] /\ Rank(Pending(p)) \in Nat BY <1>1, <2>2
  <2>5. Rank(f) \in Nat BY <1>1, <1>4
  <2>6. ~ (opened[p] + 1 < j)
    <3> SUFFICES ASSUME opened[p] + 1 < j PROVE FALSE OBVIOUS
    <3>1. Rank(Program[p][opened[p] + 1]) < Rank(Program[p][j])
      BY <1>6, <1>7, <2>4, Programs DEF InOrder
    <3> QED BY <1>7, <2>3, <2>4, <2>5, <3>1 DEF Pending
  <2>7. j = opened[p] + 1 BY <1>8, <1>9, <1>11, <2>6
  <2>8. Reached(p, f) BY <1>7, <2>2, <2>7 DEF Reached, Pending
  <2> QED BY <1>4, <2>8 DEF CanOpen
<1> QED BY <1>10, <1>11

\* In no reachable state do all the modules wait for each other in their open()s
\* (Minet.cc:729-730, 1006-1007 and the beginning of each module's main).
THEOREM StartNeverDeadlocks == Spec => []NoDeadlock
<1>1. TypeOK => NoDeadlock BY LowestCanOpen
<1> QED BY <1>1, TypeCorrect, PTL
=============================================================================
