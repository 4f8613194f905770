# Minet and the routing simulator: a TLA+ model

The repository holds two student networking projects:

- `minet-netclass-w15-proj2/`: Minet, a user-level TCP/IP stack. Every protocol
  module is a process of its own with a single-threaded event loop; modules
  talk over FIFOs. (`minet-netclass-w15/` is an earlier snapshot of it with a
  stub TCP module.)
- `routelab-w15/`: an event-driven simulator of link-state and distance-vector
  routing.

This directory models them in TLA+, checks the models with TLC and proves the
central properties with TLAPS. Paths below that start with `core/` or
`libminet/` are under `minet-netclass-w15-proj2/src/`.

## Inventory

| Component | State | Operations | Talks to |
|---|---|---|---|
| TCP module `core/tcp_module.cc` | the connection table | handlers for SYN, ACK, data, FIN; requests ACCEPT, CONNECT, WRITE, FORWARD, CLOSE, STATUS; the timer walk | IP mux (segments), sock module (requests and answers) |
| Connection state `libminet/tcpstate.{h,cc}` | counters, timer tries, send and receive buffer of one connection | SetLastAcked, SendPacketPayload, GetRwnd | called by the TCP module |
| Connection table `libminet/constate.h`, `libminet/sockint.cc` | a deque of connection entries with a timer each | FindMatching with wildcards, FindEarliest, erase, push | TCP and UDP modules |
| Sock module `core/sock_module.cc`, `libminet/sock_mod_structs.cc` | socket table, port tables, one queue of outstanding requests per protocol | 9 socket calls, WRITE and STATUS from TCP/UDP/ICMP | application library, TCP, UDP, ICMP |
| UDP module `core/udp_module.cc` | table of forwarded connections | one STATUS per request, WRITE per packet | IP mux, sock module |
| IP module `core/ip_module.cc` | the packet it waits with | check, send or drop | ARP module, Ethernet mux, IP mux |
| ARP module `core/arp_module.cc`, `libminet/arp.cc` | ARP cache | Lookup, Update, reply | IP module, Ethernet mux |
| Muxes `core/ethernet_mux.cc`, `core/ip_mux.cc` | none | pass on by type or protocol | driver, ARP, IP, transports, ICMP |
| ICMP module `core/icmp_module.cc`, `libminet/icmp.cc` | none | respond, pass on | IP mux, sock module |
| Device driver `lowlevel/device_driver2.cc` | none | frames in and out | network, Ethernet mux |
| Event loop `libminet/Minet.cc` | FIFOs of a process | MinetInit, MinetConnect, MinetAccept, MinetDeinit; MinetGetNextEvent, MinetSend, MinetReceive | every module |
| Monitor `core/monitor.cc` | none | reads what every module reports | every module |
| Socket library `libminet/minet_socket.cc` | one FIFO pair of an application | blocking calls | sock module |
| Simulator core `routelab-w15/{topology,eventqueue,context}.cc` | nodes, links, a queue of timed events | change a link, post a message, dispatch the earliest event | nodes |
| Link-state node `routelab-w15/node.cc` | rows of all origins, highest sequence number of each | link update, message arrival, shortest path | simulator core |
| Distance-vector node `routelab-w15/node.cc`, `table.h` | distance by neighbour and destination | link update, message arrival, next hop | simulator core |

What is hard in this code:

- TCP: segments that are lost, repeated or overtake each other; timers against
  late answers; three parties (peer, sock module, clock) that drive one table;
  unsigned arithmetic; table look-ups whose result depends on the order of the
  table, which every handler changes; recursion that may not end.
- Sock module: answers are matched with requests only by their order in a
  queue, over two FIFOs, for modules that do not answer every request; data and
  connections arrive for sockets that are meanwhile closed or used again.
- Below the transports: eight processes that send to each other in both
  directions with blocking writes; the IP module waits for the ARP module with a
  packet in hand; a lost ARP request loses the packet.
- Start and end: `open` of a FIFO blocks until the other end is opened, a dozen
  processes open theirs in orders of their own, and the end of one is known to
  the others only by an end of file.
- Routing: floods that overtake each other, messages that hold pointers to live
  tables, termination and convergence.

`PROJECT.json` lists every hazard at its line with the properties that cover it.

## Plan and order

All modules of the plan are there, in the order in which they were written:

1. `ConnectionList`, `TcpModule`, `MCTcp`, `TcpClaims`: one TCP host against any
   peer, any sock module and its clock; what comments and
   `docs/sockint.semantics` say of it and the code does not do. Proofs in
   `TcpModule_proofs` (with the lemmas about `ConnectionList`), `TcpStream_proofs`.
2. `LinkState`, `Views`, `LinkState_proofs`, `Routes`: flooding over a changing
   topology, and the paths that nodes compute from what reaches them.
3. `SockModule`, `UdpModule`, `TcpEnd`, composed with the socket library in
   `SocketStack`, which implements `SocketService`; `SocketStack_proofs`,
   `SocketOrder_proofs`.
4. `DistVector`, `DistVector_proofs`: distances over live tables.
5. `NetworkLayer`, `NetworkLayer_proofs`: the processes between the transports and the network.
6. `Startup`, `Startup_proofs`: how the processes find each other and end.

What would come next: two `TcpModule` instances over a network that loses,
repeats and reorders (handshake, stream and close between them), and the state
machine of `apps/http_server3.cc` over `select`.

The instances stay at 3 to 5 table entries, rows, messages or sockets: each
property needs at most two connections, three routers or two outstanding
requests to break, which the mutants confirm. `Startup` is checked with all
processes but one, and proved for all.

## Modules

### ConnectionList

Connections, wildcard matching (`Connection::Matches`), the first match
(`FindMatching`), the earliest timer (`FindEarliest`, with its habit of starting
the minimum at the first entry whether or not that timer runs) and the two ways
handlers change the table: `Without` (erase) and `ToFront` (erase and
push_front of the changed copy).

### TcpModule

`Next` has one action per handler. A handler runs to completion before the next
event is taken, so each is one step; what it sends is in `mux` (a set of
segments) and `sock` (a sequence of messages).

| Variable | Code |
|---|---|
| `clist` | `ConnectionList<TCPState> clist` of `main`; an entry has the connection, `stateOfcnx` (st), `bTmrActive` (tmr), `timeout` (due), `tmrTries`, `last_acked`, `last_sent`, `rwnd`, `SendBuffer` (snd), `last_recvd` (rcvd), `RecvBuffer` (rcv) |
| `now` | the clock, in 5-second periods |
| `checking`, `resend` | inside `checkForTimedOutConnection`; the argument of a recursive `sendLastN` |
| `mux`, `sock` | what the last handler passed to `MinetSend` |
| `listening` | which local endpoints the sock module uses for listening sockets |
| `fault` | set when the code dereferences `end()` or recurses for ever; nothing happens afterwards |

- Segments: `RecvSyn` (with `addSynAckMapping`), `AckSynRcvd`,
  `AckEstablished` (states ESTABLISHED and SEND_DATA, with the fall-through of
  the switch), `AckSynSent`, `AckFinWait1`, `AckLastAck`, `RecvFin`,
  `RecvStrayFin`.
- Requests: `SockAccept`, `SockConnect`, `SockForward`, `SockStatus`,
  `SockWrite`, `SockClose`, `SockStrayClose`.
- Timers: `Timeout` starts a walk; one round of the walk is `GiveUp`, `Retry`,
  `ResendFirst`/`ResendNext` or `TimeWaitOver`; `TimersChecked` ends it.

Abstractions: headers, checksums, IP addresses and ports apart from equality,
PSH, and logging are left out. `activeOpen` and the SYN_SENT case send the same
segment twice; `mux` is a set. A SYN or FIN has no payload (Minet's peers build
none, and the code drops the payload of a FIN). Reads of uninitialised fields:
a listener's counters, which show only in the numbers of the FIN of a closed
listener (no property reads them), and the byte count of a STATUS other than
the answer to a WRITE, which the message here does not have.
`std::deque::erase` invalidates iterators; `StalePlace` says which element the
stale iterator denotes with the deque of libstdc++.

### MCTcp and its runs

A byte of the peer's stream is named by its sequence number, so
`ReceivedInOrder` tells holes and repeats apart. The segment set holds every
SYN, SYN ACK, ACK and data segment over the given numbers, and FINs (whose numbers
are only echoed), and any of them may arrive at any time: this covers loss,
duplication and reordering.

| Run | Shows | Bounds |
|---|---|---|
| `MCTcp.cfg` | `TypeOK`, `DataHasTimer`, `ReceivedInOrder`, `WindowRespected`, `AnnouncedFirst`, `TimerWalkEnds` | 2 table entries (a listener and a connection, or two connections), modulus 7, window N = 2 with 1-byte segments, initial numbers 3 and 4 so that the counters reach the wrap, 2 bytes per buffer, 1 timer try, 2 timeouts; 2 local endpoints, of which one is answered (`Answered`) and may listen, and the other connects in vain, so that 2 timers expire in one walk |
| `AcceptErasesOnlyAccepts.cfg`, `WriteReportsQueued.cfg`, `TimeWaitErasesItself.cfg`, `TimeoutChecksClose.cfg`, `AckTakesOnlyItsBytes.cfg` | a statement of the repository that the code does not keep, with the shortest counterexample | as above with one local endpoint; three entries for the stale iterator; N = 3 and modulus 9 for the repeated ACK, which needs more than one segment in flight |

- `DataHasTimer`: a connection in the handshake or with data in its send buffer,
  whoever opens or closes it, has its timer running and due within one period,
  since nothing but the timer sends again. It is about data, not about a FIN: the
  handshake turns the timer of an accepted connection off, and if that connection
  closes without data it waits in FIN_WAIT1 with no timer, so that a FIN that is
  lost is never sent again. The model has this; no document of the repository
  promises otherwise.
- `ReceivedInOrder`: the receive buffer is a run of the peer's stream that ends
  before `last_recvd`, whatever arrives and whenever the sock module reads.
- `WindowRespected`: never more than N bytes in flight.
- `AnnouncedFirst`: the sock module hears of a connection before its data.
- `TimerWalkEnds`: the recursion over expired timers ends, or a resend that
  makes no progress never does (`fault = "diverges"`).
- `AckTakesOnlyItsBytes`, which the code violates: "first check if the ack is in
  order" (tcp_module.cc:571). `SetLastAcked` keeps one less than the number it is
  given (tcpstate.cc:50-51), so an ACK that comes twice is in order twice and takes
  a byte off the send buffer that nobody acknowledged. A CLOSE may then find
  the buffer empty and send the FIN over data the peer never got. An empty send
  buffer therefore does not mean "acknowledged" in this code, and no property here
  reads it so.

Two timeouts are enough to expire a timer, use up its single try and expire it
again; two entries are enough for one to hide or to be mistaken for the other.
TLC stops at deadlock nowhere: the model may stop where `now`, the buffers and
the table are at their bounds, and after a `fault`, so `CHECK_DEADLOCK` is off.

Fairness: `FairSpec`, and `MCSpec` with it, asks only that a walk that has begun
continues (`WF_vars(CheckTimers)`). The walk is a recursion of one thread that waits for
nothing. Nothing is assumed of the network, the sock module or the clock.

Every property has a mutant of the code (definitions commented "Mutant" in
`TcpModule`) under which its run fails; `PROJECT.json` lists them.

### LinkState, Views and Routes

`LinkState` is the simulator with nodes built with `-DLINKSTATE`. A link event
and the arrival of a message each run to completion in `Event::Dispatch`, so
each is one step.

| Variable | Code |
|---|---|
| `links` | `Topology::links`, the latency of each |
| `starting` | links whose CHANGE_LINK event, posted by `SimulationContext::Init` at -100, has not been dispatched |
| `queue` | the ROUTING_MESSAGE_ARRIVAL events of `EventQueue`: link, origin, sequence number, row |
| `table`, `seq_map` | `Node::table`, `Node::seq_map` |
| `made`, `crashed` | whether a node has allocated its table; a use of a table that is not there |
| `changes`, `log` | link events so far; history: the rows each node has flooded |

- `FirstUpdate`, `Changed`, `AddLink`, `DeleteLink`: the link events. Only
  `ChangeLink` tells the source; `AddLink` on a link that exists is `Changed`.
- `ProcessIncomingRoutingMessage`: a message is dropped, or kept and passed on.

The simulator orders events by time. Which message comes first depends on
latencies, which may change while messages are under way, and on link events,
so the model lets any message arrive next: every order of the code is among
them, and the safety properties hold for all. Only the events of `Init` come
first always, as they do in the code. The node constructor leaves `table`
uninitialised; `LinkHasBeenUpdated` then chooses between a zero pointer (a table
is made) and garbage (`crashed`).

`Views` is what flooding promises and knows nothing of messages, links or
numbers on them: a node publishes rows, and others move forward among them.

| Run | Shows | Bounds |
|---|---|---|
| `MCLinkState.cfg` | `TypeOK`, `NoRowLost`, `Converged`, `PathsShortest`, `Implements`, `FloodingEnds` | 3 nodes on a one-way ring with a volatile link against it, latencies 1 and 3, 2 events of the event file |

- `NoRowLost`: what a node holds is also held, or overtaken, or under way at the
  far end of each link that lasts.
- `Converged`: with the queue empty, nodes that can be reached over lasting
  links agree, and rows show current latencies.
- `Implements`: the refinement of `Views`.
- `FloodingEnds`: the queue runs empty and stays so.
- `PathsShortest`: with the queue empty and all links known to their sources, the
  path that `CollectPathLinks` puts together from the answers of the nodes arrives
  and is a shortest one.

`Routes` has the two queries of the simulator, which change no state: the search
of `GetNextHop` in the table of one node (0 is the distance of a node not
reached, the minimum is rounded down, ties go by number) and the walk over the
answers. A link of a node to itself is left out: the code would change the
distance of the node it works on within the loop over its row, and no topology file
has one. Latencies are multiples of 1/`PerUnit`, in the run whole ones (2 and 6
halves), as in all topology files of the lab. With 1 and 4 halves TLC shows a
longer path: 0.5 rounds to no distance at all, so the search visits a node at
distance 2 before it knows the way of length 1 to it.

Three updates of one origin can be under way at once (one at the start and two
by events), over two paths of different length when the volatile link is there:
rows overtake each other on the way to a third node, which is what the sequence
numbers are for. One-way links make a row travel round the ring back to its
origin. The model stops when no event is left, hence no deadlock check.

Fairness: `WF_vars(Dispatch)`; `main` of `routesim.cc` dispatches as long as the
queue holds an event. The events of the event file are left without fairness:
there may be fewer of them.

### SockModule, UdpModule, TcpEnd, SocketStack, SocketService

`SocketStack` is one application, the socket library, the sock module, the UDP
module and the TCP module as the sock module sees it, joined by FIFOs of at most
`MaxPipe` messages.

| Variable | Code |
|---|---|
| `app`, `call` | what the application uses and whether it has exited; the call in which it blocks |
| `socks`, `ports` | `SockStatus` and `PortStatus` of the sock module: status, connection and stored bytes of each socket; the socket of each port |
| `tcpq`, `udpq` | `Queue` of outstanding requests, one for TCP and one for UDP |
| `clist`, `mux` | the list of forwards of the UDP module; datagrams that wait for it |
| `tcps` | the table of TCP: which connections are there and in what state; `TcpModule` has the rest |
| `fromApp`, `toApp`, `toTcp`, `fromTcp`, `toUdp`, `fromUdp` | the FIFOs between the processes |
| `arrived`, `strayClose` | datagrams and TCP events so far; history: UDP has been asked to close an unbound connection |

- `ProcessAppRequest` is one action for each of the nine requests (`AppSocket`,
  `AppBind`, `AppListen`, `AppAccept`, `AppConnect`, `AppRead`, `AppWrite`,
  `AppClose`, `AppDefault`) and the refusals; `HandleTCPWrite`,
  `HandleTCPStatus`, `HandleUDPWrite`, `HandleUDPStatus` are what comes from
  below, including the second socket that `accept` takes (`Accepted`).
- `UdpModule`: `ForwardDatagram`, `RejectDatagram`, `UdpWrite`, `UdpForward`,
  `UdpClose`, `UdpIgnoreStatus`. Its handles are scanned in order, so datagrams
  go before requests (`UdpRequest`).
- `TcpEnd` answers requests as `tcp_module.cc` does, and not those it does not
  answer; connections, data, the peer's end and the end of TIME_WAIT come
  at any time.
- `SocketStack` has the library: `minet_socket` to `minet_close`, each of which
  sends one request and blocks (`Call`, `Return`).

`SocketService` is what the library promises the application, without modules or
queues: a call has one answer, and the set of open sockets changes only with an
answer, as its call asks.

| Run | Shows | Bounds |
|---|---|---|
| `MCSockets.cfg` | `TypeOK`, `UdpAnswersInOrder`, `PendingSockets`, `UdpPortsUnique`, `ForwardInPlace`, `Implements`, `UdpCallsReturn` | 2 sockets and 1 port, FIFOs of 3 messages, 1 datagram, 2 events of TCP connections; an application with UDP sockets that it closes as it likes, or with TCP sockets that exits after its first close |
| `TcpAnswersInOrder.cfg` | a TCP application that closes a socket and goes on: TCP sends no STATUS for the CLOSE, so that each later answer is taken for the request before it | as above, with an application that goes on |

- `UdpAnswersInOrder`: the records of sock's queue name the connections of the
  answers on their way up and the requests on their way down, in their order.
- `PendingSockets`: a socket waits exactly while the library call of that name
  waits for it.
- `UdpPortsUnique`: two sockets share a port only when one came from accept.
- `ForwardInPlace`: the forwards of UDP are the bound UDP sockets of sock, up to
  requests on their way. It excuses what follows the close of an unbound socket: that asks for the
  connection with all wildcards and takes away another socket's forward.
- `Implements`: the refinement of `SocketService`.
- `UdpCallsReturn`: each call on UDP sockets but a read returns.

With TCP sockets that are closed, `PendingSockets` and `Implements` fail as well,
for the same missing STATUS as in `TcpAnswersInOrder`; hence the TCP
application of the first run exits with its first close. A larger
instance (two ports, two datagrams, TCP without close) passes too, with 19.6
million states.

Fairness: each process takes the next event if it can (weak fairness of `Sock`,
`Udp`, `Tcp` and `Return`); the FIFOs lose nothing. Nothing is assumed of the
application or the network.

### DistVector

The simulator with nodes built with `-DDISTANCEVECTOR`. A message carries a copy
of the node that sent it, and with it the pointer to its table; so messages have
no content, and `queue[l]` is their number on link `l`.

| Variable | Code |
|---|---|
| `links`, `starting`, `changes`, `crashed` | as in `LinkState` |
| `queue` | the number of ROUTING_MESSAGE_ARRIVAL events for each link |
| `made`, `table` | `Node::table`; the distance by neighbor and destination |
| `stale` | history: neighbors from which nothing has come since the link changed |

- `LinkHasBeenUpdated`, `ProcessIncomingRoutingMessage` with `Learned`: every
  distance that differs is taken, though the comment (node.cc:305) speaks of
  shorter ones; the mutant `LearnedShorter` is the comment's version and breaks
  `RowsFollow`.
- `GetMinDistance` reads behind the end of the first row if that has no entry for
  the destination. `Garbage` is what is read there: with the C++ library of the
  lab it is a heap size read as a double, less than any latency.
- `RowsFollow`: what a node holds of a neighbor is what that neighbor's table
  says now, unless a message is on its way: none of the changes is missed although
  messages are read later than they are sent.
- `RoutesShortest`: when it is quiet and all links are known, `GetNextHop` leads
  along a shortest path. Its reference is `Lengths`, the lengths of all walks.
- `Settles`: the messages run out after the last event.

| Run | Shows | Bounds |
|---|---|---|
| `MCDistVector.cfg` | the above | 3 nodes on a line or a triangle, latencies 1 and 3, 2 events: the link 2-1 gets longer, 3-1 is added or deleted |

When the link from 2 to 1 gets longer, 3 offers 2 the old way back through 2
itself: the case of counting up, which `Settles` shows to end. ADD_LINK and
DELETE_LINK tell nobody; a link that is added twice becomes known. Fairness as in `LinkState`: `WF_vars(Dispatch)`.

### NetworkLayer

Eight processes: driver, Ethernet mux, ARP module, IP module, IP mux, ICMP
module, and the transport and sock module as far as they take what arrives. A
handler computes what it sends; `MinetSend` blocks while the pipe is full, so
what is left is in `sends`, and the module takes no event until it is gone.

| Variable | Code |
|---|---|
| `pipe`, `sends` | the FIFOs, and what a handler has still to send |
| `held` | the packet with which `SendPacket` waits for the ARP module |
| `cache` | `ARPCache::data` |
| `asked`, `coming` | the network: ARP requests to be answered, frames that will arrive |
| `packets`, `left`, `heard` | packets of the transport; history: the last one that got out, the address pairs that ARP packets have brought |

- `AddressesMatch`: each packet goes out with an address that ARP heard for its
  destination: the IP module, which matches answers with questions only by their
  order, never takes the answer of another.
- `OnlyFullPipesBlock`: the modules come to a standstill only behind full pipes.
  The standstill itself is possible, and TLC reaches both of its forms: two
  modules in the middle of a send to each other, and the IP module waiting for
  the ARP module, which waits for the Ethernet mux, which waits for the IP module.
- `RetriesGetOut`: the IP module discards a packet without an ARP entry, but what
  is sent again gets out in the end, unless the modules stand still.

| Run | Shows | Bounds |
|---|---|---|
| `MCNetwork.cfg` | the above | pipes of one message, one other host whose Ethernet address changes, a broadcast and a packet to that host, 11 sequences of 2 to 4 arriving frames |

Real pipes hold 64 KB; one message is the bound that makes them full, and a
standstill with larger pipes needs more packets but no other steps. Fairness: some
module that can run does (`WF_vars(ModuleStep)`: nothing is assumed about which),
the transport sends and sends again, and of the ARP requests that go out again
and again one is heard (`SF_vars(DriverOutgoing(FALSE))`). The run has no deadlock
check because of the standstill, which `OnlyFullPipesBlock` is about.

### Startup

A module's program is the sequence of FIFOs that its `main` opens, by `MinetInit`,
`MinetConnect` (from, then to) and `MinetAccept` (to, then from). `open` returns
when the other end is in its `open`, too. When a module dies its neighbors read
an end of file, which throws an exception that nothing catches.

| Variable | Code |
|---|---|
| `state` | opening, running, left (after `minet_deinit`), dead |
| `opened` | how many FIFOs of its program a module has opened |

- `NoDeadlock`: as long as some module is in an `open`, one of those can return.
- `StartsUp`: all modules come up, unless the application is done before.
- `ShutsDown`: "will shut down the Minet stack" (minet_socket.cc:154): after
  `minet_deinit`, or the end of the application, every process ends.

| Run | Shows | Bounds |
|---|---|---|
| `MCStartup.cfg` | the above | the modules of `setup.sh` but `ipother_module`: 12 processes, all monitored; with all 13 it takes three times as long and passes |

`MinetIsModuleInConfig` finds `other_module` within `ipother_module` (`Named`). A
configuration with only the latter makes the Ethernet mux wait for ever, and
`StartupAssumption` leaves it out. Fairness: `WF_vars(Step)`; some `open` that can return
does, and a module that reads or writes meets the end of its neighbor. There
is no deadlock check because all processes end. Not modelled: the pipes to the
monitor get full if modules report while the monitor is still in `open`, which
delays them until an application starts; and the wait for Enter in an xterm.

## What is proved

`TcpModule` is parameterised by the modulus, segment size, window, buffer size,
initial numbers, tries, the segments of the network and the writes of the
application; `ConstAssumption` says of them only that they are of their type.
`TCP_MAXIMUM_SEGMENT_SIZE`, `N` and 2^32 are one instance.

The table is a sequence that every handler reorders, and most of the properties
below are properties of each entry. Their proofs therefore share one lemma,
`StepWithin`: if a set S of entries is closed under what the handlers do to an
entry (`Closed(S)`: no sequence in sight), then `clist \in Seq(S)` is
preserved by every step. Its proof goes once through all actions. Each theorem
then picks its S:

| Theorem | Entry set S |
|---|---|
| `TypeCorrect` (`TypeOK`) | `Entry`; together with `ResendHasEntry`: while a resend is pending the table is not empty, without which `ResendNext` cannot be typed, and the front entry holds data |
| `DataKeepsTimer` (`DataHasTimer`) | `TimedEntry(now)`: the property, and no data in SYN_RCVD and FIN_WAIT2, whose handlers turn the timer off and put its deadline off. A resend puts bytes back only into a buffer that is not empty: `ResendHasEntry` says so of the front entry. `TimedLater`: deadlines stay within one period as time passes |
| `StreamInOrder` (`ReceivedInOrder`) | `ContiguousEntry`; uses `PeerStream` (bytes are determined by their sequence numbers) and the lemmas `WrapSum`, `WrapNear`, `WrapUnique` on arithmetic modulo SEQ_MOD |
| `WindowBounded` (`WindowRespected`) | `WindowEntry`: the offset is at most N; the lemmas `AckShrinks` and `UpdateShrinks` show that an ACK never widens it |
| `OpenIsAnnounced` (`AnnouncedFirst`) | of one connection c at a time: `NotOpen(c)`, the entries of other connections or not open, is closed under what requests and timers do and all segments but the ACKs that open c. Those are the ones that announce it |

`LinkState` is parameterised by the nodes, the latencies, the topology, the
volatile links and the number of events; `ConstAssumption` says that links are
pairs of nodes, and `RouteAssumption`, for the paths only, that the nodes are finitely
many numbers and latencies positive. `StepKinds` sorts the steps of `Next` into four kinds (`Told`,
`Learned`, `Dropped`, `Elsewhere`), and each invariant is carried over each:

| Theorem | Inductive invariant and why it is needed |
|---|---|
| `TypeCorrect` (`TypeOK`) | with `LinksKept`: a link still to be announced is there, so its latency is one |
| `NothingLost` (`NoRowLost`) | `Flooding`: `LinksKept` gives each new row a message on every lasting link |
| `Convergence` (`Converged`) | `Flooding` and `OwnRowTrue`. By `Rows` every row held or sent is one its origin flooded under that number; so the nodes that hold the latest row of o are closed under lasting links |
| `Implementation` (`Implements`) | `Rows`: `Told` is a `Publish`, `Learned` a `Learn`, all else a stutter |
| `ShortestPaths` (`PathsShortest`), for whole latencies | `Announced` (a node with a link has a table) and `Converged`; then as below |

Once the rows have spread, every table is the map of the links, and `GetNextHop` is
Dijkstra's search in it. `SearchInv` is kept by each of its rounds (`UpdatedKeeps`,
`VisitKeeps`): the distances come along a tree of links, no link of a visited node
makes one shorter, and nodes are visited in the order of their distances. The source
counts as 0 although its entry may hold the length of a way back to it. A `Way` of
length a is said without sequences: <<d, a>> is in every set that <<n, 0>> is in
and the links do not leave; so an invariant of the search bounds all ways from
below (`NoWayShorter`), and walking the tree back gives the way from the first
hop on (`FirstHopIs`). The nodes break ties differently, but the hop of each is
nearer to the destination by the latency of its link (`HopNearer`), which is why
the path of hops ends there and is shortest (`PathArrives`). `RouteAssumption`
leaves out links from a node to itself, and the theorem latencies that are not whole,
for which TLC shows a longer path. The loops of the code are recursive functions
here; that they unfold, and induction over them, come from the
well-foundedness of the naturals (`IteratesExist`, `Throughout`).

`SocketStack` is parameterised by sockets, ports, connections, sizes and pipes:

| Theorem | Inductive invariant and why it is needed |
|---|---|
| `SocketStack_proofs!TypeCorrect` (`TypeOK`) | `TypeOK` itself: the modules' types are stated for all pipes together, since a handler of one types what another reads |
| `SocketsPending` (`PendingSockets`) | `StackInv`, below |
| `PortsUnique` (`UdpPortsUnique`) | `PortsApart` in `StackInv`: a port in use is taken in the table of ports, and shared only by TCP sockets, which accept gives the port of their listener |
| `ServiceImplemented` (`Implements`) | `StackInv`: each step of sock, UDP and TCP is one of `SocketService` or changes nothing it speaks of |
| `UdpOrder` (`UdpAnswersInOrder`) | `TypeOK`, and `Numbered`: some function numbers the answers due, on their way up or still to be made, along sock's queue. A step moves the messages under way in one of seven ways, and a lemma for each gives the numbering after it. The numbers also `Fit`: a request on its way down has the type of its record, and only a CLOSE is answered with an error |
| `ForwardsInPlace` (`ForwardInPlace`) | `FwdInv`, below |

All but `TypeCorrect` and `UdpOrder` assume `CloseEnds`: an application with TCP
sockets does not close and go on. TCP never answers a CLOSE, so without it the
properties do not hold (`TcpAnswersInOrder.cfg`). An application with UDP sockets
only may do anything.

`StackInv` says where the one call of the application is: on its way to sock, or
answered, or exactly one socket or one record of a queue of sock stands for it
(`Turns`, `AppCalls`, `Waiting`). `Sockets` types the states of a socket by its
protocol, and `TcpEnds` says that once a CLOSE has gone to TCP the application
asks for nothing more, and that TCP refuses nothing. Without these a STATUS could
answer another call, and nothing else would tell: the type of the socket is the
same. TLC checks `StackInv` on the applications {udp, close}, {tcp, exit},
{tcp, udp, exit} and {udp, tcp}.

`FwdInv` is `Forwards`, until a socket that was never bound is closed
(`strayClose`). A FORWARD on its way has a record in sock's queue, by the
numbering, and the socket that waits for it is the one of the call. So at most one is
on its way, and none while the application waits to be heard (`OneEntry`,
`ForwardsAsked`, `IdleForwards`); the forward of a socket is where its port
and state say (`Entries`, `Forwarded`). UDP refuses nothing but a CLOSE, so that no
socket loses its port to a refusal, and a port once taken is never free again,
so that no CLOSE on its way takes the entry of a later socket (`ClosesAsked`).

`DistVector` is parameterised as `LinkState` is, and by the garbage; the nodes are
finitely many:

| Theorem | Inductive invariant |
|---|---|
| `DistVector_proofs!TypeCorrect` (`TypeOK`) | `TypeOK` with links still to be announced |
| `ChangesReachNeighbors` (`RowsFollow`) | `RowsFollow` with `TypeOK`. A table changes only together with a message on every outgoing link, or is itself the one a message was read into; the link is counted as stale otherwise |
| `ShortestRoutes` (`RoutesShortest`), for positive latencies | `RowsFollow`. When it is quiet the tables satisfy Bellman's equation with one another, and a row without an entry for the destination is never read. It has one solution, the least length of a walk, because latencies are positive: the least distance leads over its link to a node that is nearer (`NearerBy`), so a walk of no more links than there are nearer nodes has that length. With links of latency 0, which the simulator accepts, TLC finds 4 nodes that agree on a distance nobody has |

`Lengths` is a recursive function over the number of links. That it unfolds, as induction
is not to be had from the library, follows from the well-foundedness of the
naturals: there is no least number where it does not.

`NetworkLayer` is parameterised by the packets, the addresses, the capacity of a
pipe and the sequences of frames that may arrive:

| Theorem | Inductive invariant `Inv` and why it is needed |
|---|---|
| `NetworkLayer_proofs!TypeCorrect` (`TypeOK`) | `Travel`: a pipe holds only what its reader has a handler for, addressed with what ARP has heard |
| `RightAddress` (`AddressesMatch`) | `OneQuestion`: while the IP module holds a packet, its question or the answer is in exactly one place, and at no other time is there one. So the next answer is to the packet in hand |
| `FullPipesOnly` (`OnlyFullPipesBlock`) | by `OneQuestion` questions and answers always find room (`QuestionsNeverBlock`). The modules form a tree but for the ARP module's two neighbors, so who follows who waits for whom ends at two modules that fill each other's pipes, or goes round ARP, Ethernet mux and IP |

`Startup` is parameterised by the modules, the configuration and what is
monitored:

| Theorem | Argument |
|---|---|
| `Startup_proofs!TypeCorrect` (`TypeOK`) | by the steps |
| `StartNeverDeadlocks` (`NoDeadlock`) | every program opens its FIFOs in the order of one ranking (`Rank`), and every FIFO is in the programs of both its ends (`Matched`). Of the `open`s that wait take the one of least rank (`WFMin`): its other end has either opened it or waits for one of no greater rank, hence for the same |

Only model-checked: the liveness properties `TimerWalkEnds`, `FloodingEnds`,
`UdpCallsReturn`, `Settles`, `RetriesGetOut`, `StartsUp`, `ShutsDown` (liveness is
out of reach of the prover) and the counterexamples of the violated statements.
Every other property of the passing runs is a theorem, under the hypotheses named
with it.

## Not modelled

- Time within a walk over the timers: retransmitting a SYN sleeps one second,
  so a walk over many such connections takes longer than the model says.
- Node events of the simulator (CHANGE_NODE assigns a node without its sequence
  numbers), drawing and time stamps; sequence numbers of the routers do not wrap
  in the model (2^32 updates of one node).
- ICMP sockets: there are none, and the sock module answers ENOMATCH to all that
  ICMP passes on. `minet_select` and `minet_poll` return ENOT_IMPLEMENTED.
- `ipother_module` and `other_module`, which only discard what they get; requests
  that the sock module could make of ICMP and never makes.
- Packet encoding, serialisation, checksums, the other drivers, the Java viewers:
  I/O or formatting.
- The HTTP servers and clients under `apps/`: they run over kernel sockets where
  they need `select`, and share no state with the stack.
- `ip_module_diffusion.cc`, `ip_module_routing.cc` and `route.cc`: other builds
  of the IP module that no script of the repository starts.
- `minet-netclass-w15/`, the earlier snapshot: apart from `Minet.cc`, the monitor,
  the UDP module, the stub of TCP and the applications its files are those of the
  second project, byte for byte. With `routelab-w15/handin/` it is about half of the
  C++ of the repository; the models are of the later copy.
