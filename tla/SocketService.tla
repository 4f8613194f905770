---------------------------- MODULE SocketService ----------------------------
(***************************************************************************)
(* What the socket library promises the application: each call gets one    *)
(* answer, and the set of open sockets changes only when a call is         *)
(* answered, in the way that call asks for.  Nothing is said of modules,   *)
(* FIFOs or queues.                                                        *)
(***************************************************************************)
CONSTANTS Fds, None

VARIABLES call, answer, open

vars == <<call, answer, open>>

Init == call = None /\ answer = None /\ open = {}

Call ==
    /\ call = None
    /\ call' # None
    /\ UNCHANGED <<answer, open>>

\* A new socket for socket and accept.
Opened == \E fd \in Fds \ open : answer'.sockfd = fd /\ open' = open \cup {fd}

Closed == call.fd \in open /\ answer'.sockfd = call.fd /\ open' = open \ {call.fd}

Answer ==
    /\ call # None /\ answer = None
    /\ answer' # None
    /\ \/ call.type \in {"mSOCKET", "mACCEPT"} /\ answer'.error = "EOK" /\ Opened
       \/ call.type = "mCLOSE" /\ answer'.error = "EOK" /\ Closed
       \/ call.type \in {"mBIND", "mCONNECT"} /\ answer'.error # "EOK" /\ Closed
       \/ /\ call.type \in {"mSOCKET", "mACCEPT", "mCLOSE"} => answer'.error # "EOK"
          /\ answer'.sockfd \in {call.fd, 0}
          /\ UNCHANGED open
    /\ UNCHANGED call

Return ==
    /\ answer # None
    /\ call' = None /\ answer' = None
    /\ UNCHANGED open

Next == Call \/ Answer \/ Return

Spec == Init /\ [][Next]_vars
=============================================================================
