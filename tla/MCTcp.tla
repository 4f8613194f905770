------------------------------- MODULE MCTcp --------------------------------
(***************************************************************************)
(* One TCP host against any peers that send well-formed segments.  Only    *)
(* the local endpoints in Answered are sent any; the others connect in     *)
(* vain, so that several timers run at once.                               *)
(***************************************************************************)
EXTENDS TcpModule

CONSTANTS Answered, PeerSeqs, PeerAcks

\* The peer's stream: the byte at sequence number n is n.
\* The numbers of a FIN show only in its answer, so that few do.
MCSegments ==
    LET conns == [src : Answered, dest : Remotes]
    IN  {Seg(c, {"SYN"}, 0, 0, WINDOW, <<>>) : c \in conns}
   \cup {Seg(c, {"SYN", "ACK"}, 0, a, WINDOW, <<>>) : c \in conns, a \in PeerAcks}
   \cup {Seg(c, {"ACK"}, 1, a, w, <<>>) : c \in conns, a \in PeerAcks, w \in {1, WINDOW}}
   \cup {Seg(c, {"ACK"}, q, a, WINDOW, <<q>>) : c \in conns, q \in PeerSeqs, a \in PeerAcks}
   \cup {Seg(c, {"FIN", "ACK"}, q, q, WINDOW, <<>>) : c \in conns, q \in PeerSeqs}

\* Nobody listens where no segment comes.
MCInit == Init /\ listening \subseteq Answered

MCSpec == MCInit /\ [][Next]_vars /\ WF_vars(CheckTimers)

MCWrites == {<<0>>, <<0, 0>>}
ASSUME PeerStream

MCBytes == 0..(SEQ_MOD - 1)
=============================================================================
