------------------------------ MODULE MCSockets ------------------------------
(***************************************************************************)
(* Two sockets and one port.  The UDP application closes its sockets as it *)
(* likes, the TCP application exits after its first close.                 *)
(***************************************************************************)
EXTENDS SocketStack

TheApps == {{"udp", "close"}, {"tcp", "exit"}}

\* The application of which sockint.semantics speaks.
TcpApp == {{"tcp", "close"}}
=============================================================================
