------------------------------- MODULE MCStartup -------------------------------
(* The modules that setup.sh writes into minet.cfg, without one of the four   *)
(* that lie between ip_mux and the sock module.                               *)
EXTENDS Startup

MODS == AllModules \ {"ipother"}
MONITORED_MODS == MODS \ {"monitor"}
=============================================================================
