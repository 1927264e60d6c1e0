---------------------------- MODULE FswatchCliMC ----------------------------
(***************************************************************************)
(* The instance of FswatchCli for TLC.                                      *)
(***************************************************************************)
EXTENDS FswatchCli

SomeMonitors == {"poll_monitor"}
SomeNames == {"poll_monitor", "no_monitor"}
=============================================================================
