-------------------------- MODULE MC_HostDiscovery --------------------------
(* Two actions a wildcard row can have, one that lets queries pass and one *)
(* that does not.                                                          *)
EXTENDS HostDiscovery

MCModes == {"forward", "deny"}
=============================================================================
