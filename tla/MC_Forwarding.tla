-------------------------- MODULE MC_Forwarding --------------------------
(* Two addresses, one of them under both protocols; to begin with a first  *)
(* choice and a fallback, or no row at all.                                *)
EXTENDS Forwarding, TLC

Server(a, proto, prio) == [address |-> a, protocol |-> proto, priority |-> prio]
MCServers == {Server("a1", "udp", 1), Server("a1", "tcp", 1), Server("a2", "udp", 2)}
Enabled(s) == [server |-> s, enabled |-> TRUE]
First == Enabled(Server("a1", "udp", 1))
Fallback == Enabled(Server("a2", "udp", 2))
MCBodies == {Enabled(Server("a1", "tcp", 1)), [First EXCEPT !.enabled = FALSE]}
MCInitial == {(1 :> Fallback) @@ (2 :> First), (1 :> NoRow) @@ (2 :> NoRow)}
=============================================================================
