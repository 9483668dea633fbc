-------------------------- MODULE MC_StatBuffers --------------------------
(* Two foreign sources, and a client that asks the same name again.        *)
EXTENDS StatBuffers

Lookup(c, n, r, o) == [client |-> c, name |-> n, result |-> r, outcome |-> o]
MCLookups == {Lookup("c1", "n1", "servfail", "upstream-failure"),
              Lookup("x1", "none", "foreign", "none"),
              Lookup("x2", "none", "foreign", "none")}
One == [b \in Capped |-> 1]
MCRetention == [b \in Hourly |-> IF b = "events" THEN 0 ELSE 1]
=============================================================================
