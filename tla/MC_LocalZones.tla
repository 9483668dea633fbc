--------------------------- MODULE MC_LocalZones ---------------------------
(* Files whose aliases are too long together with an address, or a loop    *)
(* with those of the other file; one of them with an invalid line.         *)
EXTENDS LocalZones, TLC

Line(v, n) == [value |-> v, name |-> n]
MCReverse == ("a4" :> "r4") @@ ("a6" :> "r6")
MCSource ==
  ("u1" :> {<<Line("a4", "n1"), Line("n1", "n2"), Line("n2", "n3")>>,
            <<Line("a6", "n1"), Line("n1", "n2"), Line("?", "n3")>>}) @@
  ("u2" :> {<<Line("n3", "n4"), Line("n3", "n2")>>})
MCZone(u) == [NoZone EXCEPT !.url = u, !.enabled = TRUE]
MCInitial == (1 :> MCZone("u1")) @@ (2 :> NoZone)
=============================================================================
