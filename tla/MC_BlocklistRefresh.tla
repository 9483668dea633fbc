------------------------ MODULE MC_BlocklistRefresh ------------------------
(* Two rows, so that one list can fail before the other and the id of a    *)
(* deleted list can be used again.                                         *)
EXTENDS BlocklistRefresh

MCIds == {1, 2}
=============================================================================
