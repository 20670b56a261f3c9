------------------------------- MODULE MCSeat -------------------------------
(* Two clients, k1 and k2, with windows that are stacked in turns.           *)
EXTENDS Seat, TLC

CONSTANTS k1, k2, d1, d2, d3

TwoClients == {k1, k2}
ThreeWindows == 0..2
ThreeSources == {d1, d2, d3}

Ownership == (0 :> k1) @@ (1 :> k2) @@ (2 :> k1) @@ (d1 :> k1) @@ (d2 :> k2) @@ (d3 :> k1)
=============================================================================
