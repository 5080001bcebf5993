--------------------------- MODULE MCPizzeriaPosix ---------------------------
(* Instances of PizzeriaPosix for TLC. *)
EXTENDS PizzeriaPosix, TLC

CONSTANTS c1, c2, c3, d1, d2

TwoCooks   == {c1, c2}
ThreeCooks == {c1, c2, c3}
OneDeliverer  == {d1}
TwoDeliverers == {d1, d2}
TwoTypes == {0, 1}
OneType  == {0}

\* Processes of a kind are interchangeable; safety runs only.
Symmetry == Permutations(Cooks) \cup Permutations(Deliverers)
=============================================================================
