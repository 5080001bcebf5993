------------------------------ MODULE MCSanta ------------------------------
(* Instances of Santa for TLC. *)
EXTENDS Santa, TLC

CONSTANTS claus, none, r1, r2, r3, e1, e2, e3

TwoReindeer == {r1, r2}
ThreeReindeer == {r1, r2, r3}
TwoElves    == {e1, e2}
ThreeElves  == {e1, e2, e3}

\* The threads of a kind are interchangeable; safety runs only.
Symmetry == Permutations(Reindeers) \cup Permutations(Elves)
=============================================================================
