---------------------------- MODULE MCConclusions ----------------------------
(***************************************************************************)
(* A small instance of Conclusions for TLC: two near facts of which one is *)
(* richer, and every batch of up to two documents about them.              *)
(***************************************************************************)
EXTENDS Conclusions, TLC

CONSTANTS f, g, w1, w2, x, y

BothWays == {<<f, g>>, <<g, f>>}
GOverF == {<<g, f>>}
Alike == Permutations({w1, w2}) \cup Permutations({x, y})
UpToTwo == UNION {[1 .. n -> Facts] : n \in 1 .. 2}
=============================================================================
