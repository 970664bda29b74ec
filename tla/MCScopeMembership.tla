-------------------------- MODULE MCScopeMembership --------------------------
(***************************************************************************)
(* Small instances of ScopeMembership for TLC: bounds on the changes and   *)
(* mishaps, and the symmetries of ids, requests and workers.               *)
(***************************************************************************)
EXTENDS ScopeMembership, TLC

CONSTANTS c1, c2, w1, w2, r1, r2, r3, k1, k2

UpTo(n, mishaps) ==
  [e \in Events |-> IF e = "change" THEN n ELSE IF e \in mishaps THEN 1 ELSE 0]

TwoChanges       == UpTo(2, {})
ThreeChanges     == UpTo(3, {})
FaultyTwo        == UpTo(2, {"crash", "failure"})
UnreliableTwo    == UpTo(2, {"stall", "crash", "abandon"})
StallOnce        == UpTo(1, {"stall"})
CrashOnce        == UpTo(1, {"crash"})

Symmetric == Permutations({c1, c2}) \cup Permutations({w1, w2})
             \cup Permutations({r1, r2, r3}) \cup Permutations({k1, k2})
=============================================================================
