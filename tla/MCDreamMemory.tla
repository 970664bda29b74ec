---------------------------- MODULE MCDreamMemory ----------------------------
(***************************************************************************)
(* Small instances of DreamMemory for TLC: what may happen besides the     *)
(* saving of conclusions and the dreams themselves.                        *)
(***************************************************************************)
EXTENDS DreamMemory, TLC

CONSTANTS t1, t2

\* At most one of each kind, and n in all.
UpTo(n, kinds) == [e \in Bounds |-> IF e = "any" THEN n ELSE IF e \in kinds THEN 1 ELSE 0]

AnyTwo    == UpTo(2, Events)
AnyOne    == UpTo(1, Events)
AnyThree  == UpTo(3, Events)
CrashOnce == UpTo(1, {"crash"})
OutageOff == UpTo(2, {"outage", "toggle"})

Symmetric == Permutations({t1, t2})
=============================================================================
