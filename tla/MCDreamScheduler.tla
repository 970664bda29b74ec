-------------------------- MODULE MCDreamScheduler --------------------------
(***************************************************************************)
(* Small instances of DreamScheduler for TLC: the tasks of each process,   *)
(* and what may go wrong.                                                  *)
(***************************************************************************)
EXTENDS DreamScheduler

CONSTANTS p, q, s1, s2, s3, m1, m2, m3, m4, c

TwoAndOne == [t \in Tasks |-> IF t = s3 THEN q ELSE p]
OneEach   == [t \in Tasks |-> IF t = s1 THEN p ELSE q]

\* At most one of each kind, and n in all.
UpTo(n, kinds) == [e \in Bounds |-> IF e = "any" THEN n ELSE IF e \in kinds THEN 1 ELSE 0]
AnyOne  == UpTo(1, Events)
AnyTwo  == UpTo(2, Events)
Nothing == UpTo(0, {})
=============================================================================
