--------------------------- MODULE MCDeriverQueue ---------------------------
(***************************************************************************)
(* Small instances of DeriverQueue for TLC: which unit an item is filed    *)
(* under, how many mishaps a run has, and the symmetries.                  *)
(***************************************************************************)
EXTENDS DeriverQueue, TLC

CONSTANTS repr, summ, i1, i2, c1, c2, c3

\* Filings of the items.
AllRepr == [i \in Items |-> repr]
AllSumm == [i \in Items |-> summ]
OneEach == [i \in Items |-> IF i = 2 THEN summ ELSE repr]

\* Bounds on the mishaps.
AtMostOne(kinds) == [m \in Mishaps |-> IF m \in kinds THEN 1 ELSE 0]
NoMishap  == AtMostOne({})
Faults    == AtMostOne({"fault"})
Stops     == AtMostOne({"stop"})
Crashes   == AtMostOne({"crash", "fault"})
StallCrash == AtMostOne({"stall", "crash"})
Takeovers == AtMostOne({"stall", "stop", "crash"})

\* Processes are alike and claim ids are only compared.
Symmetric == Permutations({c1, c2}) \cup Permutations({i1, i2})

=============================================================================
