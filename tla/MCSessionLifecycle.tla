------------------------- MODULE MCSessionLifecycle -------------------------
(***************************************************************************)
(* Small instances of SessionLifecycle for TLC.  Requests are alike, so    *)
(* one order of each mix of operations is enough.  An update meets a       *)
(* deletion as a configuration does, and is left out of the mixes that     *)
(* have one.  Next to a post and a deletion, the third request is a read   *)
(* or another post: the race of two posts with a deletion.                 *)
(***************************************************************************)
EXTENDS SessionLifecycle, Functions, TLC

CONSTANTS r1, r2, r3

InOrder == <<"read", "configure", "update", "post", "delete">>

AnyThree ==
  {mix \in
     {[r \in Requests |-> InOrder[IF r = r1 THEN m[1] ELSE IF r = r2 THEN m[2] ELSE m[3]]] :
        m \in {n \in [1 .. 3 -> 1 .. 5] : n[1] <= n[2] /\ n[2] <= n[3]}} :
     /\ ~ {"update", "delete"} \subseteq Range(mix)
     /\ {"post", "delete"} \subseteq Range(mix) =>
          Cardinality({r \in Requests : mix[r] \in {"post", "read"}}) = 2}
=============================================================================
