--------------------------- MODULE QueueContract ---------------------------
(***************************************************************************)
(* What the deriver queue promises the code that files work into it, with  *)
(* no processes, claims, batches or retries: an item that was filed is     *)
(* handled at least once or given up with an error, and is settled as      *)
(* successful only after a handler completed it.                           *)
(***************************************************************************)
EXTENDS Naturals

CONSTANT Items   \* what may be filed

VARIABLES
  status,   \* absent, pending, done, errored or deleted
  handled   \* items a handler has completed at least once

cvars == <<status, handled>>

File(i) ==
  /\ status[i] = "absent"
  /\ status' = [status EXCEPT ![i] = "pending"]
  /\ UNCHANGED handled

\* A handler may complete an item more than once, and again after it was
\* settled: at least once, never exactly once.
Handle(S) ==
  /\ \A i \in S : status[i] # "absent"
  /\ handled' = handled \cup S
  /\ UNCHANGED status

Settle(S) ==
  /\ S \subseteq handled
  /\ status' = [i \in Items |-> IF i \in S /\ status[i] = "pending"
                                THEN "done" ELSE status[i]]
  /\ UNCHANGED handled

\* An error may be recorded over an earlier success, by a handler that was
\* still running when another one succeeded.
GiveUp(i) ==
  /\ status[i] \in {"pending", "done"}
  /\ status' = [status EXCEPT ![i] = "errored"]
  /\ UNCHANGED handled

Forget(S) ==
  /\ \A i \in S : status[i] \in {"done", "errored"}
  /\ status' = [i \in Items |-> IF i \in S THEN "deleted" ELSE status[i]]
  /\ UNCHANGED handled

CInit == status = [i \in Items |-> "absent"] /\ handled = {}

CNext ==
  \/ \E i \in Items : File(i) \/ GiveUp(i)
  \/ \E S \in SUBSET Items : Handle(S) \/ Settle(S) \/ Forget(S)

CSpec == CInit /\ [][CNext]_cvars

\* An item that was filed is settled at some time.
CLive == \A i \in Items : status[i] = "pending" ~> status[i] # "pending"

=============================================================================
