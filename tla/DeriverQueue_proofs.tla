------------------------ MODULE DeriverQueue_proofs ------------------------
(***************************************************************************)
(* Theorems about DeriverQueue, for every value of its constants.          *)
(***************************************************************************)
EXTENDS DeriverQueue, FiniteSetTheorems, WellFoundedInduction, TLAPS

USE DEF Mishaps, Jobs

-----------------------------------------------------------------------------
(* The oldest row. *)

LEMMA LeastNat ==
  ASSUME NEW S \in SUBSET Nat, S # {}
  PROVE  \E x \in S : \A y \in S : x <= y
<1>1. PICK x \in S : \A y \in S : ~ (<<y, x>> \in OpToRel(<, Nat))
  BY NatLessThanWellFounded, WFMin
<1>2. \A y \in S : ~ (y < x)
  BY <1>1 DEF OpToRel
<1> QED BY <1>2

\* A work unit with unprocessed rows has an oldest one.
LEMMA OldestExists ==
  ASSUME TypeOK, NEW k, Pending(k) # {}
  PROVE  \E i \in Pending(k) : IsOldest(i, k)
<1> DEFINE ids == {qid[i] : i \in Pending(k)}
<1>1. ids \in SUBSET Nat /\ ids # {}
  BY DEF TypeOK, Pending
<1>2. PICK n \in ids : \A m \in ids : n <= m
  BY <1>1, LeastNat
<1>3. PICK i \in Pending(k) : qid[i] = n
  OBVIOUS
<1> QED BY <1>2, <1>3 DEF IsOldest

-----------------------------------------------------------------------------
(* Types. *)

LEMMA JobUpdates ==
  ASSUME NEW j \in Jobs, NEW S \in SUBSET Items, NEW a \in 0..(MaxAttempts - 1)
  PROVE  /\ [j EXCEPT !.att = a] \in Jobs
         /\ [j EXCEPT !.items = S, !.att = a] \in Jobs
  OBVIOUS

LEMMA TypeInit == Init => TypeOK
  BY QueueAssumption
  DEF Init, TypeOK, Statuses, Pcs, Body, NoJob, NoPoll, Tasks

LEMMA TypeRows ==
  ASSUME TypeOK, (\E i \in Items : Insert(i) \/ Commit(i)) \/ CleanupQueueItems
  PROVE  TypeOK'
<1> USE DEF TypeOK, Statuses, claimVars, taskVars, history
<1>1. ASSUME NEW i \in Items, Insert(i) PROVE TypeOK'
  BY <1>1 DEF Insert
<1>2. ASSUME NEW i \in Items, Commit(i) PROVE TypeOK'
  BY <1>2 DEF Commit
<1>3. ASSUME CleanupQueueItems PROVE TypeOK'
  BY <1>3 DEF CleanupQueueItems
<1> QED BY <1>1, <1>2, <1>3

LEMMA TypePoll ==
  ASSUME TypeOK, NEW i \in Instances,
         \/ \E k \in Keys : PollSelect(i, k)
         \/ PollClaim(i) \/ PollStart(i) \/ CleanupStale(i)
  PROVE  TypeOK'
<1>1. ASSUME NEW k \in Keys, PollSelect(i, k) PROVE TypeOK'
  <2>1. PICK S \in SUBSET Keys : poll' = [poll EXCEPT ![i].keys = S]
    BY <1>1, QueueAssumption DEF PollSelect, FirstUnits
  <2>2. poll' \in [Instances -> [keys : SUBSET Keys, claims : SUBSET (Keys \X ClaimIds)]]
    BY <2>1, SMTT(60) DEF TypeOK
  <2> QED BY <1>1, <2>2
          DEF PollSelect, TypeOK, rowVars, claimVars, taskVars, history
<1>2. ASSUME PollClaim(i) PROVE TypeOK'
  BY <1>2 DEF PollClaim, Won, Returned, TypeOK, rowVars, taskVars, history
<1>3. ASSUME PollStart(i) PROVE TypeOK'
  <2>1. poll' \in [Instances -> [keys : SUBSET Keys, claims : SUBSET (Keys \X ClaimIds)]]
    BY <1>3 DEF PollStart, NoPoll, TypeOK
  <2>2. CASE proc[i] # "up"
    BY <1>3, <2>1, <2>2 DEF PollStart, TypeOK, rowVars, claimVars, taskVars, history
  <2>3. CASE proc[i] = "up"
    <3>1. PICK T \in SUBSET FreeTasks(i) : \E claim \in Bijection(T, poll[i].claims) :
            /\ pc' = [u \in Tasks |-> IF u \in T THEN "start" ELSE pc[u]]
            /\ job' = [u \in Tasks |-> IF u \in T THEN NewJob(claim[u]) ELSE job[u]]
            /\ owned' = owned \cup T
            /\ UNCHANGED worked
      BY <1>3, <2>3 DEF PollStart
    <3>2. PICK claim \in [T -> poll[i].claims] :
            /\ pc' = [u \in Tasks |-> IF u \in T THEN "start" ELSE pc[u]]
            /\ job' = [u \in Tasks |-> IF u \in T THEN NewJob(claim[u]) ELSE job[u]]
            /\ owned' = owned \cup T
            /\ UNCHANGED worked
      BY <3>1 DEF Bijection, Injection
    <3>3. \A u \in T : NewJob(claim[u]) \in [key : Keys, claim : ClaimIds, items : SUBSET Items, att : {0}]
      BY <3>2 DEF TypeOK, NewJob
    <3>4. job' \in [Tasks -> Jobs]
      BY <3>2, <3>3, QueueAssumption DEF TypeOK
    <3> QED BY <1>3, <2>1, <3>2, <3>4 DEF PollStart, FreeTasks, TasksOf, Tasks, TypeOK, Pcs,
            rowVars, claimVars, history
  <2> QED BY <2>2, <2>3
<1>4. ASSUME CleanupStale(i) PROVE TypeOK'
  BY <1>4 DEF CleanupStale, StaleUnits, TypeOK, rowVars, taskVars, history
<1> QED BY <1>1, <1>2, <1>3, <1>4

LEMMA TypeTask ==
  ASSUME TypeOK, NEW t \in Tasks, TaskStep(t)
  PROVE  TypeOK'
<1> USE DEF TypeOK, Goto, Statuses, Pcs, Body, rowVars, claimVars, taskVars, history
<1>0. t[1] \in Instances
  BY DEF Tasks
<1>1. ASSUME Acquire(t) PROVE TypeOK'
  BY <1>1 DEF Acquire
<1>2. ASSUME Leave(t) PROVE TypeOK'
  BY <1>2 DEF Leave
<1>3. ASSUME Fetch(t) PROVE TypeOK'
  <2>1. PICK batch \in Fetched(t) :
          /\ job' = [job EXCEPT ![t] = [@ EXCEPT !.items = batch, !.att = 0]]
          /\ pc' = [pc EXCEPT ![t] = IF batch = {} THEN "release" ELSE "work"]
    BY <1>3 DEF Fetch
  <2>2. batch \subseteq Items
    BY <2>1 DEF Fetched, Pending
  <2>3. 0 \in 0..(MaxAttempts - 1)
    BY QueueAssumption
  <2>4. job' \in [Tasks -> Jobs]
    <3>1. [job[t] EXCEPT !.items = batch, !.att = 0] \in Jobs
      <4>1. job[t] \in Jobs
        OBVIOUS
      <4> HIDE DEF TypeOK
      <4> QED BY <2>2, <2>3, <4>1, JobUpdates
    <3> QED BY <2>1, <3>1
  <2>5. pc' \in [Tasks -> Pcs]
    BY <2>1
  <2> QED BY <1>3, <2>4, <2>5 DEF Fetch
<1>4. ASSUME HandlerReturns(t) PROVE TypeOK'
  BY <1>4 DEF HandlerReturns
<1>5. ASSUME HandlerRaises(t) PROVE TypeOK'
  BY <1>5 DEF HandlerRaises, AfterError
<1>6. ASSUME MarkProcessed(t) PROVE TypeOK'
  BY <1>6 DEF MarkProcessed, Touch
<1>7. ASSUME ReadAttempts(t) PROVE TypeOK'
  <2>1. CASE MayRetry(Charged(t))
    <3>1. Counter(job[t].key) \in Nat
      <4>1. CASE Pending(job[t].key) = {}
        BY <4>1 DEF Counter
      <4>2. CASE Pending(job[t].key) # {}
        <5> DEFINE i == CHOOSE i \in Pending(job[t].key) : IsOldest(i, job[t].key)
        <5>1. i \in Items
          BY <4>2, OldestExists DEF Pending
        <5>2. \A j \in Items : attempts[j] \in Nat
          BY QueueAssumption
        <5> QED BY <4>2, <5>1, <5>2 DEF Counter
      <4> QED BY <4>1, <4>2
    <3>2. Charged(t) \in 0..(MaxAttempts - 1)
      BY <2>1, <3>1, QueueAssumption DEF Charged, MayRetry
    <3>3. [job[t] EXCEPT !.att = Charged(t)] \in Jobs
      <4>1. job[t] \in Jobs
        OBVIOUS
      <4> HIDE DEF TypeOK, Jobs
      <4> QED BY <3>2, <4>1, JobUpdates
    <3>4. /\ pc' = [pc EXCEPT ![t] = "count"]
          /\ job' = [job EXCEPT ![t] = [@ EXCEPT !.att = Charged(t)]]
          /\ UNCHANGED <<rowVars, claimVars, proc, poll, owned, worked, left, history>>
      <4> HIDE DEF TypeOK, Jobs, Statuses, Pcs, rowVars, claimVars
      <4> QED BY <1>7, <2>1, Zenon DEF ReadAttempts
    <3>5. job' \in [Tasks -> Jobs]
      BY <3>3, <3>4
    <3> QED BY <3>4, <3>5
  <2>2. CASE ~MayRetry(Charged(t))
    BY <1>7, <2>2 DEF ReadAttempts
  <2> QED BY <2>1, <2>2
<1>8. ASSUME SetAttempts(t) PROVE TypeOK'
  BY <1>8 DEF SetAttempts
<1>9. ASSUME MarkErrored(t) PROVE TypeOK'
  BY <1>9 DEF MarkErrored, Touch
<1>10. ASSUME ClearAttempts(t) PROVE TypeOK'
  <2>1. 0 \in 0..(MaxAttempts - 1)
    BY QueueAssumption
  <2> QED BY <1>10, <2>1 DEF ClearAttempts
<1>11. ASSUME Release(t) PROVE TypeOK'
  <2>1. NoJob \in Jobs
    BY QueueAssumption DEF NoJob
  <2>2. job' \in [Tasks -> Jobs]
    BY <1>11, <2>1 DEF Release
  <2>3. aqs' \in [Keys -> ClaimIds \cup {NoClaim}] /\ stale' \subseteq Keys
    BY <1>11 DEF Release
  <2> QED BY <1>11, <2>2, <2>3 DEF Release
<1>12. ASSUME Announce(t) PROVE TypeOK'
  <2>1. NoJob \in Jobs
    BY QueueAssumption DEF NoJob
  <2> QED BY <1>12, <2>1 DEF Announce
<1> QED BY <1>1, <1>2, <1>3, <1>4, <1>5, <1>6, <1>7, <1>8, <1>9, <1>10, <1>11, <1>12
        DEF TaskStep, Handler

LEMMA TypeFault ==
  ASSUME TypeOK, NEW t \in Tasks, TaskFault(t)
  PROVE  TypeOK'
<1> USE DEF TypeOK, Goto, Spend, Statuses, Pcs, Body, rowVars, claimVars, taskVars, history
<1>1. ASSUME MarkFails(t) PROVE TypeOK'
  BY <1>1 DEF MarkFails, AfterError
<1>2. ASSUME ErrorPathFails(t) PROVE TypeOK'
  BY <1>2 DEF ErrorPathFails
<1>3. ASSUME ReleaseFails(t) PROVE TypeOK'
  <2>1. 0 \in 0..(MaxAttempts - 1)
    BY QueueAssumption
  <2>2. job' \in [Tasks -> Jobs]
    <3>1. [job[t] EXCEPT !.items = {}, !.att = 0] \in Jobs
      <4>1. job[t] \in Jobs
        OBVIOUS
      <4> HIDE DEF TypeOK
      <4> QED BY <2>1, <4>1, JobUpdates
    <3> QED BY <1>3, <3>1 DEF ReleaseFails
  <2>3. pc' \in [Tasks -> Pcs]
    BY <1>3 DEF ReleaseFails
  <2> QED BY <1>3, <2>2, <2>3 DEF ReleaseFails
<1> QED BY <1>1, <1>2, <1>3 DEF TaskFault

LEMMA TypeProcess ==
  ASSUME TypeOK, NEW i \in Instances,
         Signal(i) \/ StopCleanup(i) \/ Exit(i) \/ Crash(i) \/ Restart(i)
  PROVE  TypeOK'
<1> USE DEF TypeOK, Spend, rowVars, claimVars, taskVars, history
<1>1. ASSUME Signal(i) PROVE TypeOK'
  BY <1>1 DEF Signal
<1>2. ASSUME StopCleanup(i) PROVE TypeOK'
  <2> DEFINE mine == {job[t].claim : t \in owned \cap TasksOf(i)}
  <2> DEFINE gone == {k \in Keys : aqs[k] \in mine \ {NoClaim}}
  <2>3. \/ /\ aqs' = [k \in Keys |-> IF k \in gone THEN NoClaim ELSE aqs[k]]
           /\ stale' = stale \ gone
           /\ UNCHANGED left
        \/ Spend("fault") /\ UNCHANGED claimVars
    BY <1>2, Zenon DEF StopCleanup
  <2> HIDE DEF gone
  <2>1. aqs' \in [Keys -> ClaimIds \cup {NoClaim}] /\ stale' \subseteq Keys
        /\ left' \in [Mishaps -> Nat]
    BY <2>3
  <2>2. proc' \in [Instances -> {"up", "stopping", "stopped", "down"}]
        /\ owned' \subseteq Tasks
        /\ UNCHANGED <<rowVars, poll, pc, job, worked, history>>
    BY <1>2 DEF StopCleanup
  <2> QED BY <2>1, <2>2
<1>3. ASSUME Vanish(i), left' \in [Mishaps -> Nat] PROVE TypeOK'
  <2>1. NoJob \in Jobs
    BY QueueAssumption DEF NoJob
  <2> QED BY <1>3, <2>1 DEF Vanish, NoPoll, Pcs
<1>4. ASSUME Restart(i) PROVE TypeOK'
  BY <1>4 DEF Restart
<1> QED BY <1>1, <1>2, <1>3, <1>4 DEF Exit, Crash

LEMMA TypeExpire ==
  ASSUME TypeOK, NEW k \in Keys, Expire(k)
  PROVE  TypeOK'
  BY DEF TypeOK, Expire, Spend, rowVars, taskVars, history

\* Every variable keeps its type, for all processes, work units, budgets.
THEOREM TypeCorrect == Spec => []TypeOK
<1>1. TypeOK /\ [Next]_vars => TypeOK'
  <2> SUFFICES ASSUME TypeOK, [Next]_vars PROVE TypeOK'
    OBVIOUS
  <2>1. CASE UNCHANGED vars
    BY <2>1 DEF TypeOK, vars
  <2>2. CASE Next
    BY <2>2, TypeRows, TypePoll, TypeTask, TypeFault, TypeProcess, TypeExpire DEF Next
  <2> QED BY <2>1, <2>2
<1> QED BY TypeInit, <1>1, PTL DEF Spec

-----------------------------------------------------------------------------
(* No row is marked processed without its handler: the task that is about  *)
(* to mark a batch has completed all of it.                                *)

MarkInv == \A t \in Tasks : pc[t] = "mark" => job[t].items \subseteq handled

DropInv == TypeOK /\ MarkInv /\ NoSilentDrop

LEMMA DropInit == Init => DropInv
  BY TypeInit DEF Init, DropInv, MarkInv, NoSilentDrop

\* Steps that complete no item, set no row to done and bring no task to its mark.
LEMMA DropFrame ==
  ASSUME DropInv, TypeOK',
         handled' = handled,
         \A i \in Items : status'[i] = "done" => status[i] = "done",
         \A t \in Tasks : pc'[t] = "mark" => pc[t] = "mark" /\ job'[t].items = job[t].items
  PROVE  DropInv'
  BY DEF DropInv, MarkInv, NoSilentDrop

LEMMA DropTask ==
  ASSUME DropInv, TypeOK', NEW t \in Tasks, TaskStep(t) \/ TaskFault(t)
  PROVE  DropInv'
<1> USE DEF Goto, rowVars, history
<1>0. /\ pc \in [Tasks -> Pcs] /\ job \in [Tasks -> Jobs] /\ status \in [Items -> Statuses]
      /\ TypeOK
  BY DEF DropInv, TypeOK
<1> HIDE DEF Jobs
<1>1. CASE Acquire(t) \/ Leave(t) \/ HandlerRaises(t) \/ MarkFails(t)
           \/ ErrorPathFails(t) \/ Announce(t) \/ ReleaseFails(t)
  BY <1>0, <1>1, DropFrame
  DEF Acquire, Leave, HandlerRaises, AfterError, MarkFails, ErrorPathFails, Announce,
      ReleaseFails
<1>2. CASE Fetch(t) \/ ReadAttempts(t) \/ Release(t)
  BY <1>0, <1>2, DropFrame DEF Fetch, ReadAttempts, Release
<1>3. CASE SetAttempts(t) \/ ClearAttempts(t)
  BY <1>0, <1>3, DropFrame DEF SetAttempts, ClearAttempts
<1>4. CASE MarkErrored(t)
  BY <1>0, <1>4, DropFrame DEF MarkErrored
<1>5. CASE HandlerReturns(t)
  <2>1. MarkInv'
    BY <1>0, <1>5 DEF HandlerReturns, DropInv, MarkInv
  <2>2. NoSilentDrop'
    BY <1>5 DEF HandlerReturns, DropInv, NoSilentDrop
  <2> QED BY <2>1, <2>2 DEF DropInv
<1>6. CASE MarkProcessed(t)
  <2>1. MarkInv'
    BY <1>0, <1>6 DEF MarkProcessed, DropInv, MarkInv
  <2>2. NoSilentDrop'
    <3> SUFFICES ASSUME NEW i \in Items, status'[i] = "done" PROVE i \in handled'
      BY DEF NoSilentDrop
    <3>1. CASE i \in Marked(t)
      BY <1>0, <1>6, <3>1 DEF MarkProcessed, Marked, DropInv, MarkInv
    <3>2. CASE i \notin Marked(t)
      BY <1>6, <3>2 DEF MarkProcessed, DropInv, NoSilentDrop
    <3> QED BY <3>1, <3>2
  <2> QED BY <2>1, <2>2 DEF DropInv
<1> QED BY <1>1, <1>2, <1>3, <1>4, <1>5, <1>6 DEF TaskStep, Handler, TaskFault

LEMMA DropOthers ==
  ASSUME DropInv, TypeOK', Next,
         ~ \E t \in Tasks : TaskStep(t) \/ TaskFault(t)
  PROVE  DropInv'
<1> USE DEF rowVars, taskVars, history
<1>0. /\ pc \in [Tasks -> Pcs] /\ job \in [Tasks -> Jobs] /\ status \in [Items -> Statuses]
  BY DEF DropInv, TypeOK
<1>1. ASSUME NEW i \in Items, Insert(i) \/ Commit(i) PROVE DropInv'
  BY <1>0, <1>1, DropFrame DEF Insert, Commit
<1>2. CASE CleanupQueueItems
  BY <1>0, <1>2, DropFrame DEF CleanupQueueItems
<1>3. ASSUME NEW i \in Instances, NEW k \in Keys, PollSelect(i, k) PROVE DropInv'
  BY <1>3, DropFrame DEF PollSelect
<1>4. ASSUME NEW i \in Instances, PollClaim(i) \/ CleanupStale(i) PROVE DropInv'
  BY <1>4, DropFrame DEF PollClaim, CleanupStale
<1>5. ASSUME NEW i \in Instances, PollStart(i) PROVE DropInv'
  BY <1>5, DropFrame DEF PollStart
<1>6. ASSUME NEW k \in Keys, Expire(k) PROVE DropInv'
  BY <1>6, DropFrame DEF Expire
<1>7. ASSUME NEW i \in Instances, Signal(i) \/ StopCleanup(i) \/ Restart(i) PROVE DropInv'
  BY <1>7, DropFrame DEF Signal, StopCleanup, Restart
<1>8. ASSUME NEW i \in Instances, Exit(i) \/ Crash(i) PROVE DropInv'
  BY <1>8, DropFrame DEF Exit, Crash, Vanish
<1> QED BY <1>1, <1>2, <1>3, <1>4, <1>5, <1>6, <1>7, <1>8 DEF Next

LEMMA DropInvHolds == Spec => []DropInv
<1>1. DropInv /\ TypeOK' /\ [Next]_vars => DropInv'
  <2> SUFFICES ASSUME DropInv, TypeOK', [Next]_vars PROVE DropInv'
    OBVIOUS
  <2>1. CASE UNCHANGED vars
    BY <2>1 DEF DropInv, MarkInv, NoSilentDrop, vars
  <2>2. CASE Next
    BY <2>2, DropTask, DropOthers
  <2> QED BY <2>1, <2>2
<1> QED BY DropInit, <1>1, TypeCorrect, PTL DEF Spec

\* No row becomes done that no handler completed, whatever the takeovers,
\* crashes, stops and failed transactions.
THEOREM NoSilentDropHolds == Spec => []NoSilentDrop
  BY DropInvHolds, PTL DEF DropInv

-----------------------------------------------------------------------------
(* Rows: ids are distinct and below the next one, a row that is not filed  *)
(* has no attempts, and what was filed before a row has a smaller id.      *)

Unfiled(i) == status[i] \in {"absent", "filing"}

RowInv ==
  \A i \in Items :
    /\ Unfiled(i) => attempts[i] = 0
    /\ status[i] # "absent" => qid[i] < nextId
    /\ \A j \in before[i] : ~Unfiled(j) /\ status[i] # "absent" /\ qid[j] < qid[i]
    /\ \A j \in Items :
         i # j /\ status[i] # "absent" /\ status[j] # "absent" => qid[i] # qid[j]

\* What a task fetched is filed and belongs to its work unit.
ItemInv ==
  \A t \in Tasks : \A i \in job[t].items : KeyOf[i] = job[t].key /\ ~Unfiled(i)

\* An item fetched on its own has nothing unprocessed that was filed before it.
FetchInv ==
  \A t \in Tasks : \A i \in job[t].items : \A j \in before[i] :
    job[t].key \notin BatchKeys /\ KeyOf[j] = KeyOf[i] => status[j] # "pending"

OrderInv == RowInv /\ ItemInv /\ FetchInv /\ SettledInOrder

LEMMA OrderInit == Init => OrderInv
  BY DEF Init, OrderInv, RowInv, Unfiled, ItemInv, FetchInv, SettledInOrder, NoJob

\* Steps that fetch nothing and, of the rows, settle only fetched ones or
\* delete settled ones.
LEMMA OrderFrame ==
  ASSUME TypeOK, OrderInv,
         UNCHANGED <<qid, nextId, before>>,
         \A i \in Items :
           \/ status'[i] = status[i]
           \/ status'[i] = "deleted" /\ status[i] \in {"done", "errored"}
           \/ status'[i] \in {"done", "errored"} /\ \E t \in Tasks : i \in job[t].items,
         \A i \in Items : Unfiled(i) => attempts'[i] = attempts[i],
         \A t \in Tasks : \/ job'[t].items = {}
                          \/ job'[t].items = job[t].items /\ job'[t].key = job[t].key
  PROVE  OrderInv'
<1>0. \A i \in Items : /\ Unfiled(i)' <=> Unfiled(i)
                       /\ status'[i] = "absent" <=> status[i] = "absent"
  BY DEF OrderInv, ItemInv, Unfiled
<1>1. RowInv'
  <2> SUFFICES ASSUME NEW i \in Items
               PROVE  /\ Unfiled(i)' => attempts'[i] = 0
                      /\ status'[i] # "absent" => qid[i] < nextId
                      /\ \A j \in before[i] :
                           ~Unfiled(j)' /\ status'[i] # "absent" /\ qid[j] < qid[i]
                      /\ \A j \in Items :
                           i # j /\ status'[i] # "absent" /\ status'[j] # "absent"
                             => qid[i] # qid[j]
    BY DEF RowInv
  <2>1. before[i] \subseteq Items
    BY DEF TypeOK
  <2> HIDE DEF Unfiled
  <2> QED BY <1>0, <2>1 DEF OrderInv, RowInv
<1>2. ItemInv'
  BY DEF OrderInv, ItemInv, Unfiled, TypeOK
<1>3. FetchInv'
  BY DEF OrderInv, FetchInv, TypeOK
<1>4. SettledInOrder'
  <2> SUFFICES ASSUME NEW i \in Items, NEW j \in before[i],
                      KeyOf[j] = KeyOf[i], KeyOf[j] \notin BatchKeys,
                      status'[i] \in {"done", "errored", "deleted"}, status'[j] = "pending"
               PROVE  FALSE
    BY DEF SettledInOrder
  <2>0. j \in Items /\ status[j] = "pending"
    BY DEF TypeOK
  <2>1. CASE status[i] \in {"done", "errored", "deleted"}
    BY <2>0, <2>1 DEF OrderInv, SettledInOrder
  <2>2. CASE \E t \in Tasks : i \in job[t].items
    BY <2>0, <2>2 DEF OrderInv, ItemInv, FetchInv
  <2> QED BY <2>1, <2>2
<1> QED BY <1>1, <1>2, <1>3, <1>4 DEF OrderInv

LEMMA OrderFrameRows ==
  ASSUME TypeOK, OrderInv, UNCHANGED <<rowVars, before>>,
         \A t \in Tasks : \/ job'[t].items = {}
                          \/ job'[t].items = job[t].items /\ job'[t].key = job[t].key
  PROVE  OrderInv'
  BY OrderFrame DEF rowVars

LEMMA OrderRows ==
  ASSUME TypeOK, OrderInv, NEW i \in Items, Insert(i) \/ Commit(i)
  PROVE  OrderInv'
<1> USE DEF Unfiled
<1>1. CASE Insert(i)
  <2>1. RowInv'
    BY <1>1 DEF Insert, OrderInv, RowInv, TypeOK
  <2>2. ItemInv'
    BY <1>1 DEF Insert, OrderInv, ItemInv, TypeOK, taskVars, Jobs
  <2>3. FetchInv'
    BY <1>1 DEF Insert, OrderInv, ItemInv, FetchInv, TypeOK, taskVars, Jobs
  <2>4. SettledInOrder'
    BY <1>1 DEF Insert, OrderInv, SettledInOrder, TypeOK
  <2> QED BY <2>1, <2>2, <2>3, <2>4 DEF OrderInv
<1>2. CASE Commit(i)
  <2>0. \A j \in Items : i \notin before[j]
    BY <1>2 DEF Commit, OrderInv, RowInv
  <2>5. /\ UNCHANGED <<qid, nextId, attempts, job, before>>
        /\ \A j \in Items : status'[j] = IF j = i THEN "pending" ELSE status[j]
        /\ status[i] = "filing"
    BY <1>2 DEF Commit, TypeOK, taskVars, history
  <2>6. \A j \in Items : before[j] \subseteq Items
    BY DEF TypeOK
  <2>7. \A t \in Tasks : job[t].items \subseteq Items
    BY DEF TypeOK, Jobs
  <2>1. RowInv'
    BY <2>5, <2>6 DEF OrderInv, RowInv
  <2>2. ItemInv'
    BY <2>5, <2>7 DEF OrderInv, ItemInv
  <2>3. FetchInv'
    BY <2>0, <2>5, <2>6, <2>7 DEF OrderInv, FetchInv
  <2>4. SettledInOrder'
    BY <2>0, <2>5, <2>6 DEF OrderInv, SettledInOrder
  <2> QED BY <2>1, <2>2, <2>3, <2>4 DEF OrderInv
<1> QED BY <1>1, <1>2

\* The one row an unbatched task fetches is older than every other one.
LEMMA OrderFetch ==
  ASSUME TypeOK, OrderInv, NEW t \in Tasks, Fetch(t)
  PROVE  OrderInv'
<1>1. PICK batch \in Fetched(t) :
        job' = [job EXCEPT ![t] = [job[t] EXCEPT !.items = batch, !.att = 0]]
  BY DEF Fetch
<1>2. UNCHANGED <<rowVars, before>>
  BY DEF Fetch, history
<1>3. \A u \in Tasks : job'[u].key = job[u].key
      /\ job'[u].items = IF u = t THEN batch ELSE job[u].items
  BY <1>1 DEF TypeOK
<1>4. batch \subseteq Pending(job[t].key)
  BY <1>1 DEF Fetched
<1>5. \A i \in batch : job[t].key \notin BatchKeys => IsOldest(i, job[t].key)
  BY <1>1 DEF Fetched
<1>6. RowInv' /\ SettledInOrder'
  BY <1>2 DEF OrderInv, RowInv, SettledInOrder, Unfiled, rowVars
<1>7. ItemInv'
  BY <1>2, <1>3, <1>4 DEF OrderInv, ItemInv, Unfiled, rowVars, Pending
<1>8. FetchInv'
  <2> SUFFICES ASSUME NEW u \in Tasks, NEW i \in job'[u].items, NEW j \in before[i],
                      job'[u].key \notin BatchKeys, KeyOf[j] = KeyOf[i],
                      status[j] = "pending"
               PROVE  FALSE
    BY <1>2 DEF FetchInv, rowVars
  <2>1. CASE u # t
    BY <1>3, <2>1 DEF OrderInv, FetchInv
  <2>2. CASE u = t
    <3>1. i \in Items /\ j \in Items /\ KeyOf[i] = job[t].key /\ IsOldest(i, job[t].key)
      BY <1>3, <1>4, <1>5, <2>2 DEF Pending, TypeOK
    <3>2. j \in Pending(job[t].key)
      BY <3>1 DEF Pending
    <3>3. qid[i] <= qid[j] /\ qid[j] < qid[i]
      BY <3>1, <3>2 DEF IsOldest, OrderInv, RowInv
    <3> QED BY <3>1, <3>3 DEF TypeOK
  <2> QED BY <2>1, <2>2
<1> QED BY <1>6, <1>7, <1>8 DEF OrderInv

LEMMA OrderTask ==
  ASSUME TypeOK, OrderInv, NEW t \in Tasks, TaskStep(t) \/ TaskFault(t)
  PROVE  OrderInv'
<1> USE DEF Goto, rowVars, history, Jobs
<1>0. job \in [Tasks -> Jobs] /\ status \in [Items -> Statuses]
  BY DEF TypeOK
<1>1. CASE Acquire(t) \/ Leave(t) \/ HandlerReturns(t) \/ HandlerRaises(t)
           \/ MarkFails(t) \/ ErrorPathFails(t)
  BY <1>0, <1>1, OrderFrame
  DEF Acquire, Leave, HandlerReturns, HandlerRaises, MarkFails, ErrorPathFails
<1>2. CASE Fetch(t)
  BY <1>2, OrderFetch
<1>3. CASE MarkProcessed(t)
  BY <1>0, <1>3, OrderFrame DEF MarkProcessed, Marked
<1>4. CASE MarkErrored(t)
  BY <1>0, <1>4, OrderFrame DEF MarkErrored, IsHead
<1>5. CASE ReadAttempts(t)
  <2>1. job' = job \/ job' = [job EXCEPT ![t] = [job[t] EXCEPT !.att = Charged(t)]]
    BY <1>5 DEF ReadAttempts
  <2>2. \A u \in Tasks : job'[u].key = job[u].key /\ job'[u].items = job[u].items
    BY <1>0, <2>1
  <2> QED BY <1>5, <2>2, OrderFrame DEF ReadAttempts
<1>6. CASE SetAttempts(t)
  BY <1>6, OrderFrame DEF SetAttempts, CountedOn, IsOldest, Pending, Unfiled
<1>7. CASE ClearAttempts(t)
  BY <1>7, OrderFrame DEF ClearAttempts, Pending, Unfiled
<1>8. CASE Release(t) \/ Announce(t)
  <2>1. \A u \in Tasks : \/ job'[u].items = {}
                         \/ job'[u].items = job[u].items /\ job'[u].key = job[u].key
    BY <1>0, <1>8 DEF Release, Announce, NoJob
  <2>2. UNCHANGED <<rowVars, before>>
    BY <1>8 DEF Release, Announce
  <2> QED BY <2>1, <2>2, OrderFrameRows
<1>9. CASE ReleaseFails(t)
  <2>1. \A u \in Tasks : \/ job'[u].items = {}
                         \/ job'[u].items = job[u].items /\ job'[u].key = job[u].key
    BY <1>0, <1>9 DEF ReleaseFails
  <2> QED BY <1>9, <2>1, OrderFrame DEF ReleaseFails
<1> QED BY <1>1, <1>2, <1>3, <1>4, <1>5, <1>6, <1>7, <1>8, <1>9
        DEF TaskStep, Handler, TaskFault

LEMMA OrderNext == TypeOK /\ OrderInv /\ [Next]_vars => OrderInv'
<1> SUFFICES ASSUME TypeOK, OrderInv, [Next]_vars PROVE OrderInv'
  OBVIOUS
<1> USE DEF rowVars, taskVars, history
<1>1. ASSUME NEW i \in Items, Insert(i) \/ Commit(i) PROVE OrderInv'
  BY <1>1, OrderRows
<1>2. CASE CleanupQueueItems
  BY <1>2, OrderFrame DEF CleanupQueueItems
<1>3. ASSUME NEW i \in Instances,
             \/ \E k \in Keys : PollSelect(i, k)
             \/ PollClaim(i) \/ CleanupStale(i)
      PROVE OrderInv'
  <2>1. CASE \E k \in Keys : PollSelect(i, k)
    BY <2>1, OrderFrameRows DEF PollSelect
  <2>2. CASE PollClaim(i)
    <3>1. UNCHANGED <<rowVars, job, before>>
      BY <2>2 DEF PollClaim
    <3> QED BY <3>1, OrderFrameRows
  <2>3. CASE CleanupStale(i)
    BY <2>3, OrderFrameRows DEF CleanupStale
  <2> QED BY <1>3, <2>1, <2>2, <2>3
<1>4. ASSUME NEW i \in Instances, PollStart(i) PROVE OrderInv'
  <2>1. \A u \in Tasks : \/ job'[u].items = {}
                         \/ job'[u].items = job[u].items /\ job'[u].key = job[u].key
    <3>1. CASE proc[i] # "up"
      BY <1>4, <3>1 DEF PollStart
    <3>2. CASE proc[i] = "up"
      <4>1. PICK T \in SUBSET FreeTasks(i) : \E claim \in Bijection(T, poll[i].claims) :
              job' = [u \in Tasks |-> IF u \in T THEN NewJob(claim[u]) ELSE job[u]]
        BY <1>4, <3>2 DEF PollStart
      <4> QED BY <4>1 DEF NewJob, TypeOK
    <3> QED BY <3>1, <3>2
  <2>2. UNCHANGED <<rowVars, before>>
    BY <1>4 DEF PollStart
  <2> QED BY <2>1, <2>2, OrderFrameRows
<1>5. ASSUME NEW t \in Tasks, TaskStep(t) \/ TaskFault(t) PROVE OrderInv'
  BY <1>5, OrderTask
<1>6. ASSUME NEW k \in Keys, Expire(k) PROVE OrderInv'
  BY <1>6, OrderFrame DEF Expire
<1>7. ASSUME NEW i \in Instances, Signal(i) \/ StopCleanup(i) \/ Restart(i) PROVE OrderInv'
  BY <1>7, OrderFrame DEF Signal, StopCleanup, Restart
<1>8. ASSUME NEW i \in Instances, Exit(i) \/ Crash(i) PROVE OrderInv'
  <2>1. \A u \in Tasks : \/ job'[u].items = {}
                         \/ job'[u].items = job[u].items /\ job'[u].key = job[u].key
    BY <1>8 DEF Exit, Crash, Vanish, NoJob
  <2>2. UNCHANGED <<rowVars, before>>
    BY <1>8 DEF Exit, Crash, Vanish
  <2> QED BY <2>1, <2>2, OrderFrameRows
<1>9. CASE UNCHANGED vars
  BY <1>9, OrderFrame DEF vars
<1> QED BY <1>1, <1>2, <1>3, <1>4, <1>5, <1>6, <1>7, <1>8, <1>9 DEF Next

LEMMA OrderInvHolds == Spec => []OrderInv
  BY OrderInit, OrderNext, TypeCorrect, PTL DEF Spec

\* Items of an unbatched work unit are settled in the order they were filed in,
\* also by tasks that were taken over and go on working.
THEOREM SettledInOrderHolds == Spec => []SettledInOrder
  BY OrderInvHolds, PTL DEF OrderInv

-----------------------------------------------------------------------------
(* The queue implements QueueContract: every step of the queue is a step   *)
(* of the contract or changes nothing the contract speaks of.              *)

LEMMA ContractInit == Init => Contract!CInit
  BY DEF Init, Contract!CInit

\* Steps that neither settle or file a row nor complete an item.
LEMMA ContractStutter ==
  ASSUME status' = status, handled' = handled
  PROVE  UNCHANGED Contract!cvars
  BY DEF Contract!cvars

LEMMA ContractRows ==
  ASSUME TypeOK, (\E i \in Items : Insert(i) \/ Commit(i)) \/ CleanupQueueItems
  PROVE  [Contract!CNext]_Contract!cvars
<1> USE DEF TypeOK, history
<1>1. ASSUME NEW i \in Items, Insert(i) PROVE UNCHANGED Contract!cvars
  BY <1>1 DEF Insert, Contract!cvars
<1>2. ASSUME NEW i \in Items, Commit(i) PROVE Contract!File(i)
  BY <1>2 DEF Commit, Contract!File
<1>3. ASSUME CleanupQueueItems
      PROVE  Contract!CNext
  <2>1. PICK old \in SUBSET {i \in Items : status[i] = "errored"} :
          status' = [i \in Items |->
                       IF i \in old \cup {j \in Items : status[j] = "done"}
                       THEN "deleted" ELSE status[i]]
    BY <1>3 DEF CleanupQueueItems
  <2>2. PICK gone \in SUBSET Items : gone = old \cup {j \in Items : status[j] = "done"}
    OBVIOUS
  <2>3. handled' = handled /\ \A i \in gone : status[i] \in {"done", "errored"}
    BY <1>3, <2>2 DEF CleanupQueueItems
  <2>4. Contract!Forget(gone)
    BY <2>1, <2>2, <2>3 DEF Contract!Forget
  <2> QED BY <2>4 DEF Contract!CNext
<1> QED BY <1>1, <1>2, <1>3 DEF Contract!CNext

LEMMA ContractTask ==
  ASSUME TypeOK, DropInv, OrderInv, NEW t \in Tasks, TaskStep(t) \/ TaskFault(t)
  PROVE  [Contract!CNext]_Contract!cvars
<1> USE DEF Goto, rowVars, history
<1>0. job[t].items \in SUBSET Items /\ \A i \in job[t].items : ~Unfiled(i)
  BY DEF TypeOK, Jobs, OrderInv, ItemInv
<1>1. CASE status' = status /\ handled' = handled
  BY <1>1, ContractStutter
<1>5. PICK S \in SUBSET Items : S = job[t].items
  BY <1>0
<1>2. CASE HandlerReturns(t)
  <2>1. Contract!Handle(S)
    BY <1>0, <1>2, <1>5 DEF HandlerReturns, Contract!Handle, Unfiled
  <2> QED BY <2>1 DEF Contract!CNext
<1>3. CASE MarkProcessed(t)
  <2>1. S \subseteq handled
    BY <1>3, <1>5 DEF MarkProcessed, DropInv, MarkInv
  <2>2. Contract!Settle(S)
    BY <1>0, <1>3, <1>5, <2>1 DEF MarkProcessed, Marked, Contract!Settle, TypeOK
  <2> QED BY <2>2 DEF Contract!CNext
<1>4. CASE MarkErrored(t)
  <2>0. handled' = handled
    BY <1>4 DEF MarkErrored
  <2>1. CASE \E h \in Items : IsHead(h, job[t].items) /\ status[h] \in {"pending", "done"}
    <3>1. PICK h \in Items : IsHead(h, job[t].items) /\ status[h] \in {"pending", "done"}
      BY <2>1
    <3>2. \A i \in Items : IsHead(i, job[t].items) => i = h
      BY <3>1, QueueAssumption DEF IsHead
    <3>3. Contract!GiveUp(h)
      BY <1>4, <2>0, <3>1, <3>2 DEF MarkErrored, Contract!GiveUp
    <3> QED BY <3>3 DEF Contract!CNext
  <2>2. CASE \A h \in Items : ~(IsHead(h, job[t].items) /\ status[h] \in {"pending", "done"})
    <3>1. \A i \in Items : IsHead(i, job[t].items) => status[i] \in {"errored", "deleted"}
      BY <1>0, <2>2 DEF IsHead, Unfiled, TypeOK, Statuses
    <3>2. \A i \in Items : status'[i] = status[i]
      BY <1>4, <3>1 DEF MarkErrored
    <3>3. status' = status
      BY <1>4, <3>2 DEF MarkErrored, TypeOK
    <3> QED BY <2>0, <3>3, ContractStutter
  <2> QED BY <2>1, <2>2
<1> QED BY <1>1, <1>2, <1>3, <1>4
  DEF TaskStep, Handler, TaskFault, Acquire, Leave, Fetch, HandlerRaises, ReadAttempts,
      SetAttempts, ClearAttempts, Release, Announce, MarkFails, ErrorPathFails, ReleaseFails

LEMMA ContractNext ==
  ASSUME TypeOK, DropInv, OrderInv, [Next]_vars
  PROVE  [Contract!CNext]_Contract!cvars
<1>1. CASE \E t \in Tasks : TaskStep(t) \/ TaskFault(t)
  BY <1>1, ContractTask
<1>2. CASE (\E i \in Items : Insert(i) \/ Commit(i)) \/ CleanupQueueItems
  BY <1>2, ContractRows
<1>3. CASE status' = status /\ handled' = handled
  BY <1>3, ContractStutter
<1> QED BY <1>1, <1>2, <1>3
  DEF Next, vars, rowVars, history, PollSelect, PollClaim, PollStart, CleanupStale, Expire,
      Signal, StopCleanup, Exit, Crash, Restart, Vanish

\* Every run of the queue is a run of its contract.
THEOREM ContractHolds == Spec => ContractSafety
<1>1. Init => Contract!CInit
  BY ContractInit
<1>2. TypeOK /\ DropInv /\ OrderInv /\ [Next]_vars => [Contract!CNext]_Contract!cvars
  BY ContractNext
<1> QED BY <1>1, <1>2, TypeCorrect, DropInvHolds, OrderInvHolds, PTL
        DEF Spec, ContractSafety, Contract!CSpec

-----------------------------------------------------------------------------
(* Every claim id is held once: by one task or ownership entry, or by one  *)
(* claim a polling loop has just made.                                     *)

\* A task that runs, or an ownership entry a failed release left behind.
Tracked(t) == pc[t] # "none" \/ t \in owned

ClaimTyped ==
  \A t \in Tasks : Tracked(t) => job[t].key \in Keys /\ job[t].claim \in ClaimIds

TasksApart ==
  \A t, u \in Tasks : t # u /\ Tracked(t) /\ Tracked(u) => job[t].claim # job[u].claim

PollsAndTasksApart ==
  \A i \in Instances : \A c \in poll[i].claims : \A t \in Tasks :
    Tracked(t) => job[t].claim # c[2]

PollsApart ==
  \A i, j \in Instances : \A c \in poll[i].claims, d \in poll[j].claims :
    c[2] = d[2] => i = j /\ c = d

\* A task announces after its ownership ended.
AnnouncersDone == \A t \in Tasks : pc[t] = "announce" => t \notin owned

ClaimInv == ClaimTyped /\ TasksApart /\ PollsAndTasksApart /\ PollsApart /\ AnnouncersDone

LEMMA ClaimInit == Init => ClaimInv
  BY DEF Init, ClaimInv, ClaimTyped, TasksApart, PollsAndTasksApart, PollsApart,
         AnnouncersDone, Tracked, NoPoll

\* Steps that start no task and make no claim.
LEMMA ClaimFrame ==
  ASSUME ClaimInv,
         \A t \in Tasks : Tracked(t)' => /\ Tracked(t)
                                         /\ job'[t].key = job[t].key
                                         /\ job'[t].claim = job[t].claim,
         \A i \in Instances : poll'[i].claims \subseteq poll[i].claims,
         AnnouncersDone'
  PROVE  ClaimInv'
<1>1. ClaimTyped'
  BY DEF ClaimInv, ClaimTyped
<1>2. TasksApart'
  BY DEF ClaimInv, TasksApart
<1>3. PollsAndTasksApart'
  BY DEF ClaimInv, PollsAndTasksApart
<1>4. PollsApart'
  BY DEF ClaimInv, PollsApart
<1> QED BY <1>1, <1>2, <1>3, <1>4 DEF ClaimInv

LEMMA ClaimTask ==
  ASSUME TypeOK, ClaimInv, NEW t \in Tasks, TaskStep(t) \/ TaskFault(t)
  PROVE  ClaimInv'
<1> USE DEF Goto, Tracked, Jobs, AnnouncersDone
<1>0. /\ pc \in [Tasks -> Pcs] /\ job \in [Tasks -> Jobs] /\ AnnouncersDone
  BY DEF TypeOK, ClaimInv
<1>1. CASE Acquire(t) \/ Leave(t) \/ HandlerReturns(t) \/ HandlerRaises(t)
           \/ MarkFails(t) \/ ErrorPathFails(t)
  BY <1>0, <1>1, ClaimFrame
  DEF Acquire, Leave, HandlerReturns, HandlerRaises, AfterError, MarkFails, ErrorPathFails
<1>2. CASE MarkProcessed(t) \/ SetAttempts(t) \/ MarkErrored(t) \/ ClearAttempts(t)
  BY <1>0, <1>2, ClaimFrame DEF MarkProcessed, SetAttempts, MarkErrored, ClearAttempts
<1>3. CASE Fetch(t)
  BY <1>0, <1>3, ClaimFrame DEF Fetch
<1>4. CASE ReadAttempts(t)
  <2>1. /\ poll' = poll /\ owned' = owned
        /\ \E to \in {"count", "error"} : pc[t] = "retry" /\ pc' = [pc EXCEPT ![t] = to]
    BY <1>4 DEF ReadAttempts
  <2>2. job' = job \/ job' = [job EXCEPT ![t] = [job[t] EXCEPT !.att = Charged(t)]]
    BY <1>4 DEF ReadAttempts
  <2>3. \A u \in Tasks : job'[u].key = job[u].key /\ job'[u].claim = job[u].claim
    BY <1>0, <2>2
  <2> QED BY <1>0, <2>1, <2>3, ClaimFrame
<1>5. CASE Release(t)
  BY <1>0, <1>5, ClaimFrame DEF Release
<1>6. CASE ReleaseFails(t)
  <2>1. \A u \in Tasks : job'[u].key = job[u].key /\ job'[u].claim = job[u].claim
    BY <1>0, <1>6 DEF ReleaseFails
  <2> QED BY <1>0, <1>6, <2>1, ClaimFrame DEF ReleaseFails
<1>7. CASE Announce(t)
  BY <1>0, <1>7, ClaimFrame DEF Announce
<1> QED BY <1>1, <1>2, <1>3, <1>4, <1>5, <1>6, <1>7 DEF TaskStep, Handler, TaskFault

\* The ids of new claims are in no use.
LEMMA ClaimPollClaim ==
  ASSUME TypeOK, ClaimInv, NEW i \in Instances, PollClaim(i)
  PROVE  ClaimInv'
<1>1. PICK id \in [Won(i) -> ClaimIds \ ClaimsInUse] :
        /\ IsInjective(id)
        /\ poll' = [poll EXCEPT ![i] = [keys |-> {}, claims |-> Returned(i, id)]]
  BY DEF PollClaim
<1>2. poll'[i].claims = {<<k, id[k]>> : k \in Won(i)}
      /\ \A j \in Instances : j # i => poll'[j] = poll[j]
  BY <1>1 DEF TypeOK, Returned
<1>3. UNCHANGED <<pc, job, owned>>
  BY DEF PollClaim, taskVars
<1>4. \A j \in Instances : \A d \in poll[j].claims : d[2] \in ClaimsInUse
  BY DEF ClaimsInUse
<1>5. \A t \in Tasks : job[t].claim \in ClaimsInUse
  BY DEF ClaimsInUse
<1>6. ClaimTyped' /\ TasksApart' /\ AnnouncersDone'
  BY <1>3 DEF ClaimInv, ClaimTyped, TasksApart, AnnouncersDone, Tracked
<1>7. PollsAndTasksApart'
  <2> SUFFICES ASSUME NEW j \in Instances, NEW c \in poll'[j].claims, NEW t \in Tasks,
                      Tracked(t)'
               PROVE  job'[t].claim # c[2]
    BY DEF PollsAndTasksApart
  <2>1. CASE j = i
    <3>1. PICK k \in Won(i) : c = <<k, id[k]>>
      BY <1>2, <2>1
    <3> QED BY <1>1, <1>3, <1>5, <3>1
  <2>2. CASE j # i
    BY <1>2, <1>3, <2>2 DEF ClaimInv, PollsAndTasksApart, Tracked
  <2> QED BY <2>1, <2>2
<1>8. PollsApart'
  <2> SUFFICES ASSUME NEW j \in Instances, NEW l \in Instances,
                      NEW c \in poll'[j].claims, NEW d \in poll'[l].claims, c[2] = d[2]
               PROVE  j = l /\ c = d
    BY DEF PollsApart
  <2>0. \A k \in Won(i) : id[k] \notin ClaimsInUse
    BY <1>1
  <2>1. CASE j = i /\ l = i
    <3>1. PICK k \in Won(i) : c = <<k, id[k]>>
      BY <1>2, <2>1
    <3>2. PICK m \in Won(i) : d = <<m, id[m]>>
      BY <1>2, <2>1
    <3>3. id[k] = id[m]
      BY <3>1, <3>2
    <3>4. k = m
      BY <1>1, <3>3 DEF IsInjective
    <3> QED BY <2>1, <3>1, <3>2, <3>4
  <2>2. CASE j = i /\ l # i
    BY <1>2, <1>4, <2>0, <2>2
  <2>3. CASE j # i /\ l = i
    BY <1>2, <1>4, <2>0, <2>3
  <2>4. CASE j # i /\ l # i
    BY <1>2, <2>4 DEF ClaimInv, PollsApart
  <2> QED BY <2>1, <2>2, <2>3, <2>4
<1> QED BY <1>6, <1>7, <1>8 DEF ClaimInv

\* Each claim goes to a task of its own, whose id no entry has.
LEMMA ClaimPollStart ==
  ASSUME TypeOK, ClaimInv, NEW i \in Instances, PollStart(i)
  PROVE  ClaimInv'
<1>0. poll'[i].claims = {} /\ \A j \in Instances : j # i => poll'[j] = poll[j]
  BY DEF PollStart, NoPoll, TypeOK
<1>1. CASE proc[i] # "up"
  BY <1>0, <1>1, ClaimFrame DEF PollStart, taskVars, Tracked, AnnouncersDone, ClaimInv
<1>2. CASE proc[i] = "up"
  <2>1. PICK T \in SUBSET FreeTasks(i) : \E claim \in Bijection(T, poll[i].claims) :
          /\ pc' = [u \in Tasks |-> IF u \in T THEN "start" ELSE pc[u]]
          /\ job' = [u \in Tasks |-> IF u \in T THEN NewJob(claim[u]) ELSE job[u]]
          /\ owned' = owned \cup T
    BY <1>2 DEF PollStart
  <2>2. PICK claim \in [T -> poll[i].claims] :
          /\ \A u, v \in T : claim[u] = claim[v] => u = v
          /\ pc' = [u \in Tasks |-> IF u \in T THEN "start" ELSE pc[u]]
          /\ job' = [u \in Tasks |-> IF u \in T THEN NewJob(claim[u]) ELSE job[u]]
          /\ owned' = owned \cup T
    BY <2>1 DEF Bijection, Injection, IsInjective
  <2>3. T \subseteq Tasks
    BY <2>1 DEF FreeTasks, TasksOf, Tasks
  <2>4. \A u \in Tasks : IF u \in T
                         THEN job'[u].key = claim[u][1] /\ job'[u].claim = claim[u][2]
                         ELSE job'[u] = job[u]
    BY <2>2 DEF NewJob
  <2>5. \A u \in Tasks \ T : Tracked(u)' => Tracked(u)
    BY <2>2 DEF Tracked
  <2>6. \A u \in T : claim[u] \in poll[i].claims /\ claim[u] \in Keys \X ClaimIds
    BY <2>2 DEF TypeOK
  <2>7. ClaimTyped'
    BY <2>4, <2>5, <2>6 DEF ClaimInv, ClaimTyped
  <2>8. TasksApart'
    <3> SUFFICES ASSUME NEW t \in Tasks, NEW u \in Tasks, t # u, Tracked(t)', Tracked(u)'
                 PROVE  job'[t].claim # job'[u].claim
      BY DEF TasksApart
    <3>1. CASE t \in T /\ u \in T
      BY <2>2, <2>4, <2>6, <3>1 DEF ClaimInv, PollsApart
    <3>2. CASE t \in T /\ u \notin T
      BY <2>4, <2>5, <2>6, <3>2 DEF ClaimInv, PollsAndTasksApart
    <3>3. CASE t \notin T /\ u \in T
      BY <2>4, <2>5, <2>6, <3>3 DEF ClaimInv, PollsAndTasksApart
    <3>4. CASE t \notin T /\ u \notin T
      BY <2>4, <2>5, <3>4 DEF ClaimInv, TasksApart
    <3> QED BY <3>1, <3>2, <3>3, <3>4
  <2>9. PollsAndTasksApart'
    <3> SUFFICES ASSUME NEW j \in Instances, NEW c \in poll'[j].claims, NEW t \in Tasks,
                        Tracked(t)'
                 PROVE  job'[t].claim # c[2]
      BY DEF PollsAndTasksApart
    <3>1. j # i /\ c \in poll[j].claims
      BY <1>0
    <3>2. CASE t \in T
      BY <2>4, <2>6, <3>1, <3>2 DEF ClaimInv, PollsApart
    <3>3. CASE t \notin T
      BY <2>4, <2>5, <3>1, <3>3 DEF ClaimInv, PollsAndTasksApart
    <3> QED BY <3>2, <3>3
  <2>10. PollsApart'
    BY <1>0 DEF ClaimInv, PollsApart
  <2>11. AnnouncersDone'
    BY <2>2 DEF ClaimInv, AnnouncersDone
  <2> QED BY <2>7, <2>8, <2>9, <2>10, <2>11 DEF ClaimInv
<1> QED BY <1>1, <1>2

LEMMA ClaimOthers ==
  ASSUME TypeOK, ClaimInv, Next,
         ~ \E t \in Tasks : TaskStep(t) \/ TaskFault(t)
  PROVE  ClaimInv'
<1> USE DEF taskVars, Tracked, AnnouncersDone
<1>0. AnnouncersDone
  BY DEF ClaimInv
<1>1. ASSUME NEW i \in Items, Insert(i) \/ Commit(i) PROVE ClaimInv'
  BY <1>1, <1>0, ClaimFrame DEF Insert, Commit
<1>2. CASE CleanupQueueItems
  BY <1>2, <1>0, ClaimFrame DEF CleanupQueueItems
<1>3. ASSUME NEW i \in Instances, NEW k \in Keys, PollSelect(i, k) PROVE ClaimInv'
  <2>1. \A j \in Instances : poll'[j].claims = poll[j].claims
    BY <1>3 DEF PollSelect, TypeOK
  <2> QED BY <1>3, <2>1, <1>0, ClaimFrame DEF PollSelect
<1>4. ASSUME NEW i \in Instances, PollClaim(i) PROVE ClaimInv'
  BY <1>4, ClaimPollClaim
<1>5. ASSUME NEW i \in Instances, PollStart(i) PROVE ClaimInv'
  BY <1>5, ClaimPollStart
<1>6. ASSUME NEW i \in Instances, CleanupStale(i) \/ Signal(i) \/ Restart(i) PROVE ClaimInv'
  BY <1>6, <1>0, ClaimFrame DEF CleanupStale, Signal, Restart
<1>7. ASSUME NEW k \in Keys, Expire(k) PROVE ClaimInv'
  BY <1>7, <1>0, ClaimFrame DEF Expire
<1>8. ASSUME NEW i \in Instances, StopCleanup(i) PROVE ClaimInv'
  BY <1>8, <1>0, ClaimFrame DEF StopCleanup
<1>9. ASSUME NEW i \in Instances, Exit(i) \/ Crash(i) PROVE ClaimInv'
  <2>1. /\ \A t \in Tasks : Tracked(t)' => Tracked(t) /\ job'[t] = job[t]
        /\ AnnouncersDone'
    BY <1>0, <1>9 DEF Exit, Crash, Vanish
  <2>2. \A j \in Instances : poll'[j].claims \subseteq poll[j].claims
    BY <1>9 DEF Exit, Crash, Vanish, NoPoll, TypeOK
  <2> QED BY <2>1, <2>2, ClaimFrame
<1> QED BY <1>1, <1>2, <1>3, <1>4, <1>5, <1>6, <1>7, <1>8, <1>9 DEF Next

LEMMA ClaimNext == TypeOK /\ ClaimInv /\ [Next]_vars => ClaimInv'
<1> SUFFICES ASSUME TypeOK, ClaimInv, [Next]_vars PROVE ClaimInv'
  OBVIOUS
<1>1. CASE UNCHANGED vars
  BY <1>1, ClaimFrame DEF vars, Tracked, AnnouncersDone, ClaimInv
<1>2. CASE Next
  BY <1>2, ClaimTask, ClaimOthers
<1> QED BY <1>1, <1>2

LEMMA ClaimInvHolds == Spec => []ClaimInv
  BY ClaimInit, ClaimNext, TypeCorrect, PTL DEF Spec

\* No two tasks hold a claim on the same work unit, in any run.
THEOREM SoleHolderHolds == Spec => []SoleHolder
<1>1. ClaimInv => SoleHolder
  BY DEF ClaimInv, TasksApart, SoleHolder, Holds, Tracked
<1> QED BY <1>1, ClaimInvHolds, PTL

\* A fresh claim is lost to a task at work only when its own process stops.
LEMMA FreshStep ==
  ASSUME TypeOK, ClaimInv, [Next]_vars
  PROVE  KeepsFreshClaims
<1> SUFFICES ASSUME NEW t \in Tasks,
                    pc[t] # "none", pc'[t] # "none", pc[t] # "release",
                    Holds(t), job[t].key \notin stale, ~Holds(t)'
             PROVE  proc[t[1]] = "stopping"
  BY DEF KeepsFreshClaims
<1> DEFINE k == job[t].key
<1>0. k \in Keys /\ aqs[k] = job[t].claim /\ job[t].claim \in ClaimIds /\ aqs[k] # NoClaim
      /\ t[1] \in Instances
  BY QueueAssumption DEF ClaimInv, ClaimTyped, Tracked, Holds, Tasks
<1>1. job'[t].key = k /\ job'[t].claim = job[t].claim
  <2>0. pc \in [Tasks -> Pcs] /\ job \in [Tasks -> Jobs]
    BY DEF TypeOK
  <2>1. ASSUME NEW u \in Tasks, TaskStep(u) \/ TaskFault(u)
        PROVE  job'[t].key = k /\ job'[t].claim = job[t].claim
    <3>1. CASE Fetch(u) \/ ReadAttempts(u) \/ ReleaseFails(u)
      <4>1. CASE Fetch(u)
        BY <2>0, <4>1 DEF Fetch, Jobs
      <4>2. CASE ReadAttempts(u)
        <5>1. job' = job \/ job' = [job EXCEPT ![u] = [job[u] EXCEPT !.att = Charged(u)]]
          BY <4>2 DEF ReadAttempts
        <5> QED BY <2>0, <5>1 DEF Jobs
      <4>3. CASE ReleaseFails(u)
        BY <2>0, <4>3 DEF ReleaseFails, Jobs
      <4> QED BY <3>1, <4>1, <4>2, <4>3
    <3>2. CASE Release(u) \/ Announce(u)
      BY <2>0, <3>2 DEF Release, Announce, Goto
    <3>3. CASE ~(Fetch(u) \/ ReadAttempts(u) \/ ReleaseFails(u) \/ Release(u) \/ Announce(u))
      BY <2>1, <3>3
      DEF TaskStep, Handler, TaskFault, Acquire, Leave, HandlerReturns, HandlerRaises,
          MarkProcessed, SetAttempts, MarkErrored, ClearAttempts, MarkFails, ErrorPathFails
    <3> QED BY <3>1, <3>2, <3>3
  <2>2. ASSUME NEW i \in Instances, PollStart(i)
        PROVE  job'[t].key = k /\ job'[t].claim = job[t].claim
    BY <2>0, <2>2 DEF PollStart, taskVars, FreeTasks
  <2>3. ASSUME NEW i \in Instances, Exit(i) \/ Crash(i)
        PROVE  job'[t].key = k /\ job'[t].claim = job[t].claim
    BY <2>0, <2>3 DEF Exit, Crash, Vanish
  <2>4. CASE UNCHANGED job
    BY <2>4
  <2>5. \/ \E u \in Tasks : TaskStep(u) \/ TaskFault(u)
        \/ \E i \in Instances : PollStart(i) \/ Exit(i) \/ Crash(i)
        \/ UNCHANGED job
    BY DEF Next, vars, Insert, Commit, CleanupQueueItems, PollSelect, PollClaim,
           CleanupStale, Expire, Signal, StopCleanup, Restart, taskVars
  <2> QED BY <2>1, <2>2, <2>3, <2>4, <2>5
<1>2. aqs'[k] # aqs[k]
  BY <1>0, <1>1 DEF Holds
<1>3. \/ \E u \in Tasks : Release(u)
      \/ \E i \in Instances : PollClaim(i) \/ CleanupStale(i) \/ StopCleanup(i)
  <2>1. ASSUME aqs' # aqs, NEW u \in Tasks, TaskStep(u) \/ TaskFault(u) PROVE Release(u)
    BY <2>1
    DEF TaskStep, Handler, TaskFault, Acquire, Leave, Fetch, HandlerReturns, HandlerRaises,
        MarkProcessed, ReadAttempts, SetAttempts, MarkErrored, ClearAttempts, Announce,
        MarkFails, ErrorPathFails, ReleaseFails, claimVars
  <2> QED BY <1>2, <2>1
      DEF Next, vars, Insert, Commit, CleanupQueueItems, PollSelect, PollStart, Expire,
          Signal, Exit, Crash, Restart, Vanish, claimVars
<1>4. ASSUME NEW u \in Tasks, Release(u) PROVE FALSE
  <2>1. aqs' = [aqs EXCEPT ![job[u].key] = NoClaim] /\ Removes(u) /\ pc[u] = "release"
    BY <1>2, <1>4 DEF Release, claimVars
  <2>2. job[u].key = k /\ u # t
    BY <1>0, <1>2, <2>1 DEF TypeOK
  <2> QED BY <1>0, <2>1, <2>2 DEF Removes, Holds, ClaimInv, TasksApart, Tracked
<1>5. ASSUME NEW i \in Instances, PollClaim(i) PROVE FALSE
  BY <1>0, <1>2, <1>5 DEF PollClaim, Won
<1>6. ASSUME NEW i \in Instances, CleanupStale(i) PROVE FALSE
  BY <1>0, <1>2, <1>6 DEF CleanupStale, StaleUnits
<1>7. ASSUME NEW i \in Instances, StopCleanup(i) PROVE proc[t[1]] = "stopping"
  <2>1. aqs[k] \in {job[u].claim : u \in owned \cap TasksOf(i)}
    BY <1>0, <1>2, <1>7 DEF StopCleanup, claimVars
  <2>2. PICK u \in owned \cap TasksOf(i) : job[u].claim = job[t].claim
    BY <1>0, <2>1
  <2>3. u = t
    BY <2>2 DEF ClaimInv, TasksApart, Tracked, TypeOK
  <2>4. proc[i] = "stopping" /\ t[1] = i
    BY <1>7, <2>2, <2>3 DEF StopCleanup, TasksOf
  <2> QED BY <2>4
<1> QED BY <1>3, <1>4, <1>5, <1>6, <1>7

\* In every run, a claim row that is not stale is taken away from a task that
\* goes on working only by the shutdown of the task's own process.
THEOREM FreshClaimIsKeptHolds == Spec => FreshClaimIsKept
  BY FreshStep, ClaimInvHolds, TypeCorrect, PTL DEF Spec, FreshClaimIsKept

-----------------------------------------------------------------------------
(* Capacity: what a process owns, and what its polling loop has selected or *)
(* claimed for it, is never more than it has workers.                       *)

Mine(i) == owned \cap TasksOf(i)

\* The capacity is read when units are selected, so the units on their way to a
\* task count as well.
Room(i) ==
  /\ IsFiniteSet(Mine(i)) /\ IsFiniteSet(poll[i].keys) /\ IsFiniteSet(poll[i].claims)
  /\ Cardinality(Mine(i)) + Cardinality(poll[i].keys) + Cardinality(poll[i].claims)
       <= WorkerLimit
  /\ IsFiniteSet(InBody(i)) /\ Cardinality(InBody(i)) <= WorkerLimit

\* The sum stays within the limit when its parts do not grow together.
LEMMA RoomOf ==
  ASSUME NEW i \in Instances, NEW n \in Nat, n <= WorkerLimit,
         IsFiniteSet(Mine(i)'), IsFiniteSet(poll'[i].keys), IsFiniteSet(poll'[i].claims),
         Cardinality(Mine(i)') + Cardinality(poll'[i].keys) + Cardinality(poll'[i].claims)
           <= n,
         IsFiniteSet(InBody(i)), Cardinality(InBody(i)) <= WorkerLimit,
         InBody(i)' \subseteq InBody(i)
  PROVE  Room(i)'
<1>1. IsFiniteSet(InBody(i)') /\ Cardinality(InBody(i)') <= Cardinality(InBody(i))
  BY FS_Subset
<1>2. /\ Cardinality(InBody(i)') \in Nat /\ Cardinality(InBody(i)) \in Nat
      /\ Cardinality(Mine(i)') \in Nat /\ Cardinality(poll'[i].keys) \in Nat
      /\ Cardinality(poll'[i].claims) \in Nat
  BY <1>1, FS_CardinalityType
<1>3. Cardinality(InBody(i)') <= WorkerLimit
  BY <1>1, <1>2, QueueAssumption
<1>4. Cardinality(Mine(i)') + Cardinality(poll'[i].keys) + Cardinality(poll'[i].claims)
        <= WorkerLimit
  BY <1>2, QueueAssumption
<1> QED BY <1>1, <1>3, <1>4 DEF Room

LEMMA RoomCounts ==
  ASSUME NEW i \in Instances, Room(i)
  PROVE  /\ Cardinality(Mine(i)) \in Nat /\ Cardinality(InBody(i)) \in Nat
         /\ Cardinality(poll[i].keys) \in Nat /\ Cardinality(poll[i].claims) \in Nat
  BY FS_CardinalityType DEF Room

\* Steps that select, claim and start nothing.
LEMMA RoomFrame ==
  ASSUME NEW i \in Instances, Room(i), Mine(i)' \subseteq Mine(i),
         poll'[i] \in {poll[i], NoPoll}, InBody(i)' \subseteq InBody(i)
  PROVE  Room(i)'
<1> DEFINE n == Cardinality(Mine(i)) + Cardinality(poll[i].keys) + Cardinality(poll[i].claims)
<1>1. IsFiniteSet(Mine(i)') /\ Cardinality(Mine(i)') <= Cardinality(Mine(i))
  BY FS_Subset DEF Room
<1>2. Cardinality(Mine(i)') \in Nat
  BY <1>1, FS_CardinalityType
<1>3. /\ IsFiniteSet(poll'[i].keys) /\ IsFiniteSet(poll'[i].claims)
      /\ Cardinality(poll'[i].keys) \in Nat /\ Cardinality(poll'[i].claims) \in Nat
      /\ Cardinality(poll'[i].keys) <= Cardinality(poll[i].keys)
      /\ Cardinality(poll'[i].claims) <= Cardinality(poll[i].claims)
  <2>1. CASE poll'[i] = poll[i]
    BY <2>1, RoomCounts DEF Room
  <2>2. CASE poll'[i] = NoPoll
    BY <2>2, RoomCounts, FS_EmptySet DEF NoPoll
  <2> QED BY <2>1, <2>2
<1>4. n \in Nat /\ n <= WorkerLimit
  BY RoomCounts DEF Room
<1>5. Cardinality(Mine(i)') + Cardinality(poll'[i].keys) + Cardinality(poll'[i].claims) <= n
  BY <1>1, <1>2, <1>3, RoomCounts
<1> HIDE DEF n
<1> QED BY <1>1, <1>3, <1>4, <1>5, RoomOf DEF Room

\* PollSelect asks for no more units than there is room for.
LEMMA RoomSelect ==
  ASSUME TypeOK, IsFiniteSet(Keys), NEW i \in Instances, Room(i),
         NEW j \in Instances, NEW k \in Keys, PollSelect(j, k)
  PROVE  Room(i)'
<1>1. Mine(i)' = Mine(i) /\ InBody(i)' = InBody(i)
  BY DEF PollSelect, taskVars, Mine, InBody
<1>2. CASE i # j
  <2>1. poll'[i] = poll[i]
    BY <1>2 DEF PollSelect, TypeOK
  <2> QED BY <1>1, <2>1, RoomFrame
<1>3. CASE i = j
  <2>1. PICK C \in SUBSET Keys : \E S \in FirstUnits(C, Capacity(i)) :
                                   poll' = [poll EXCEPT ![i].keys = S]
    BY <1>3 DEF PollSelect
  <2>2. PICK S \in FirstUnits(C, Capacity(i)) : poll' = [poll EXCEPT ![i].keys = S]
    BY <2>1
  <2>3. poll'[i].keys = S /\ poll'[i].claims = {}
    BY <1>3, <2>2 DEF TypeOK, PollSelect, Idle, NoPoll
  <2>4. IsFiniteSet(C) /\ S \subseteq C
    BY <2>2, FS_Subset DEF FirstUnits
  <2>5. IsFiniteSet(S) /\ Cardinality(S) \in Nat /\ Cardinality(C) \in Nat
    BY <2>4, FS_Subset, FS_CardinalityType
  <2>6. Capacity(i) = WorkerLimit - Cardinality(Mine(i)) /\ Capacity(i) > 0
    BY <1>3 DEF Capacity, Mine, PollSelect
  <2>7. Cardinality(S) = IF Cardinality(C) < Capacity(i) THEN Cardinality(C) ELSE Capacity(i)
    BY <2>2 DEF FirstUnits
  <2>8. Cardinality(S) <= Capacity(i)
    BY <2>5, <2>6, <2>7, RoomCounts, QueueAssumption
  <2>9. Cardinality(poll'[i].claims) = 0 /\ IsFiniteSet(poll'[i].claims)
    BY <2>3, FS_EmptySet
  <2>10. Cardinality(Mine(i)') + Cardinality(poll'[i].keys) + Cardinality(poll'[i].claims)
           <= WorkerLimit
    BY <1>1, <2>3, <2>5, <2>6, <2>8, <2>9, RoomCounts, QueueAssumption
  <2> QED BY <1>1, <2>3, <2>5, <2>9, <2>10 DEF Room
<1> QED BY <1>2, <1>3

\* PollClaim wins at most the units it selected.
LEMMA RoomClaim ==
  ASSUME TypeOK, NEW i \in Instances, Room(i), NEW j \in Instances, PollClaim(j)
  PROVE  Room(i)'
<1>1. Mine(i)' = Mine(i) /\ InBody(i)' = InBody(i)
  BY DEF PollClaim, taskVars, Mine, InBody
<1>2. CASE i # j
  <2>1. poll'[i] = poll[i]
    BY <1>2 DEF PollClaim, TypeOK
  <2> QED BY <1>1, <2>1, RoomFrame
<1>3. CASE i = j
  <2>1. PICK id \in [Won(i) -> ClaimIds \ ClaimsInUse] :
          poll' = [poll EXCEPT ![i] = [keys |-> {}, claims |-> Returned(i, id)]]
    BY <1>3 DEF PollClaim
  <2>2. poll'[i].keys = {} /\ poll'[i].claims = Returned(i, id)
    BY <2>1 DEF TypeOK
  <2> DEFINE keyOf == [c \in Returned(i, id) |-> c[1]]
  <2>3. keyOf \in Injection(Returned(i, id), poll[i].keys)
    <3>1. \A c \in Returned(i, id) : \E k \in poll[i].keys : c = <<k, id[k]>>
      BY DEF Returned, Won
    <3>2. keyOf \in [Returned(i, id) -> poll[i].keys]
      BY <3>1
    <3>3. \A c, d \in Returned(i, id) : c[1] = d[1] => c = d
      BY <3>1
    <3> QED BY <3>2, <3>3 DEF Injection, IsInjective
  <2>4. /\ IsFiniteSet(Returned(i, id))
        /\ Cardinality(Returned(i, id)) <= Cardinality(poll[i].keys)
    BY <2>3, FS_Injection DEF Room
  <2>5. IsFiniteSet(poll'[i].keys) /\ Cardinality(poll'[i].keys) = 0
    BY <2>2, FS_EmptySet
  <2>6. Cardinality(poll'[i].claims) \in Nat
    BY <2>2, <2>4, FS_CardinalityType
  <2>7. Cardinality(Mine(i)') + Cardinality(poll'[i].keys) + Cardinality(poll'[i].claims)
          <= Cardinality(Mine(i)) + Cardinality(poll[i].keys) + Cardinality(poll[i].claims)
    BY <1>1, <2>2, <2>4, <2>5, <2>6, RoomCounts
  <2>8. Cardinality(Mine(i)') + Cardinality(poll'[i].keys) + Cardinality(poll'[i].claims)
          <= WorkerLimit
    BY <1>1, <2>5, <2>6, <2>7, RoomCounts, QueueAssumption DEF Room
  <2> QED BY <1>1, <2>2, <2>4, <2>5, <2>8 DEF Room
<1> QED BY <1>2, <1>3

\* PollStart starts one task for each claim.
LEMMA RoomStart ==
  ASSUME TypeOK, NEW i \in Instances, Room(i), NEW j \in Instances, PollStart(j)
  PROVE  Room(i)'
<1>1. CASE proc[j] # "up"
  <2>1. /\ Mine(i)' = Mine(i) /\ InBody(i)' = InBody(i) /\ poll'[i] \in {poll[i], NoPoll}
    BY <1>1 DEF PollStart, taskVars, Mine, InBody, TypeOK
  <2> QED BY <2>1, RoomFrame
<1>2. CASE proc[j] = "up"
  <2>1. PICK T \in SUBSET FreeTasks(j) : \E claim \in Bijection(T, poll[j].claims) :
          /\ pc' = [u \in Tasks |-> IF u \in T THEN "start" ELSE pc[u]]
          /\ owned' = owned \cup T
    BY <1>2 DEF PollStart
  <2>2. T \subseteq TasksOf(j) /\ TasksOf(i) \subseteq Tasks
    BY DEF FreeTasks, TasksOf, Tasks
  <2>3. InBody(i)' \subseteq InBody(i)
    BY <2>1, <2>2 DEF InBody, Body
  <2>4. CASE i # j
    <3>1. TasksOf(i) \cap TasksOf(j) = {}
      BY <2>4 DEF TasksOf
    <3>2. Mine(i)' = Mine(i)
      BY <2>1, <2>2, <3>1 DEF Mine, TasksOf
    <3>3. poll'[i] = poll[i]
      BY <2>4 DEF PollStart, TypeOK
    <3> QED BY <2>3, <3>2, <3>3, RoomFrame
  <2>5. CASE i = j
    <3>1. PICK claim \in Injection(T, poll[i].claims) : TRUE
      BY <2>1, <2>5 DEF Bijection
    <3>2. IsFiniteSet(T) /\ Cardinality(T) <= Cardinality(poll[i].claims)
      BY <3>1, FS_Injection DEF Room
    <3>3. Mine(i)' = Mine(i) \cup T
      BY <2>1, <2>2, <2>5 DEF Mine, TasksOf
    <3>4. Mine(i) \cap T = {}
      BY <2>1 DEF FreeTasks, Mine
    <3>5. /\ IsFiniteSet(Mine(i)')
          /\ Cardinality(Mine(i)') = Cardinality(Mine(i)) + Cardinality(T) - 0
      <4>1. Cardinality(Mine(i) \cap T) = 0
        BY <3>4, FS_EmptySet
      <4> QED BY <3>2, <3>3, <4>1, FS_Union DEF Room
    <3>6. poll'[i].keys = {} /\ poll'[i].claims = {}
      BY <2>5 DEF PollStart, NoPoll, TypeOK
    <3>7. /\ IsFiniteSet(poll'[i].keys) /\ IsFiniteSet(poll'[i].claims)
          /\ Cardinality(poll'[i].keys) = 0 /\ Cardinality(poll'[i].claims) = 0
      BY <3>6, FS_EmptySet
    <3>8. Cardinality(T) \in Nat
      BY <3>2, FS_CardinalityType
    <3> DEFINE n == Cardinality(Mine(i)) + Cardinality(poll[i].keys)
                      + Cardinality(poll[i].claims)
    <3>9. n \in Nat /\ n <= WorkerLimit
      BY RoomCounts DEF Room
    <3>10. Cardinality(Mine(i)') + Cardinality(poll'[i].keys) + Cardinality(poll'[i].claims)
             <= n
      BY <3>2, <3>5, <3>7, <3>8, RoomCounts
    <3> HIDE DEF n
    <3> QED BY <2>3, <3>5, <3>7, <3>9, <3>10, RoomOf DEF Room
  <2> QED BY <2>4, <2>5
<1> QED BY <1>1, <1>2

\* A task enters the semaphore where there is a place.
LEMMA RoomTask ==
  ASSUME TypeOK, NEW i \in Instances, Room(i), NEW t \in Tasks, TaskStep(t) \/ TaskFault(t)
  PROVE  Room(i)'
<1> USE DEF Goto
<1>0. pc \in [Tasks -> Pcs]
  BY DEF TypeOK
<1>1. poll' = poll /\ Mine(i)' \subseteq Mine(i)
  BY DEF TaskStep, TaskFault, Handler, Acquire, Leave, Fetch, HandlerReturns, HandlerRaises,
         MarkProcessed, ReadAttempts, SetAttempts, MarkErrored, ClearAttempts, Release,
         Announce, MarkFails, ErrorPathFails, ReleaseFails, Mine
<1>2. CASE Acquire(t)
  <2>1. pc' = [pc EXCEPT ![t] = "loop"] /\ Mine(i)' = Mine(i)
    BY <1>2 DEF Acquire, Mine
  <2>2. CASE t \notin TasksOf(i)
    <3>1. InBody(i)' \subseteq InBody(i)
      BY <1>0, <2>1, <2>2 DEF InBody
    <3> QED BY <1>1, <3>1, RoomFrame
  <2>3. CASE t \in TasksOf(i)
    <3>1. t[1] = i
      BY <2>3 DEF TasksOf
    <3>2. Cardinality(InBody(i)) < WorkerLimit
      BY <1>2, <3>1 DEF Acquire
    <3>3. InBody(i)' = InBody(i) \cup {t}
      BY <1>0, <2>1, <2>3 DEF InBody, Body
    <3>4. /\ IsFiniteSet(InBody(i)')
          /\ Cardinality(InBody(i)') = IF t \in InBody(i) THEN Cardinality(InBody(i))
                                       ELSE Cardinality(InBody(i)) + 1
      BY <3>3, FS_AddElement DEF Room
    <3>5. Cardinality(InBody(i)') <= WorkerLimit
      BY <3>2, <3>4, RoomCounts, QueueAssumption
    <3> QED BY <1>1, <2>1, <3>4, <3>5 DEF Room
  <2> QED BY <2>2, <2>3
<1>3. CASE ~ Acquire(t)
  <2>1. pc[t] \in Body /\ \A u \in Tasks \ {t} : pc'[u] = pc[u]
    BY <1>0, <1>3
    DEF TaskStep, TaskFault, Handler, Leave, Fetch, HandlerReturns, HandlerRaises,
        MarkProcessed, ReadAttempts, SetAttempts, MarkErrored, ClearAttempts, Release,
        Announce, MarkFails, ErrorPathFails, ReleaseFails, AfterError, Body
  <2>2. InBody(i)' \subseteq InBody(i)
    BY <2>1 DEF InBody, TasksOf, Tasks
  <2> QED BY <1>1, <2>2, RoomFrame
<1> QED BY <1>2, <1>3

LEMMA RoomNext ==
  ASSUME TypeOK, IsFiniteSet(Keys), NEW i \in Instances, Room(i), [Next]_vars
  PROVE  Room(i)'
<1> USE DEF taskVars, Mine, InBody
<1>1. CASE UNCHANGED <<pc, owned, poll>>
  BY <1>1, RoomFrame
<1>2. ASSUME NEW j \in Items, Insert(j) \/ Commit(j) PROVE Room(i)'
  BY <1>1, <1>2 DEF Insert, Commit
<1>3. CASE CleanupQueueItems \/ UNCHANGED vars
  BY <1>1, <1>3 DEF CleanupQueueItems, vars
<1>4. ASSUME NEW j \in Instances,
             \/ \E k \in Keys : PollSelect(j, k)
             \/ PollClaim(j) \/ PollStart(j)
      PROVE  Room(i)'
  BY <1>4, RoomSelect, RoomClaim, RoomStart
<1>5. ASSUME NEW j \in Instances, CleanupStale(j) \/ Signal(j) \/ Restart(j) PROVE Room(i)'
  BY <1>1, <1>5 DEF CleanupStale, Signal, Restart
<1>6. ASSUME NEW k \in Keys, Expire(k) PROVE Room(i)'
  BY <1>1, <1>6 DEF Expire
<1>7. ASSUME NEW t \in Tasks, TaskStep(t) \/ TaskFault(t) PROVE Room(i)'
  BY <1>7, RoomTask
<1>8. ASSUME NEW j \in Instances, StopCleanup(j) PROVE Room(i)'
  BY <1>8, RoomFrame DEF StopCleanup
<1>9. ASSUME NEW j \in Instances, Exit(j) \/ Crash(j) PROVE Room(i)'
  <2>1. poll'[i] \in {poll[i], NoPoll}
    BY <1>9 DEF Exit, Crash, Vanish, TypeOK
  <2>2. Mine(i)' \subseteq Mine(i) /\ InBody(i)' \subseteq InBody(i)
    BY <1>9 DEF Exit, Crash, Vanish, TasksOf, Tasks, Body
  <2> QED BY <2>1, <2>2, RoomFrame
<1> QED BY <1>2, <1>3, <1>4, <1>5, <1>6, <1>7, <1>8, <1>9 DEF Next

\* With finitely many work units, a process never owns more of them than it has
\* workers, although it counts them before it claims: what the polling loop has
\* selected is claimed and started before it selects again.
THEOREM WithinCapacityHolds == IsFiniteSet(Keys) => (Spec => []WithinCapacity)
<1> SUFFICES ASSUME IsFiniteSet(Keys) PROVE Spec => []WithinCapacity
  OBVIOUS
<1> DEFINE RoomInv == \A i \in Instances : Room(i)
<1>1. Init => RoomInv
  <2> SUFFICES ASSUME Init, NEW i \in Instances PROVE Room(i)
    OBVIOUS
  <2>1. Mine(i) = {} /\ InBody(i) = {} /\ poll[i].keys = {} /\ poll[i].claims = {}
    BY DEF Init, Mine, InBody, Body, NoPoll, TasksOf, Tasks
  <2> QED BY <2>1, FS_EmptySet, QueueAssumption DEF Room
<1>2. TypeOK /\ RoomInv /\ [Next]_vars => RoomInv'
  BY RoomNext
<1>3. RoomInv => WithinCapacity
  <2> SUFFICES ASSUME NEW i \in Instances, Room(i)
               PROVE  /\ Cardinality(Mine(i)) <= WorkerLimit
                      /\ Cardinality(InBody(i)) <= WorkerLimit
    BY DEF WithinCapacity, Mine
  <2> QED BY RoomCounts, QueueAssumption DEF Room
<1> HIDE DEF RoomInv
<1> QED BY <1>1, <1>2, <1>3, TypeCorrect, PTL DEF Spec

-----------------------------------------------------------------------------
(* Mutual exclusion: while no handler outlasts the stale timeout and no    *)
(* process is asked to stop, a task at work holds the claim of its unit,   *)
(* so nobody else works on its items, whatever crashes, restarts and       *)
(* failed transactions there are.                                          *)

-----------------------------------------------------------------------------
(* A task at work holds a claim that is not stale.                         *)

Quiet == Budget["stall"] = 0 /\ Budget["stop"] = 0

Working(t) == pc[t] \notin {"none", "announce"}

StaysQuiet ==
  /\ left["stall"] = 0 /\ left["stop"] = 0
  /\ \A i \in Instances : proc[i] \in {"up", "down"}

WorkersHold == \A t \in Tasks : Working(t) => Holds(t) /\ job[t].key \notin stale

PollsHold ==
  \A i \in Instances : \A c \in poll[i].claims : aqs[c[1]] = c[2] /\ c[1] \notin stale

HoldInv == StaysQuiet /\ WorkersHold /\ PollsHold

LEMMA HoldInit == Quiet /\ Init => HoldInv
  BY DEF Quiet, Init, HoldInv, StaysQuiet, WorkersHold, PollsHold, Working, NoPoll

\* Steps that start no task, make no claim and take none away.
LEMMA HoldFrame ==
  ASSUME HoldInv, StaysQuiet',
         aqs' = aqs, stale' \subseteq stale,
         \A t \in Tasks : Working(t)' => /\ Working(t)
                                         /\ job'[t].key = job[t].key
                                         /\ job'[t].claim = job[t].claim,
         \A i \in Instances : poll'[i].claims \subseteq poll[i].claims
  PROVE  HoldInv'
<1>1. WorkersHold'
  BY DEF HoldInv, WorkersHold, Holds
<1>2. PollsHold'
  BY DEF HoldInv, PollsHold
<1> QED BY <1>1, <1>2 DEF HoldInv

LEMMA QuietStep ==
  ASSUME TypeOK, StaysQuiet, [Next]_vars
  PROVE  StaysQuiet'
<1> USE DEF StaysQuiet, Spend, TypeOK, Mishaps
<1>1. ASSUME NEW t \in Tasks, TaskStep(t) PROVE StaysQuiet'
  BY <1>1 DEF TaskStep, Handler, Acquire, Leave, Fetch, HandlerReturns, HandlerRaises,
              MarkProcessed, ReadAttempts, SetAttempts, MarkErrored, ClearAttempts,
              Release, Announce
<1>2. ASSUME NEW t \in Tasks, TaskFault(t) PROVE StaysQuiet'
  BY <1>2 DEF TaskFault, MarkFails, ErrorPathFails, ReleaseFails
<1>3. ASSUME NEW k \in Keys, Expire(k) PROVE StaysQuiet'
  BY <1>3 DEF Expire
<1>4. ASSUME NEW i \in Instances, Crash(i) \/ Exit(i) PROVE StaysQuiet'
  BY <1>4 DEF Crash, Exit, Vanish
<1>5. ASSUME NEW i \in Instances, Restart(i) PROVE StaysQuiet'
  BY <1>5 DEF Restart
<1>6. ASSUME NEW i \in Instances, Signal(i) \/ StopCleanup(i) PROVE StaysQuiet'
  BY <1>6, SMTT(60) DEF Signal, StopCleanup
<1>7. CASE UNCHANGED <<left, proc>>
  BY <1>7
<1> QED BY <1>1, <1>2, <1>3, <1>4, <1>5, <1>6, <1>7
        DEF Next, vars, Insert, Commit, CleanupQueueItems, PollSelect, PollClaim,
            PollStart, CleanupStale

LEMMA HoldTask ==
  ASSUME TypeOK, ClaimInv, HoldInv, StaysQuiet', NEW t \in Tasks,
         TaskStep(t) \/ TaskFault(t)
  PROVE  HoldInv'
<1> USE DEF Goto, Working, Jobs
<1>0. /\ pc \in [Tasks -> Pcs] /\ job \in [Tasks -> Jobs]
      /\ aqs \in [Keys -> ClaimIds \cup {NoClaim}]
  BY DEF TypeOK
<1>1. CASE Acquire(t) \/ Leave(t) \/ HandlerReturns(t) \/ HandlerRaises(t)
           \/ MarkFails(t) \/ ErrorPathFails(t)
  BY <1>0, <1>1, HoldFrame
  DEF Acquire, Leave, HandlerReturns, HandlerRaises, AfterError, MarkFails, ErrorPathFails,
      claimVars
<1>2. CASE MarkProcessed(t) \/ SetAttempts(t) \/ MarkErrored(t) \/ ClearAttempts(t)
  BY <1>0, <1>2, HoldFrame
  DEF MarkProcessed, SetAttempts, MarkErrored, ClearAttempts, Touch, claimVars
<1>3. CASE Fetch(t)
  BY <1>0, <1>3, HoldFrame DEF Fetch, claimVars
<1>4. CASE ReadAttempts(t)
  <2>1. /\ poll' = poll /\ aqs' = aqs /\ stale' = stale
        /\ \E to \in {"count", "error"} : pc[t] = "retry" /\ pc' = [pc EXCEPT ![t] = to]
    BY <1>4 DEF ReadAttempts, claimVars
  <2>2. job' = job \/ job' = [job EXCEPT ![t] = [job[t] EXCEPT !.att = Charged(t)]]
    BY <1>4 DEF ReadAttempts
  <2>3. \A u \in Tasks : job'[u].key = job[u].key /\ job'[u].claim = job[u].claim
    BY <1>0, <2>2
  <2> QED BY <1>0, <2>1, <2>3, HoldFrame
<1>5. CASE Release(t)
  <2>1. \A u \in Tasks : Working(u)' => u # t /\ Working(u) /\ job'[u] = job[u]
    BY <1>0, <1>5 DEF Release
  <2>2. poll' = poll
    BY <1>5 DEF Release
  <2>3. CASE ~Removes(t)
    BY <1>5, <2>1, <2>2, <2>3, HoldFrame DEF Release, claimVars
  <2>4. CASE Removes(t)
    <3>1. /\ aqs' = [aqs EXCEPT ![job[t].key] = NoClaim]
          /\ stale' = stale \ {job[t].key}
      BY <1>5, <2>4 DEF Release
    <3>2. ASSUME NEW u \in Tasks, Working(u)' PROVE Holds(u)' /\ job'[u].key \notin stale'
      <4>1. Working(u) /\ u # t /\ job'[u] = job[u] /\ Holds(u) /\ job[u].key \notin stale
        BY <2>1, <3>2 DEF HoldInv, WorkersHold
      <4>2. job[u].key # job[t].key
        BY <1>5, <2>4, <4>1 DEF Removes, Holds, ClaimInv, TasksApart, Tracked, Release
      <4> QED BY <1>0, <3>1, <4>1, <4>2 DEF Holds
    <3>3. PollsHold'
      <4> SUFFICES ASSUME NEW i \in Instances, NEW c \in poll[i].claims
                   PROVE  aqs'[c[1]] = c[2] /\ c[1] \notin stale'
        BY <2>2 DEF PollsHold
      <4>1. c \in Keys \X ClaimIds
        BY DEF TypeOK
      <4>2. c[1] # job[t].key
        BY <1>5, <2>4 DEF Removes, Holds, ClaimInv, PollsAndTasksApart, Tracked, Release,
                          HoldInv, PollsHold
      <4> QED BY <1>0, <3>1, <4>1, <4>2 DEF HoldInv, PollsHold
    <3> QED BY <3>2, <3>3 DEF HoldInv, WorkersHold
  <2> QED BY <2>3, <2>4
<1>6. CASE ReleaseFails(t)
  <2>1. \A u \in Tasks : job'[u].key = job[u].key /\ job'[u].claim = job[u].claim
    BY <1>0, <1>6 DEF ReleaseFails
  <2> QED BY <1>0, <1>6, <2>1, HoldFrame DEF ReleaseFails, claimVars
<1>7. CASE Announce(t)
  BY <1>0, <1>7, HoldFrame DEF Announce, claimVars
<1> QED BY <1>1, <1>2, <1>3, <1>4, <1>5, <1>6, <1>7 DEF TaskStep, Handler, TaskFault

\* A claim is made where there is none, so no task at work loses its own.
LEMMA HoldPollClaim ==
  ASSUME TypeOK, ClaimInv, HoldInv, StaysQuiet', NEW i \in Instances, PollClaim(i)
  PROVE  HoldInv'
<1>1. PICK id \in [Won(i) -> ClaimIds \ ClaimsInUse] :
        /\ aqs' = [k \in Keys |-> IF k \in Won(i) THEN id[k] ELSE aqs[k]]
        /\ stale' = stale \ Won(i)
        /\ poll' = [poll EXCEPT ![i] = [keys |-> {}, claims |-> Returned(i, id)]]
  BY DEF PollClaim
<1>2. poll'[i].claims = {<<k, id[k]>> : k \in Won(i)}
      /\ \A j \in Instances : j # i => poll'[j] = poll[j]
  BY <1>1 DEF TypeOK, Returned
<1>3. UNCHANGED <<pc, job>>
  BY DEF PollClaim, taskVars
<1>4. WorkersHold'
  <2> SUFFICES ASSUME NEW t \in Tasks, Working(t)'
               PROVE  Holds(t)' /\ job'[t].key \notin stale'
    BY DEF WorkersHold
  <2>1. Holds(t) /\ job[t].key \notin stale /\ job[t].claim # NoClaim
    BY <1>3, QueueAssumption
    DEF HoldInv, WorkersHold, Working, ClaimInv, ClaimTyped, Tracked
  <2>2. job[t].key \notin Won(i)
    BY <2>1 DEF Won, Holds
  <2> QED BY <1>1, <1>3, <2>1, <2>2 DEF Holds
<1>5. PollsHold'
  <2> SUFFICES ASSUME NEW j \in Instances, NEW c \in poll'[j].claims
               PROVE  aqs'[c[1]] = c[2] /\ c[1] \notin stale'
    BY DEF PollsHold
  <2>1. CASE j = i
    <3>1. PICK k \in Won(i) : c = <<k, id[k]>>
      BY <1>2, <2>1
    <3>2. k \in Keys
      BY DEF Won, TypeOK
    <3> QED BY <1>1, <3>1, <3>2
  <2>2. CASE j # i
    <3>1. c \in poll[j].claims /\ c \in Keys \X ClaimIds
      BY <1>2, <2>2 DEF TypeOK
    <3>2. aqs[c[1]] = c[2] /\ c[1] \notin stale
      BY <3>1 DEF HoldInv, PollsHold
    <3>3. c[1] \notin Won(i)
      BY <3>1, <3>2, QueueAssumption DEF Won
    <3> QED BY <1>1, <3>1, <3>2, <3>3
  <2> QED BY <2>1, <2>2
<1> QED BY <1>4, <1>5 DEF HoldInv

LEMMA HoldPollStart ==
  ASSUME TypeOK, HoldInv, StaysQuiet', NEW i \in Instances, PollStart(i)
  PROVE  HoldInv'
<1>0. /\ poll'[i].claims = {} /\ \A j \in Instances : j # i => poll'[j] = poll[j]
      /\ aqs' = aqs /\ stale' = stale
  BY DEF PollStart, NoPoll, TypeOK, claimVars
<1>1. CASE proc[i] # "up"
  BY <1>0, <1>1, HoldFrame DEF PollStart, taskVars, Working
<1>2. CASE proc[i] = "up"
  <2>1. PICK T \in SUBSET FreeTasks(i) : \E claim \in Bijection(T, poll[i].claims) :
          /\ pc' = [u \in Tasks |-> IF u \in T THEN "start" ELSE pc[u]]
          /\ job' = [u \in Tasks |-> IF u \in T THEN NewJob(claim[u]) ELSE job[u]]
    BY <1>2 DEF PollStart
  <2>2. PICK claim \in [T -> poll[i].claims] :
          /\ pc' = [u \in Tasks |-> IF u \in T THEN "start" ELSE pc[u]]
          /\ job' = [u \in Tasks |-> IF u \in T THEN NewJob(claim[u]) ELSE job[u]]
    BY <2>1 DEF Bijection, Injection
  <2>3. WorkersHold'
    <3> SUFFICES ASSUME NEW t \in Tasks, Working(t)'
                 PROVE  Holds(t)' /\ job'[t].key \notin stale'
      BY DEF WorkersHold
    <3>1. CASE t \in T
      <4>1. job'[t].key = claim[t][1] /\ job'[t].claim = claim[t][2]
            /\ claim[t] \in poll[i].claims /\ claim[t] \in Keys \X ClaimIds
        BY <2>2, <3>1 DEF NewJob, TypeOK
      <4> QED BY <1>0, <4>1 DEF HoldInv, PollsHold, Holds
    <3>2. CASE t \notin T
      BY <1>0, <2>2, <3>2 DEF HoldInv, WorkersHold, Working, Holds
    <3> QED BY <3>1, <3>2
  <2>4. PollsHold'
    BY <1>0 DEF HoldInv, PollsHold
  <2> QED BY <2>3, <2>4 DEF HoldInv
<1> QED BY <1>1, <1>2

\* Without stalls only abandoned claims go stale, and only those are deleted.
LEMMA HoldClock ==
  ASSUME TypeOK, HoldInv, StaysQuiet',
         \/ \E k \in Keys : Expire(k)
         \/ \E i \in Instances : CleanupStale(i)
  PROVE  HoldInv'
<1>0. UNCHANGED <<pc, job, poll>>
  BY DEF Expire, CleanupStale, taskVars
<1>1. ASSUME NEW k \in Keys, Expire(k) PROVE HoldInv'
  <2>1. ~LiveClaim(k) /\ aqs' = aqs /\ stale' = stale \cup {k}
    BY <1>1 DEF Expire, Spend, HoldInv, StaysQuiet
  <2>2. WorkersHold'
    BY <1>0, <2>1 DEF HoldInv, WorkersHold, Working, Holds, LiveClaim
  <2>3. PollsHold'
    <3> SUFFICES ASSUME NEW i \in Instances, NEW c \in poll[i].claims
                 PROVE  aqs'[c[1]] = c[2] /\ c[1] \notin stale'
      BY <1>0 DEF PollsHold
    <3>1. c = <<c[1], c[2]>> /\ aqs[c[1]] = c[2] /\ c[1] \notin stale
      BY DEF TypeOK, HoldInv, PollsHold
    <3>2. c[1] # k
      BY <2>1, <3>1 DEF LiveClaim
    <3> QED BY <2>1, <3>1, <3>2
  <2> QED BY <2>2, <2>3 DEF HoldInv
<1>2. ASSUME NEW i \in Instances, CleanupStale(i) PROVE HoldInv'
  <2>1. /\ aqs' = [k \in Keys |-> IF k \in stale THEN NoClaim ELSE aqs[k]]
        /\ stale' = {}
    BY <1>2 DEF CleanupStale, StaleUnits
  <2>2. WorkersHold'
    BY <1>0, <2>1 DEF HoldInv, WorkersHold, Working, Holds
  <2>3. PollsHold'
    <3> SUFFICES ASSUME NEW j \in Instances, NEW c \in poll[j].claims
                 PROVE  aqs'[c[1]] = c[2] /\ c[1] \notin stale'
      BY <1>0 DEF PollsHold
    <3>1. c[1] \in Keys /\ aqs[c[1]] = c[2] /\ c[1] \notin stale
      BY DEF TypeOK, HoldInv, PollsHold
    <3> QED BY <2>1, <3>1
  <2> QED BY <2>2, <2>3 DEF HoldInv
<1> QED BY <1>1, <1>2

LEMMA HoldNext ==
  ASSUME TypeOK, ClaimInv, HoldInv, [Next]_vars
  PROVE  HoldInv'
<1>0. StaysQuiet'
  BY QuietStep DEF HoldInv
<1> USE DEF taskVars, claimVars, Working
<1>1. ASSUME NEW i \in Items, Insert(i) \/ Commit(i) PROVE HoldInv'
  BY <1>0, <1>1, HoldFrame DEF Insert, Commit
<1>2. CASE CleanupQueueItems
  BY <1>0, <1>2, HoldFrame DEF CleanupQueueItems
<1>3. ASSUME NEW i \in Instances, NEW k \in Keys, PollSelect(i, k) PROVE HoldInv'
  <2>1. \A j \in Instances : poll'[j].claims = poll[j].claims
    BY <1>3 DEF PollSelect, TypeOK
  <2> QED BY <1>0, <1>3, <2>1, HoldFrame DEF PollSelect
<1>4. ASSUME NEW i \in Instances, PollClaim(i) \/ PollStart(i) PROVE HoldInv'
  BY <1>0, <1>4, HoldPollClaim, HoldPollStart
<1>5. CASE (\E k \in Keys : Expire(k)) \/ (\E i \in Instances : CleanupStale(i))
  BY <1>0, <1>5, HoldClock
<1>6. ASSUME NEW t \in Tasks, TaskStep(t) \/ TaskFault(t) PROVE HoldInv'
  BY <1>0, <1>6, HoldTask
<1>7. ASSUME NEW i \in Instances, Signal(i) \/ StopCleanup(i) \/ Exit(i) PROVE HoldInv'
  BY <1>7 DEF Signal, StopCleanup, Exit, Spend, HoldInv, StaysQuiet
<1>8. ASSUME NEW i \in Instances, Crash(i) PROVE HoldInv'
  <2>1. \A t \in Tasks : Working(t)' => Working(t) /\ job'[t] = job[t]
    BY <1>8 DEF Crash, Vanish
  <2>2. \A j \in Instances : poll'[j].claims \subseteq poll[j].claims
    BY <1>8 DEF Crash, Vanish, NoPoll, TypeOK
  <2> QED BY <1>0, <1>8, <2>1, <2>2, HoldFrame DEF Crash, Vanish
<1>9. ASSUME NEW i \in Instances, Restart(i) PROVE HoldInv'
  BY <1>0, <1>9, HoldFrame DEF Restart
<1>10. CASE UNCHANGED vars
  BY <1>0, <1>10, HoldFrame DEF vars
<1> QED BY <1>1, <1>2, <1>3, <1>4, <1>5, <1>6, <1>7, <1>8, <1>9, <1>10 DEF Next

LEMMA HoldInvHolds == Quiet => (Spec => []HoldInv)
  BY HoldInit, HoldNext, ClaimInvHolds, TypeCorrect, PTL DEF Spec

-----------------------------------------------------------------------------
(* What a task has fetched stays unprocessed until the task settles it,    *)
(* and the count it is about to write is above the one it will replace.    *)

Unsettled(t) == pc[t] \in {"work", "mark", "retry", "count", "error"}

WorkInv ==
  /\ \A t \in Tasks : Unsettled(t) => \A i \in job[t].items : status[i] = "pending"
  /\ \A t \in Tasks : pc[t] = "count" =>
       /\ job[t].att > 0
       /\ \A i \in Pending(job[t].key) : IsOldest(i, job[t].key) => attempts[i] < job[t].att

\* Two tasks at work have different work units, hence different items.
LEMMA WorkersApart ==
  ASSUME TypeOK, ClaimInv, HoldInv, OrderInv,
         NEW t \in Tasks, NEW u \in Tasks, t # u, Working(t), Working(u)
  PROVE  job[t].key # job[u].key /\ job[t].items \cap job[u].items = {}
<1>1. job[t].key # job[u].key
  BY DEF HoldInv, WorkersHold, Holds, ClaimInv, TasksApart, Tracked, Working
<1>2. \A i \in job[t].items : KeyOf[i] = job[t].key
  BY DEF OrderInv, ItemInv
<1>3. \A i \in job[u].items : KeyOf[i] = job[u].key
  BY DEF OrderInv, ItemInv
<1> QED BY <1>1, <1>2, <1>3

\* Steps that settle no row, change no count and bring no task to work.
LEMMA WorkFrame ==
  ASSUME TypeOK, OrderInv, WorkInv,
         attempts' = attempts,
         \A i \in Items : status[i] = "pending" => qid'[i] = qid[i],
         \A i \in Items : status[i] = "pending" <=> status'[i] = "pending",
         \A t \in Tasks : Unsettled(t)' => /\ Unsettled(t)
                                           /\ pc'[t] = "count" => pc[t] = "count"
                                           /\ job'[t] = job[t]
  PROVE  WorkInv'
<1>0. \A t \in Tasks : job[t].items \subseteq Items
  BY DEF TypeOK, Jobs
<1>1. \A t \in Tasks : Unsettled(t)' => \A i \in job'[t].items : status'[i] = "pending"
  BY <1>0 DEF WorkInv
<1>2. \A k : /\ Pending(k)' = Pending(k)
             /\ \A i \in Pending(k) : qid'[i] = qid[i]
  BY DEF Pending
<1>4. \A t \in Tasks : pc'[t] = "count" => job'[t].att > 0
  BY DEF WorkInv, Unsettled
<1>3. ASSUME NEW t \in Tasks, pc'[t] = "count",
             NEW i \in Pending(job[t].key)', IsOldest(i, job[t].key)'
      PROVE  attempts'[i] < job'[t].att
  <2>1. pc[t] = "count" /\ job'[t] = job[t]
    BY <1>3 DEF Unsettled
  <2> QED BY <1>2, <1>3, <2>1 DEF WorkInv, IsOldest
<1> QED BY <1>1, <1>3, <1>4 DEF WorkInv

\* A row that is committed with a smaller id than the oldest has no attempts.
LEMMA WorkCommit ==
  ASSUME TypeOK, OrderInv, WorkInv, NEW i \in Items, Commit(i)
  PROVE  WorkInv'
<1>1. /\ UNCHANGED <<qid, attempts, pc, job>>
      /\ \A j \in Items : status'[j] = IF j = i THEN "pending" ELSE status[j]
      /\ status[i] = "filing"
  BY DEF Commit, TypeOK, taskVars
<1>2. attempts[i] = 0
  BY <1>1 DEF OrderInv, RowInv, Unfiled
<1>3. \A t \in Tasks : Unsettled(t)' => \A j \in job'[t].items : status'[j] = "pending"
  BY <1>1 DEF WorkInv, TypeOK, Jobs, Unsettled
<1>4. ASSUME NEW t \in Tasks, pc'[t] = "count",
             NEW j \in Pending(job[t].key)', IsOldest(j, job[t].key)'
      PROVE  attempts'[j] < job'[t].att
  <2>1. pc[t] = "count" /\ job'[t] = job[t]
    BY <1>1, <1>4
  <2>2. \A l \in Pending(job[t].key) : l \in Pending(job[t].key)'
    BY <1>1 DEF Pending
  <2>3. CASE j # i
    <3>1. j \in Pending(job[t].key) /\ IsOldest(j, job[t].key)
      BY <1>1, <1>4, <2>1, <2>2, <2>3 DEF Pending, IsOldest
    <3> QED BY <1>1, <2>1, <3>1 DEF WorkInv
  <2>4. CASE j = i
    BY <1>1, <1>2, <2>1, <2>4 DEF WorkInv
  <2> QED BY <2>3, <2>4
<1>5. \A t \in Tasks : pc'[t] = "count" => job'[t].att > 0
  BY <1>1 DEF WorkInv
<1> QED BY <1>3, <1>4, <1>5 DEF WorkInv

\* A task that marks rows marks its own; no other task is at work on them.
LEMMA WorkMarks ==
  ASSUME TypeOK, ClaimInv, HoldInv, OrderInv, WorkInv, NEW t \in Tasks,
         MarkProcessed(t) \/ MarkErrored(t)
  PROVE  WorkInv'
<1>0. /\ UNCHANGED <<qid, attempts, job>>
      /\ \A u \in Tasks : u # t => pc'[u] = pc[u]
      /\ pc'[t] \in {"loop", "clear"} /\ Working(t)
  BY DEF MarkProcessed, MarkErrored, Goto, TypeOK, Working
<1>1. \A i \in Items : i \notin job[t].items => status'[i] = status[i]
  BY DEF MarkProcessed, MarkErrored, Marked, IsHead
<1>2. \A i \in Items : status'[i] = "pending" => status[i] = "pending"
  BY DEF MarkProcessed, MarkErrored
<1>3. ASSUME NEW u \in Tasks, Unsettled(u)'
      PROVE  /\ Unsettled(u) /\ u # t
             /\ \A i \in job[u].items : status'[i] = status[i]
             /\ \A i \in Pending(job[u].key) : status'[i] = "pending"
  <2>1. Unsettled(u) /\ u # t /\ Working(u)
    BY <1>0, <1>3 DEF Unsettled, Working
  <2>2. job[t].key # job[u].key /\ job[t].items \cap job[u].items = {}
    BY <1>0, <2>1, WorkersApart
  <2>3. \A i \in job[u].items : i \in Items /\ i \notin job[t].items
    BY <2>2 DEF TypeOK, Jobs
  <2>4. \A i \in Pending(job[u].key) : i \in Items /\ i \notin job[t].items
    BY <2>2 DEF Pending, OrderInv, ItemInv
  <2> QED BY <1>1, <2>1, <2>3, <2>4 DEF Pending
<1>4. \A u \in Tasks : Unsettled(u)' => \A i \in job'[u].items : status'[i] = "pending"
  BY <1>0, <1>3 DEF WorkInv
<1>5. ASSUME NEW u \in Tasks, pc'[u] = "count"
      PROVE  /\ job'[u].att > 0
             /\ \A i \in Pending(job[u].key)' : IsOldest(i, job[u].key)' => attempts'[i] < job'[u].att
  <2>1. Unsettled(u)' /\ pc[u] = "count"
    BY <1>0, <1>5 DEF Unsettled
  <2>2. Pending(job[u].key)' = Pending(job[u].key)
    BY <1>0, <1>2, <1>3, <2>1 DEF Pending
  <2> QED BY <1>0, <2>1, <2>2 DEF WorkInv, IsOldest
<1> QED BY <1>4, <1>5 DEF WorkInv

\* Counts are written on rows of the task's own work unit.
LEMMA WorkCounts ==
  ASSUME TypeOK, ClaimInv, HoldInv, OrderInv, WorkInv, NEW t \in Tasks,
         SetAttempts(t) \/ ClearAttempts(t)
  PROVE  WorkInv'
<1>0. /\ UNCHANGED <<qid, status, job>>
      /\ \A u \in Tasks : u # t => pc'[u] = pc[u]
      /\ pc'[t] \in {"loop", "release"} /\ Working(t)
  BY DEF SetAttempts, ClearAttempts, Goto, TypeOK, Working
<1>1. \A i \in Items : i \notin Pending(job[t].key) => attempts'[i] = attempts[i]
  BY DEF SetAttempts, ClearAttempts, CountedOn, IsOldest
<1>2. \A u \in Tasks : Unsettled(u)' => u # t /\ Unsettled(u)
  BY <1>0 DEF Unsettled
<1>3. \A k : Pending(k)' = Pending(k)
  BY <1>0 DEF Pending
<1>4. ASSUME NEW u \in Tasks, pc'[u] = "count"
      PROVE  /\ job'[u].att > 0
             /\ \A i \in Pending(job[u].key)' : IsOldest(i, job[u].key)' => attempts'[i] < job'[u].att
  <2>1. u # t /\ pc[u] = "count" /\ Working(u)
    BY <1>0, <1>4 DEF Working
  <2>2. job[t].key # job[u].key
    BY <1>0, <2>1, WorkersApart
  <2>3. \A i \in Pending(job[u].key) : attempts'[i] = attempts[i]
    BY <1>1, <2>2 DEF Pending
  <2> QED BY <1>0, <1>3, <2>1, <2>3 DEF WorkInv, IsOldest
<1> QED BY <1>0, <1>2, <1>4 DEF WorkInv

LEMMA WorkRead ==
  ASSUME TypeOK, OrderInv, WorkInv, NEW t \in Tasks, ReadAttempts(t)
  PROVE  WorkInv'
<1>0. /\ UNCHANGED <<qid, status, attempts>>
      /\ \A u \in Tasks : u # t => pc'[u] = pc[u] /\ job'[u] = job[u]
      /\ pc[t] = "retry" /\ pc'[t] \in {"count", "error"}
  BY DEF ReadAttempts, Goto, TypeOK, rowVars
<1>1. /\ job'[t].items = job[t].items /\ job'[t].key = job[t].key
      /\ pc'[t] = "count" => job'[t].att = Charged(t)
  <2>1. CASE MayRetry(Charged(t))
    <3>1. job' = [job EXCEPT ![t] = [job[t] EXCEPT !.att = Charged(t)]]
      BY <2>1 DEF ReadAttempts
    <3> QED BY <3>1 DEF TypeOK, Jobs
  <2>2. CASE ~MayRetry(Charged(t))
    BY <2>2 DEF ReadAttempts, Goto, TypeOK
  <2> QED BY <2>1, <2>2
<1>2. \A k : Pending(k)' = Pending(k)
  BY <1>0 DEF Pending
<1>3. \A u \in Tasks : Unsettled(u)' => \A i \in job'[u].items : status'[i] = "pending"
  BY <1>0, <1>1 DEF WorkInv, Unsettled
<1>4. ASSUME pc'[t] = "count"
      PROVE  /\ Charged(t) > 0
             /\ \A i \in Pending(job[t].key) : IsOldest(i, job[t].key) => attempts[i] < Charged(t)
  <2> DEFINE P == Pending(job[t].key)
  <2>1. CASE P = {}
    BY <2>1 DEF Charged, Counter
  <2>2. CASE P # {}
    <3> DEFINE h == CHOOSE i \in P : IsOldest(i, job[t].key)
    <3>1. h \in P /\ IsOldest(h, job[t].key)
      BY <2>2, OldestExists
    <3>6. Charged(t) = attempts[h] + 1
      BY <2>2 DEF Charged, Counter
    <3> HIDE DEF h
    <3>2. h \in Items /\ status[h] # "absent" /\ attempts[h] \in Nat /\ qid[h] \in Nat
      BY <3>1, QueueAssumption DEF Pending, TypeOK
    <3>3. ASSUME NEW i \in P, IsOldest(i, job[t].key) PROVE i = h
      <4>1. i \in Items /\ status[i] # "absent" /\ qid[i] \in Nat
        BY DEF Pending, TypeOK
      <4>2. qid[i] <= qid[h] /\ qid[h] <= qid[i]
        BY <3>1, <3>3 DEF IsOldest
      <4>3. qid[i] = qid[h]
        BY <3>2, <4>1, <4>2
      <4> QED BY <3>2, <4>1, <4>3 DEF OrderInv, RowInv
    <3> QED BY <3>2, <3>3, <3>6
  <2> QED BY <2>1, <2>2
<1>5. ASSUME NEW u \in Tasks, pc'[u] = "count"
      PROVE  /\ job'[u].att > 0
             /\ \A i \in Pending(job[u].key)' : IsOldest(i, job[u].key)' => attempts'[i] < job'[u].att
  <2>1. CASE u = t
    BY <1>0, <1>1, <1>2, <1>4, <1>5, <2>1 DEF IsOldest
  <2>2. CASE u # t
    BY <1>0, <1>2, <1>5, <2>2 DEF WorkInv, IsOldest
  <2> QED BY <2>1, <2>2
<1> QED BY <1>3, <1>5 DEF WorkInv

LEMMA WorkFetch ==
  ASSUME TypeOK, OrderInv, WorkInv, NEW t \in Tasks, Fetch(t)
  PROVE  WorkInv'
<1>1. PICK batch \in Fetched(t) :
        /\ job' = [job EXCEPT ![t] = [job[t] EXCEPT !.items = batch, !.att = 0]]
        /\ pc' = [pc EXCEPT ![t] = IF batch = {} THEN "release" ELSE "work"]
  BY DEF Fetch
<1>2. UNCHANGED <<qid, status, attempts>>
  BY DEF Fetch, rowVars
<1>3. /\ \A u \in Tasks : u # t => pc'[u] = pc[u] /\ job'[u] = job[u]
      /\ job'[t].items = batch /\ pc'[t] # "count"
  BY <1>1 DEF TypeOK, Jobs
<1>4. \A i \in batch : status[i] = "pending"
  BY <1>1 DEF Fetched, Pending
<1> QED BY <1>2, <1>3, <1>4 DEF WorkInv, Unsettled, IsOldest, Pending

LEMMA WorkTask ==
  ASSUME TypeOK, ClaimInv, HoldInv, OrderInv, WorkInv, NEW t \in Tasks,
         TaskStep(t) \/ TaskFault(t)
  PROVE  WorkInv'
<1> USE DEF Goto, rowVars
<1>0. pc \in [Tasks -> Pcs] /\ job \in [Tasks -> Jobs]
  BY DEF TypeOK
<1>1. CASE Acquire(t) \/ Leave(t) \/ HandlerReturns(t) \/ HandlerRaises(t)
           \/ MarkFails(t) \/ ErrorPathFails(t)
  BY <1>0, <1>1, WorkFrame
  DEF Acquire, Leave, HandlerReturns, HandlerRaises, AfterError, MarkFails, ErrorPathFails,
      Unsettled
<1>2. CASE MarkProcessed(t) \/ MarkErrored(t)
  BY <1>2, WorkMarks
<1>3. CASE SetAttempts(t) \/ ClearAttempts(t)
  BY <1>3, WorkCounts
<1>4. CASE Fetch(t)
  BY <1>4, WorkFetch
<1>5. CASE ReadAttempts(t)
  BY <1>5, WorkRead
<1>6. CASE Release(t) \/ ReleaseFails(t) \/ Announce(t)
  <2>1. \A u \in Tasks : Unsettled(u)' => u # t /\ pc'[u] = pc[u] /\ job'[u] = job[u]
    BY <1>0, <1>6 DEF Release, ReleaseFails, Announce, Unsettled
  <2>2. UNCHANGED <<status, qid, attempts>>
    BY <1>6 DEF Release, ReleaseFails, Announce
  <2> QED BY <2>1, <2>2, WorkFrame DEF Unsettled
<1> QED BY <1>1, <1>2, <1>3, <1>4, <1>5, <1>6 DEF TaskStep, Handler, TaskFault

LEMMA WorkNext ==
  ASSUME TypeOK, ClaimInv, HoldInv, OrderInv, WorkInv, [Next]_vars
  PROVE  WorkInv'
<1> USE DEF rowVars, taskVars, Unsettled
<1>1. ASSUME NEW i \in Items, Insert(i) PROVE WorkInv'
  <2>1. \A j \in Items : /\ status[j] = "pending" <=> status'[j] = "pending"
                         /\ status[j] = "pending" => qid'[j] = qid[j]
    BY <1>1 DEF Insert, TypeOK
  <2> QED BY <1>1, <2>1, WorkFrame DEF Insert
<1>2. ASSUME NEW i \in Items, Commit(i) PROVE WorkInv'
  BY <1>2, WorkCommit
<1>3. CASE CleanupQueueItems
  <2>1. \A j \in Items : status[j] = "pending" <=> status'[j] = "pending"
    BY <1>3 DEF CleanupQueueItems, TypeOK
  <2> QED BY <1>3, <2>1, WorkFrame DEF CleanupQueueItems
<1>4. ASSUME NEW i \in Instances,
             \/ \E k \in Keys : PollSelect(i, k)
             \/ PollClaim(i) \/ CleanupStale(i) \/ Signal(i) \/ StopCleanup(i) \/ Restart(i)
      PROVE WorkInv'
  BY <1>4, WorkFrame DEF PollSelect, PollClaim, CleanupStale, Signal, StopCleanup, Restart
<1>5. ASSUME NEW i \in Instances, PollStart(i) PROVE WorkInv'
  <2>1. \A u \in Tasks : Unsettled(u)' => pc'[u] = pc[u] /\ job'[u] = job[u]
    BY <1>5 DEF PollStart, TypeOK
  <2>2. UNCHANGED <<status, qid, attempts>>
    BY <1>5 DEF PollStart
  <2> QED BY <2>1, <2>2, WorkFrame
<1>6. ASSUME NEW t \in Tasks, TaskStep(t) \/ TaskFault(t) PROVE WorkInv'
  BY <1>6, WorkTask
<1>7. ASSUME NEW k \in Keys, Expire(k) PROVE WorkInv'
  BY <1>7, WorkFrame DEF Expire
<1>8. ASSUME NEW i \in Instances, Exit(i) \/ Crash(i) PROVE WorkInv'
  <2>1. \A u \in Tasks : Unsettled(u)' => pc'[u] = pc[u] /\ job'[u] = job[u]
    BY <1>8 DEF Exit, Crash, Vanish
  <2>2. UNCHANGED <<status, qid, attempts>>
    BY <1>8 DEF Exit, Crash, Vanish
  <2> QED BY <2>1, <2>2, WorkFrame
<1>9. CASE UNCHANGED vars
  BY <1>9, WorkFrame DEF vars
<1> QED BY <1>1, <1>2, <1>3, <1>4, <1>5, <1>6, <1>7, <1>8, <1>9 DEF Next

LEMMA WorkInvHolds == Quiet => (Spec => []WorkInv)
<1>1. Init => WorkInv
  BY DEF Init, WorkInv, Unsettled
<1> QED BY <1>1, WorkNext, HoldInvHolds, OrderInvHolds, ClaimInvHolds, TypeCorrect, PTL DEF Spec

-----------------------------------------------------------------------------

\* Without stalls and stops, no item is ever in the hands of two tasks.
THEOREM ExclusiveWorkHolds == Quiet => (Spec => []ExclusiveWork)
<1>1. TypeOK /\ ClaimInv /\ HoldInv /\ OrderInv => ExclusiveWork
  <2> SUFFICES ASSUME TypeOK, ClaimInv, HoldInv, OrderInv,
                      NEW t \in Tasks, NEW u \in Tasks, t # u, Busy(t), Busy(u)
               PROVE  job[t].items \cap job[u].items = {}
    BY DEF ExclusiveWork
  <2> QED BY WorkersApart DEF Busy, Working
<1> QED BY <1>1, HoldInvHolds, OrderInvHolds, ClaimInvHolds, TypeCorrect, PTL

LEMMA DoneStep ==
  ASSUME TypeOK, WorkInv, [Next]_vars
  PROVE  KeepsDone
<1> SUFFICES ASSUME NEW i \in Items, status[i] = "done"
             PROVE  status'[i] \in {"done", "deleted"}
  BY DEF KeepsDone
<1>1. CASE status' = status
  BY <1>1
<1>2. ASSUME NEW j \in Items, Insert(j) \/ Commit(j) PROVE status'[i] = "done"
  BY <1>2 DEF Insert, Commit, TypeOK
<1>3. CASE CleanupQueueItems
  BY <1>3 DEF CleanupQueueItems
<1>4. ASSUME NEW t \in Tasks, MarkProcessed(t) PROVE status'[i] = "done"
  BY <1>4 DEF MarkProcessed
<1>5. ASSUME NEW t \in Tasks, MarkErrored(t) PROVE status'[i] = "done"
  BY <1>5 DEF MarkErrored, Goto, IsHead, WorkInv, Unsettled
<1> QED BY <1>1, <1>2, <1>3, <1>4, <1>5
  DEF Next, vars, rowVars, PollSelect, PollClaim, PollStart, CleanupStale, Expire, Signal,
      StopCleanup, Exit, Crash, Restart, Vanish, TaskStep, Handler, TaskFault, Acquire,
      Leave, Fetch, HandlerReturns, HandlerRaises, ReadAttempts, SetAttempts,
      ClearAttempts, Release, Announce, MarkFails, ErrorPathFails, ReleaseFails

\* Without stalls and stops, no success is overwritten by an error.
THEOREM DoneStaysDoneHolds == Quiet => (Spec => DoneStaysDone)
  BY DoneStep, WorkInvHolds, TypeCorrect, PTL DEF Spec, DoneStaysDone

LEMMA ChargesStep ==
  ASSUME TypeOK, WorkInv, [Next]_vars
  PROVE  KeepsCharges
<1> SUFFICES ASSUME NEW i \in Items, status[i] = "pending", attempts'[i] < attempts[i]
             PROVE  \E t \in Tasks : pc[t] = "clear" /\ job[t].key = KeyOf[i]
  BY DEF KeepsCharges
<1>0. attempts[i] \in Nat
  BY QueueAssumption DEF TypeOK
<1>1. CASE attempts' = attempts
  BY <1>0, <1>1
<1>2. ASSUME NEW t \in Tasks, SetAttempts(t) PROVE FALSE
  <2>1. CASE IsOldest(i, job[t].key)
    <3>1. attempts'[i] = job[t].att /\ i \in Pending(job[t].key) /\ pc[t] = "count"
      BY <1>2, <2>1 DEF SetAttempts, CountedOn, IsOldest, Goto
    <3>2. attempts[i] < job[t].att /\ job[t].att \in Nat
      BY <2>1, <3>1, QueueAssumption DEF WorkInv, TypeOK, Jobs
    <3> QED BY <1>0, <3>1, <3>2
  <2>2. CASE ~IsOldest(i, job[t].key)
    BY <1>0, <1>2, <2>2 DEF SetAttempts, CountedOn
  <2> QED BY <2>1, <2>2
<1>3. ASSUME NEW t \in Tasks, ClearAttempts(t)
      PROVE  pc[t] = "clear" /\ job[t].key = KeyOf[i]
  BY <1>0, <1>3 DEF ClearAttempts, Goto, Pending
<1> QED BY <1>1, <1>2, <1>3
  DEF Next, vars, rowVars, Insert, Commit, CleanupQueueItems, PollSelect, PollClaim,
      PollStart, CleanupStale, Expire, Signal, StopCleanup, Exit, Crash, Restart, Vanish,
      TaskStep, Handler, TaskFault, Acquire, Leave, Fetch, HandlerReturns, HandlerRaises,
      MarkProcessed, ReadAttempts, MarkErrored, Release, Announce, MarkFails,
      ErrorPathFails, ReleaseFails

\* Without stalls and stops, the shared retry counter never loses a charge.
THEOREM BudgetOnlyGrowsHolds == Quiet => (Spec => BudgetOnlyGrows)
  BY ChargesStep, WorkInvHolds, TypeCorrect, PTL DEF Spec, BudgetOnlyGrows
=============================================================================
