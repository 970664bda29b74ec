---------------------------- MODULE DeriverQueue ----------------------------
(***************************************************************************)
(* The deriver's database-backed work queue: the queue table, the claim    *)
(* rows of active_queue_sessions, and several deriver processes            *)
(* (QueueManager, src/src/deriver/queue_manager.py) that poll, claim,      *)
(* process, retry, release, stop, crash and restart.                       *)
(*                                                                         *)
(* One step is one database transaction, or one stretch of a coroutine     *)
(* between two awaits.  A transaction that fails is rolled back ("fault"). *)
(***************************************************************************)
EXTENDS Naturals, FiniteSets, Functions

CONSTANTS
  Items,          \* messages to derive, named by their message id
  Keys,           \* work unit keys
  KeyOf,          \* the work unit each item is filed under
  BatchKeys,      \* work units fetched in batches (task type representation)
  AnnouncedKeys,  \* work units whose release publishes a queue.empty event
  Instances,      \* deriver processes
  WorkerLimit,    \* settings.DERIVER.WORKERS
  Slots,          \* names for the tasks a process has at one time
  ClaimIds,       \* ids of claim rows (nanoids: a new row's id is in no use)
  NoClaim,        \* no claim row
  NoKey,          \* no work unit
  MaxAttempts,    \* MAX_RETRYABLE_ATTEMPTS
  Budget          \* bound on the crashes, stops, stalls and faults of a run

Mishaps == {"crash", "stop", "stall", "fault"}

ASSUME QueueAssumption ==
  /\ Items \subseteq Nat
  /\ KeyOf \in [Items -> Keys]
  /\ BatchKeys \subseteq Keys
  /\ AnnouncedKeys \subseteq Keys
  /\ NoClaim \notin ClaimIds
  /\ NoKey \notin Keys
  /\ WorkerLimit \in Nat \ {0}
  /\ MaxAttempts \in Nat \ {0}
  /\ Budget \in [Mishaps -> Nat]

VARIABLES
  status,    \* queue row of each item: processed and error columns
  qid,       \* queue row id of each item
  nextId,    \* the identity column's next value
  attempts,  \* retry counter in the payload of each row
  aqs,       \* active_queue_sessions: the claim row of each work unit
  stale,     \* work units whose claim row outlived the stale timeout
  proc,      \* life cycle of each process
  poll,      \* what each polling loop has selected and claimed
  pc,        \* control point of each worker task
  job,       \* arguments and locals of each worker task
  owned,     \* keys of the worker_ownership dictionaries
  worked,    \* tasks whose queue_item_count is positive
  left,      \* mishaps the run may still have
  handled,   \* history: items a handler has completed without an error
  before     \* history: what was filed before the row of an item was inserted

rowVars  == <<status, qid, nextId, attempts>>
claimVars == <<aqs, stale>>
taskVars == <<pc, job, owned, worked>>
history == <<handled, before>>
vars == <<status, qid, nextId, attempts, aqs, stale, proc, poll,
          pc, job, owned, worked, left, handled, before>>

Tasks == Instances \X Slots
TasksOf(i) == {i} \X Slots
NoJob == [key |-> NoKey, claim |-> NoClaim, items |-> {}, att |-> 0]
NewJob(c) == [key |-> c[1], claim |-> c[2], items |-> {}, att |-> 0]
NoPoll == [keys |-> {}, claims |-> {}]

Spend(m) == left[m] > 0 /\ left' = [left EXCEPT ![m] = @ - 1]

-----------------------------------------------------------------------------
(* The queue table. *)

Pending(k) == {i \in Items : KeyOf[i] = k /\ status[i] = "pending"}

\* _oldest_unprocessed_item: the unprocessed row with the smallest queue id.
IsOldest(i, k) == i \in Pending(k) /\ \A j \in Pending(k) : qid[i] <= qid[j]

\* The head of a fetched batch is its smallest message.
IsHead(i, S) == i \in S /\ \A j \in S : i <= j

\* Holds(t): the claim row the task was created for still exists.
Holds(t) == job[t].key \in Keys /\ aqs[job[t].key] = job[t].claim

\* A request's background task inserts the row of a message, which takes the
\* next id, and commits it: messages are inserted and committed in any order.
\* An exception is logged and swallowed: such a row is never committed.
Insert(i) ==
  /\ status[i] = "absent"
  /\ status' = [status EXCEPT ![i] = "filing"]
  /\ qid' = [qid EXCEPT ![i] = nextId]
  /\ nextId' = nextId + 1
  /\ before' = [before EXCEPT ![i] = {j \in Items : status[j] \notin {"absent", "filing"}}]
  /\ UNCHANGED <<attempts, claimVars, proc, poll, taskVars, left, handled>>

Commit(i) ==
  /\ status[i] = "filing"
  /\ status' = [status EXCEPT ![i] = "pending"]
  /\ UNCHANGED <<qid, nextId, attempts, claimVars, proc, poll, taskVars, left,
                 history>>

\* cleanup_queue_items: processed rows go, errored ones when retained enough.
CleanupQueueItems ==
  \E old \in SUBSET {i \in Items : status[i] = "errored"} :
    LET gone == old \cup {i \in Items : status[i] = "done"}
    IN  /\ gone # {}
        /\ status' = [i \in Items |-> IF i \in gone THEN "deleted" ELSE status[i]]
        /\ UNCHANGED <<qid, nextId, attempts, claimVars, proc, poll, taskVars,
                       left, history>>

-----------------------------------------------------------------------------
(* The polling loop. *)

Idle(i) == poll[i] = NoPoll

Body == {"loop", "work", "mark", "retry", "count", "error", "clear",
         "release", "announce"}

\* Tasks inside `async with self.semaphore`.
InBody(i) == {t \in TasksOf(i) : pc[t] \in Body}

\* Mutant: the limit forgets the units the process owns already.
Capacity_IgnoresOwned(i) == WorkerLimit

Capacity(i) == WorkerLimit - Cardinality(owned \cap TasksOf(i))

Claimable(k) == aqs[k] = NoClaim /\ Pending(k) # {}

\* created_at of a work unit's oldest unprocessed row follows its queue id.
OlderUnit(k, l) ==
  \E i \in Pending(k) : \A j \in Pending(l) : qid[i] < qid[j]

\* The query's ORDER BY oldest LIMIT capacity over the units that pass.
FirstUnits(C, n) ==
  {S \in SUBSET C : /\ Cardinality(S) = IF Cardinality(C) < n
                                         THEN Cardinality(C) ELSE n
                    /\ \A k \in S, l \in C \ S : OlderUnit(k, l)}

\* get_and_claim_work_units, the SELECT: a batch unit passes the token or age
\* gate or not, the others always pass.
PollSelect(i, k) ==
  /\ proc[i] = "up" /\ Idle(i)
  /\ Cardinality(InBody(i)) < WorkerLimit
  /\ Capacity(i) > 0
  /\ \E gated \in SUBSET (BatchKeys \cap {l \in Keys : Claimable(l)}) :
       LET open == gated \cup {l \in Keys \ BatchKeys : Claimable(l)}
       IN  \E S \in FirstUnits(open, Capacity(i)) :
             /\ k \in S
             /\ poll' = [poll EXCEPT ![i].keys = S]
  /\ UNCHANGED <<rowVars, claimVars, proc, taskVars, left, history>>

ClaimsInUse == {aqs[k] : k \in Keys} \cup {job[t].claim : t \in Tasks}
               \cup UNION {{c[2] : c \in poll[i].claims} : i \in Instances}

\* Mutant: the insert replaces a claim row that is there.
Won_Overwrites(i) == poll[i].keys

\* ON CONFLICT DO NOTHING: the units no other process claimed since the SELECT.
Won(i) == {k \in poll[i].keys : aqs[k] = NoClaim}

\* Mutant: the insert also returns the rows it conflicted with.
Returned_Existing(i, id) ==
  {<<k, IF k \in Won(i) THEN id[k] ELSE aqs[k]>> : k \in poll[i].keys}

\* RETURNING work_unit_key, id: the inserted rows only.
Returned(i, id) == {<<k, id[k]>> : k \in Won(i)}

\* claim_work_units and its commit.
PollClaim(i) ==
  /\ poll[i].keys # {}
  /\ \E id \in [Won(i) -> ClaimIds \ ClaimsInUse] :
       /\ IsInjective(id)
       /\ aqs' = [k \in Keys |-> IF k \in Won(i) THEN id[k] ELSE aqs[k]]
       /\ stale' = stale \ Won(i)
       /\ poll' = [poll EXCEPT ![i] = [keys |-> {}, claims |-> Returned(i, id)]]
  /\ UNCHANGED <<rowVars, proc, taskVars, left, history>>

\* create_worker_id makes a new id; an id is in use while its entry is.
FreeTasks(i) == {u \in TasksOf(i) : pc[u] = "none" /\ u \notin owned}

\* The loop over claimed_work_units: one task per claim; none when shutdown
\* was requested meanwhile, and then the claim rows stay behind.
PollStart(i) ==
  /\ poll[i].claims # {}
  /\ poll' = [poll EXCEPT ![i] = NoPoll]
  /\ IF proc[i] # "up" THEN UNCHANGED taskVars
     ELSE \E T \in SUBSET FreeTasks(i) : \E claim \in Bijection(T, poll[i].claims) :
            /\ pc' = [u \in Tasks |-> IF u \in T THEN "start" ELSE pc[u]]
            /\ job' = [u \in Tasks |-> IF u \in T THEN NewJob(claim[u]) ELSE job[u]]
            /\ owned' = owned \cup T
            /\ UNCHANGED worked
  /\ UNCHANGED <<rowVars, claimVars, proc, left, history>>

\* Mutant: the cutoff is not compared.
StaleUnits_All == {k \in Keys : aqs[k] # NoClaim}

\* Mutant: rows of units without work are not looked at.
StaleUnits_WithWork == {k \in stale : Pending(k) # {}}

StaleUnits == stale

\* cleanup_stale_work_units: delete every claim row past the timeout.
CleanupStale(i) ==
  /\ proc[i] = "up" /\ Idle(i)
  /\ Cardinality(InBody(i)) < WorkerLimit
  /\ StaleUnits # {}
  /\ aqs' = [k \in Keys |-> IF k \in StaleUnits THEN NoClaim ELSE aqs[k]]
  /\ stale' = stale \ StaleUnits
  /\ UNCHANGED <<rowVars, proc, poll, taskVars, left, history>>

LiveClaim(k) ==
  \/ \E t \in Tasks : pc[t] # "none" /\ job[t].key = k /\ Holds(t)
  \/ \E i \in Instances : <<k, aqs[k]>> \in poll[i].claims

\* The clock: nobody touched the row for STALE_SESSION_TIMEOUT_MINUTES.  For a
\* row whose worker is alive that is a stall: one item outlasts the timeout.
Expire(k) ==
  /\ aqs[k] # NoClaim /\ k \notin stale
  /\ stale' = stale \cup {k}
  /\ IF LiveClaim(k) THEN Spend("stall") ELSE UNCHANGED left
  /\ UNCHANGED <<rowVars, aqs, proc, poll, taskVars, history>>

-----------------------------------------------------------------------------
(* A worker task: process_work_unit. *)

Goto(t, from, to) == pc[t] = from /\ pc' = [pc EXCEPT ![t] = to]

Acquire(t) ==
  /\ Cardinality(InBody(t[1])) < WorkerLimit
  /\ Goto(t, "start", "loop")
  /\ UNCHANGED <<rowVars, claimVars, proc, poll, job, owned, worked, left, history>>

\* The loop ends: shutdown was requested, or the task lost its ownership.
Leave(t) ==
  /\ proc[t[1]] # "up" \/ t \notin owned
  /\ Goto(t, "loop", "release")
  /\ UNCHANGED <<rowVars, claimVars, proc, poll, job, owned, worked, left, history>>

\* Mutant: the next row is taken without ORDER BY id.
Fetched_AnyRow(t) ==
  LET k == job[t].key
  IN  IF ~Holds(t) \/ Pending(k) = {} THEN {{}} ELSE {{i} : i \in Pending(k)}

\* get_queue_item_batch and get_next_queue_item: nothing without the claim row;
\* a batch is a prefix of the unprocessed messages (token window and equal
\* configuration), never empty; otherwise the oldest row.
Fetched(t) ==
  LET k == job[t].key
  IN  IF ~Holds(t) \/ Pending(k) = {} THEN {{}}
      ELSE IF k \in BatchKeys
           THEN {{j \in Pending(k) : j <= i} : i \in Pending(k)}
           ELSE {{i} : i \in {j \in Pending(k) : IsOldest(j, k)}}

Fetch(t) ==
  /\ proc[t[1]] = "up" /\ t \in owned
  /\ pc[t] = "loop"
  /\ \E batch \in Fetched(t) :
       /\ job' = [job EXCEPT ![t] = [@ EXCEPT !.items = batch, !.att = 0]]
       /\ pc' = [pc EXCEPT ![t] = IF batch = {} THEN "release" ELSE "work"]
  /\ UNCHANGED <<rowVars, claimVars, proc, poll, owned, worked, left, history>>

\* process_item or process_representation_batch returns.
HandlerReturns(t) ==
  /\ Goto(t, "work", "mark")
  /\ handled' = handled \cup job[t].items
  /\ UNCHANGED <<rowVars, claimVars, proc, poll, job, owned, worked, left, before>>

\* Mutant: a terminal error is swallowed.
AfterError_Swallowed == {"retry", "mark"}

\* is_retryable_error sends a batch to the retry counter, any other exception
\* sends it to the terminal mark.
AfterError == {"retry", "error"}

\* The handler raises.
HandlerRaises(t) ==
  /\ \E next \in AfterError : Goto(t, "work", next)
  /\ UNCHANGED <<rowVars, claimVars, proc, poll, job, owned, worked, left, history>>

\* Both marks touch last_updated of the unit's row, whoever claimed it.
Touch(k) == stale' = stale \ {k}

\* Mutant: the UPDATE selects by work unit key alone.
Marked_ByKey(t) == Pending(job[t].key)

\* UPDATE queue WHERE id IN (batch): an error recorded before stays.
Marked(t) == {i \in job[t].items : status[i] = "pending"}

MarkProcessed(t) ==
  /\ Goto(t, "mark", "loop")
  /\ status' = [i \in Items |-> IF i \in Marked(t) THEN "done" ELSE status[i]]
  /\ Touch(job[t].key)
  /\ worked' = worked \cup {t}
  /\ UNCHANGED <<qid, nextId, attempts, aqs, proc, poll, job, owned, left, history>>

\* The mark's exception reaches _handle_processing_error like a handler's.
MarkFails(t) ==
  /\ Spend("fault")
  /\ \E next \in AfterError : Goto(t, "mark", next)
  /\ UNCHANGED <<rowVars, claimVars, proc, poll, job, owned, worked, history>>

\* _get_work_unit_retry_attempts.
Counter(k) ==
  IF Pending(k) = {} THEN 0
  ELSE attempts[CHOOSE i \in Pending(k) : IsOldest(i, k)]

\* This failure included.
Charged(t) == Counter(job[t].key) + 1

\* Mutant: one attempt too many.
MayRetry_OffByOne(n) == n <= MaxAttempts

MayRetry(n) == n < MaxAttempts

ReadAttempts(t) ==
  /\ IF MayRetry(Charged(t))
     THEN /\ Goto(t, "retry", "count")
          /\ job' = [job EXCEPT ![t] = [@ EXCEPT !.att = Charged(t)]]
     ELSE /\ Goto(t, "retry", "error")
          /\ UNCHANGED job
  /\ UNCHANGED <<rowVars, claimVars, proc, poll, owned, worked, left, history>>

\* Mutant: the count is kept in the process and never written.
CountedOn_Nothing(i, t) == FALSE

\* The row the count is written on: the one that is now the oldest.
CountedOn(i, t) == IsOldest(i, job[t].key)

\* _set_work_unit_retry_attempts.
SetAttempts(t) ==
  /\ Goto(t, "count", "release")
  /\ attempts' = [i \in Items |-> IF CountedOn(i, t) THEN job[t].att ELSE attempts[i]]
  /\ UNCHANGED <<status, qid, nextId, claimVars, proc, poll, job, owned, worked,
                 left, history>>

\* mark_queue_item_as_errored on items[0]; it asks for no processed = false.
MarkErrored(t) ==
  /\ Goto(t, "error", "clear")
  /\ status' = [i \in Items |->
                  IF IsHead(i, job[t].items) /\ status[i] # "deleted"
                  THEN "errored" ELSE status[i]]
  /\ Touch(job[t].key)
  /\ UNCHANGED <<qid, nextId, attempts, aqs, proc, poll, job, owned, worked,
                 left, history>>

\* _clear_work_unit_retry_attempts, and back to the loop for the rest.
ClearAttempts(t) ==
  /\ Goto(t, "clear", "loop")
  /\ attempts' = [i \in Items |-> IF i \in Pending(job[t].key) THEN 0 ELSE attempts[i]]
  /\ UNCHANGED <<status, qid, nextId, claimVars, proc, poll, job, owned, worked,
                 left, history>>

\* The error path's own transaction fails: release without a mark or a count.
ErrorPathFails(t) ==
  /\ Spend("fault")
  /\ \E at \in {"retry", "count", "error", "clear"} : Goto(t, at, "release")
  /\ UNCHANGED <<rowVars, claimVars, proc, poll, job, owned, worked, history>>

\* Mutant: the claim row is deleted by key alone.
Removes_ByKey(t) == t \in owned /\ aqs[job[t].key] # NoClaim

\* _cleanup_work_unit deletes by id and key, for an ownership still tracked.
Removes(t) == t \in owned /\ Holds(t)

\* The finally block: the claim row and the ownership entry go, and queue.empty
\* is published by a task that removed the row and had done some work.
Release(t) ==
  LET announce == Removes(t) /\ t \in worked /\ job[t].key \in AnnouncedKeys
  IN  /\ pc[t] = "release"
      /\ IF Removes(t)
         THEN /\ aqs' = [aqs EXCEPT ![job[t].key] = NoClaim]
              /\ stale' = stale \ {job[t].key}
         ELSE UNCHANGED claimVars
      /\ owned' = owned \ {t}
      /\ worked' = worked \ {t}
      /\ pc' = [pc EXCEPT ![t] = IF announce THEN "announce" ELSE "none"]
      /\ job' = IF announce THEN job ELSE [job EXCEPT ![t] = NoJob]
      /\ UNCHANGED <<rowVars, proc, poll, left, history>>

\* _cleanup_work_unit raises inside finally: the task dies there, before
\* untrack_worker_work_unit.
ReleaseFails(t) ==
  /\ t \in owned
  /\ Spend("fault")
  /\ Goto(t, "release", "none")
  /\ worked' = worked \ {t}
  /\ job' = [job EXCEPT ![t] = [@ EXCEPT !.items = {}, !.att = 0]]
  /\ UNCHANGED <<rowVars, claimVars, proc, poll, owned, history>>

\* publish_webhook_event, its failure being swallowed.
Announce(t) ==
  /\ Goto(t, "announce", "none")
  /\ job' = [job EXCEPT ![t] = NoJob]
  /\ UNCHANGED <<rowVars, claimVars, proc, poll, owned, worked, left, history>>

-----------------------------------------------------------------------------
(* The process. *)

\* SIGTERM or SIGINT: shutdown() sets the shutdown event.
Signal(i) ==
  /\ proc[i] = "up"
  /\ Spend("stop")
  /\ proc' = [proc EXCEPT ![i] = "stopping"]
  /\ UNCHANGED <<rowVars, claimVars, poll, taskVars, history>>

\* The polling loop has ended; initialize()'s finally runs cleanup(), which
\* deletes the owned claim rows (unless the database fails) and forgets them.
StopCleanup(i) ==
  LET mine == {job[t].claim : t \in owned \cap TasksOf(i)}
      gone == {k \in Keys : aqs[k] \in mine \ {NoClaim}}
  IN  /\ proc[i] = "stopping" /\ Idle(i)
      /\ proc' = [proc EXCEPT ![i] = "stopped"]
      /\ owned' = owned \ TasksOf(i)
      /\ \/ /\ aqs' = [k \in Keys |-> IF k \in gone THEN NoClaim ELSE aqs[k]]
            /\ stale' = stale \ gone
            /\ UNCHANGED left
         \/ /\ gone # {} /\ Spend("fault")
            /\ UNCHANGED claimVars
      /\ UNCHANGED <<rowVars, poll, pc, job, worked, history>>

\* The process and all its tasks are gone; the rows it wrote stay.
Vanish(i) ==
  /\ proc' = [proc EXCEPT ![i] = "down"]
  /\ poll' = [poll EXCEPT ![i] = NoPoll]
  /\ pc' = [t \in Tasks |-> IF t \in TasksOf(i) THEN "none" ELSE pc[t]]
  /\ job' = [t \in Tasks |-> IF t \in TasksOf(i) THEN NoJob ELSE job[t]]
  /\ owned' = owned \ TasksOf(i)
  /\ worked' = worked \ TasksOf(i)
  /\ UNCHANGED <<rowVars, claimVars, history>>

\* main() returns and asyncio.run cancels what is still running; with the
\* ownership cleared, a cancelled task's finally block releases nothing.
Exit(i) == proc[i] = "stopped" /\ Vanish(i) /\ UNCHANGED left

Crash(i) == proc[i] # "down" /\ Spend("crash") /\ Vanish(i)

Restart(i) ==
  /\ proc[i] = "down"
  /\ proc' = [proc EXCEPT ![i] = "up"]
  /\ UNCHANGED <<rowVars, claimVars, poll, taskVars, left, history>>

-----------------------------------------------------------------------------

Init ==
  /\ status = [i \in Items |-> "absent"]
  /\ qid = [i \in Items |-> 0]
  /\ nextId = 1
  /\ attempts = [i \in Items |-> 0]
  /\ aqs = [k \in Keys |-> NoClaim]
  /\ stale = {}
  /\ proc = [i \in Instances |-> "up"]
  /\ poll = [i \in Instances |-> NoPoll]
  /\ pc = [t \in Tasks |-> "none"]
  /\ job = [t \in Tasks |-> NoJob]
  /\ owned = {}
  /\ worked = {}
  /\ left = Budget
  /\ handled = {}
  /\ before = [i \in Items |-> {}]

Handler(t) == HandlerReturns(t) \/ HandlerRaises(t)

\* The steps of a task that no failure of the database is part of.
TaskStep(t) ==
  \/ Acquire(t) \/ Leave(t) \/ Fetch(t) \/ Handler(t)
  \/ MarkProcessed(t) \/ ReadAttempts(t) \/ SetAttempts(t)
  \/ MarkErrored(t) \/ ClearAttempts(t) \/ Release(t) \/ Announce(t)

TaskFault(t) == MarkFails(t) \/ ErrorPathFails(t) \/ ReleaseFails(t)

Next ==
  \/ \E i \in Items : Insert(i) \/ Commit(i)
  \/ CleanupQueueItems
  \/ \E i \in Instances, k \in Keys : PollSelect(i, k)
  \/ \E i \in Instances : PollClaim(i) \/ PollStart(i) \/ CleanupStale(i)
  \/ \E k \in Keys : Expire(k)
  \/ \E t \in Tasks : TaskStep(t) \/ TaskFault(t)
  \/ \E i \in Instances : Signal(i) \/ StopCleanup(i) \/ Exit(i)
                          \/ Crash(i) \/ Restart(i)

Spec == Init /\ [][Next]_vars

-----------------------------------------------------------------------------
(* Properties. *)

Statuses == {"absent", "filing", "pending", "done", "errored", "deleted"}
Pcs == {"none", "start"} \cup Body

Jobs == [key : Keys \cup {NoKey}, claim : ClaimIds \cup {NoClaim},
         items : SUBSET Items, att : 0..(MaxAttempts - 1)]

\* Every variable has its type.
TypeOK ==
  /\ status \in [Items -> Statuses]
  /\ qid \in [Items -> Nat]
  /\ nextId \in Nat
  /\ attempts \in [Items -> 0..(MaxAttempts - 1)]
  /\ aqs \in [Keys -> ClaimIds \cup {NoClaim}]
  /\ stale \subseteq Keys
  /\ proc \in [Instances -> {"up", "stopping", "stopped", "down"}]
  /\ poll \in [Instances -> [keys : SUBSET Keys, claims : SUBSET (Keys \X ClaimIds)]]
  /\ pc \in [Tasks -> Pcs]
  /\ job \in [Tasks -> Jobs]
  /\ owned \subseteq Tasks
  /\ worked \subseteq Tasks
  /\ left \in [Mishaps -> Nat]
  /\ handled \subseteq Items
  /\ before \in [Items -> SUBSET Items]

Busy(t) == pc[t] \in {"work", "mark", "retry", "count", "error", "clear"}

\* While no handler outlasts the stale timeout and no process is asked to
\* stop, no item is in the hands of two tasks, whatever the crashes, restarts
\* and failed transactions (claim rows, the unique key, re-claiming).
ExclusiveWork ==
  \A t, u \in Tasks :
    t # u /\ Busy(t) /\ Busy(u) => job[t].items \cap job[u].items = {}

\* A claim row backs at most one task: two tasks that both still hold their
\* claim work on different units, even after takeovers, stops and crashes.
SoleHolder ==
  \A t, u \in Tasks :
    t # u /\ pc[t] # "none" /\ pc[u] # "none" /\ Holds(t) /\ Holds(u)
      => job[t].key # job[u].key

\* A row marked processed without an error was carried through its handler:
\* marks by id never cover what arrived, or was taken over, meanwhile.
NoSilentDrop == \A i \in Items : status[i] = "done" => i \in handled

\* An item of an unbatched work unit that was on file before another one of
\* the unit was inserted is settled first, also when ids are committed out of
\* order and when several tasks ended up working on the unit.
SettledInOrder ==
  \A j \in Items : \A i \in before[j] :
    /\ KeyOf[i] = KeyOf[j] /\ KeyOf[i] \notin BatchKeys
    /\ status[j] \in {"done", "errored", "deleted"}
    => status[i] # "pending"

\* A process never works on more units at once than it has workers, counting
\* the tasks that wait for the semaphore as owned.
WithinCapacity ==
  \A i \in Instances :
    /\ Cardinality(owned \cap TasksOf(i)) <= WorkerLimit
    /\ Cardinality(InBody(i)) <= WorkerLimit

\* A claim row that is not stale is taken away from a task that goes on
\* working only by the shutdown of the task's own process.
KeepsFreshClaims ==
  \A t \in Tasks :
    /\ pc[t] # "none" /\ pc'[t] # "none" /\ pc[t] # "release"
    /\ Holds(t) /\ job[t].key \notin stale
    /\ ~Holds(t)'
    => proc[t[1]] = "stopping"

FreshClaimIsKept == [][KeepsFreshClaims]_vars

\* A processed row without an error never turns into an errored one: a late
\* failure does not overwrite an earlier success.
KeepsDone ==
  \A i \in Items : status[i] = "done" => status'[i] \in {"done", "deleted"}

DoneStaysDone == [][KeepsDone]_vars

\* The shared retry counter of a pending row never loses a charge: it shrinks
\* only when the work unit's head item has just been given up.
KeepsCharges ==
  \A i \in Items :
    status[i] = "pending" /\ attempts'[i] < attempts[i]
    => \E t \in Tasks : pc[t] = "clear" /\ job[t].key = KeyOf[i]

BudgetOnlyGrows == [][KeepsCharges]_vars

\* The queue implements its contract: a row that is not committed is not there.
Contract == INSTANCE QueueContract
  WITH status <- [i \in Items |-> IF status[i] = "filing" THEN "absent" ELSE status[i]]

ContractSafety == Contract!CSpec

-----------------------------------------------------------------------------
(* What a docstring, a test or a log line says and the code does not do.   *)

\* QueueEmptyEvent is "Webhook event for when a queue becomes empty"
\* (src/src/webhooks/events.py): nothing the publishing task was handed is
\* still unprocessed when it publishes.
EmptyMeansDrained ==
  \A t \in Tasks :
    pc[t] = "announce" => \A i \in job[t].items : status[i] # "pending"

\* shutdown() logs "Waiting for {n} active tasks to complete...": a process
\* that was asked to stop exits with no task cut short in the middle of its items.
ShutdownDrains ==
  [][\A i \in Instances :
       proc[i] = "stopped" /\ proc'[i] = "down"
       => \A t \in TasksOf(i) : ~Busy(t)]_vars

\* WorkerOwnership is "the instance of a work unit that a worker is
\* processing": every entry that takes capacity belongs to a task.
OwnershipIsLive == \A t \in owned : pc[t] # "none"

-----------------------------------------------------------------------------
(* Progress.  Fair are: the polling loop and the tasks of a process that   *)
(* is running, the end of a stopping process and the restart of a stopped  *)
(* one (its supervisor), and the clock that makes an abandoned claim stale.*)
(* Not fair: arrivals, faults, signals, crashes, stalls, queue cleanup.    *)

\* A work unit with unprocessed items passes the age gate at some time and is
\* then among the oldest of infinitely many polls.
PollFairness ==
  /\ \A k \in Keys : SF_vars(\E i \in Instances : PollSelect(i, k))
  /\ \A i \in Instances : WF_vars(PollClaim(i)) /\ WF_vars(PollStart(i))
  /\ SF_vars(\E i \in Instances : CleanupStale(i))

ProcessFairness ==
  \A i \in Instances :
    WF_vars(StopCleanup(i)) /\ WF_vars(Exit(i)) /\ WF_vars(Restart(i))

\* Handlers return: every provider call has a timeout.
TaskFairness ==
  /\ \A t \in Tasks : WF_vars(TaskStep(t))
  /\ \A k \in Keys : WF_vars(Expire(k) /\ UNCHANGED left)

FairSpec == Spec /\ PollFairness /\ ProcessFairness /\ TaskFairness

\* Every filed item is settled, whatever the crashes, stops and faults so far.
EventuallySettled == Contract!CLive

\* No claim row stays behind for ever, not even those of processes that
\* crashed or were stopped between the claim and the start of the task.
ClaimsAreReturned == \A k \in Keys : []<>(aqs[k] = NoClaim)

=============================================================================
