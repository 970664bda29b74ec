--------------------------- MODULE ScopeMembership ---------------------------
(***************************************************************************)
(* One session in and out of one scope: requests that change the           *)
(* membership and file reconciling tasks (crud/scope.py, deriver/          *)
(* enqueue.py), the tasks themselves (deriver/scope_backfill.py), and the  *)
(* deriver that writes documents for the observers a message was filed     *)
(* with (deriver/enqueue.py, deriver/deriver.py).                          *)
(*                                                                         *)
(* Every message yields one explicit document about its sender.  The queue *)
(* is what DeriverQueue says of it, with a claim named by its worker.      *)
(***************************************************************************)
EXTENDS Naturals, FiniteSets

CONSTANTS
  Messages,    \* messages of the session, in the order of their ids
  History,     \* those derived before anything else happens
  Callers,     \* requests being served
  Workers,     \* worker tasks of the deriver
  None,        \* no worker, no task row, no copy
  RowIds,      \* ids of task rows (a new row's id is in no use)
  CopyIds,     \* ids of the copies of one document in the scope
  ChunkSize,   \* BACKFILL_CHUNK_SIZE
  Budget       \* bound on membership changes and mishaps

Events == {"change", "abandon", "crash", "stall", "failure", "giveUp"}
Tasks == {"backfill", "removal"}

ASSUME ScopeAssumption ==
  /\ Messages \subseteq Nat
  /\ History \subseteq Messages
  /\ None \notin Workers \cup RowIds \cup CopyIds \cup Tasks
  /\ ChunkSize \in Nat \ {0}
  /\ Budget \in [Events -> Nat]

VARIABLES
  member,    \* the scope peer's session_peers row: never, in, out (left_at set)
  message,   \* life of each message: stored, filed for derivation, derived
  observed,  \* messages filed with the scope among their observers
  batch,     \* the messages the representation worker has in hand
  sources,   \* messages with a live document in the sender's own collection
  direct,    \* the document the deriver wrote into the scope's collection
  copies,    \* backfilled copies in the scope's collection (copied_from)
  status,    \* the session's entry in the scope's backfill status
  rows,      \* unprocessed queue rows of each task
  claim,     \* the worker whose claim row each task has
  run,       \* locals of each worker
  call,      \* control point of each request
  dream,     \* the omni dream of the scope's collection
  left,      \* changes and mishaps the run may still have
  retracted, \* history: a removal has committed since the session last left
  owed       \* history: membership tasks changed documents since a dream began

queueVars == <<rows, claim>>
docVars   == <<sources, direct, copies>>
sendVars  == <<message, observed, batch>>
history   == <<retracted, owed>>
vars == <<member, message, observed, batch, sources, direct, copies, status,
          rows, claim, run, call, dream, left, retracted, owed>>

Spend(e) == left[e] > 0 /\ left' = [left EXCEPT ![e] = @ - 1]

Locals(t, r, p, docs, plan) ==
  [task |-> t, row |-> r, pc |-> p, todo |-> docs, restore |-> plan]

NoPlan == [m \in Messages |-> None]
Between(t, p) == Locals(t, None, p, {}, NoPlan)
Resting == Between(None, "idle")

Member == member = "in"

LiveCopies(m) == {c \in CopyIds : copies[m, c] = "live"}

-----------------------------------------------------------------------------
(* Messages and the deriver's fan-out. *)

\* create_messages commits the message; its filing is a background task.
Send(m) ==
  /\ message[m] = "none"
  /\ message' = [message EXCEPT ![m] = "sent"]
  /\ UNCHANGED <<member, observed, batch, docVars, status, queueVars, run, call,
                 dream, left, history>>

\* generate_queue_records: the active observers of this moment are recorded.
File(m) ==
  /\ message[m] = "sent"
  /\ message' = [message EXCEPT ![m] = "filed"]
  /\ observed' = IF Member THEN observed \cup {m} ELSE observed
  /\ UNCHANGED <<member, batch, docVars, status, queueVars, run, call, dream,
                 left, history>>

Filed == {m \in Messages : message[m] = "filed"}

\* get_queue_item_batch: a prefix of the unprocessed messages.
FetchBatch ==
  /\ batch = {}
  /\ \E last \in Filed : batch' = {m \in Filed : m <= last}
  /\ UNCHANGED <<member, message, observed, docVars, status, queueVars, run, call,
                 dream, left, history>>

\* The sender is the first of the observers.
SaveSelf ==
  /\ batch # {} /\ ~(batch \subseteq sources)
  /\ sources' = sources \cup batch
  /\ UNCHANGED <<member, sendVars, direct, copies, status, queueVars, run, call,
                 dream, left, history>>

\* The observers are those of the batch's first item, for the whole batch.
Head == CHOOSE m \in batch : \A n \in batch : m <= n
Observing == IF Head \in observed THEN batch ELSE {}

\* The scope's save and the mark of the batch.  The text of a live document of
\* the session is not saved again; a save that fails for the scope alone is
\* only logged.
SaveScope ==
  /\ batch # {} /\ batch \subseteq sources
  /\ \/ /\ direct' = [m \in Messages |-> IF m \in Observing /\ LiveCopies(m) = {}
                                       THEN "live" ELSE direct[m]]
        /\ UNCHANGED left
     \/ Observing # {} /\ Spend("failure") /\ UNCHANGED direct
  /\ message' = [m \in Messages |-> IF m \in batch THEN "derived" ELSE message[m]]
  /\ batch' = {}
  /\ UNCHANGED <<member, observed, sources, copies, status, queueVars, run, call,
                 dream, history>>

\* A crash or a transient error: the batch is fetched anew, perhaps another.
DropBatch ==
  /\ batch # {} /\ batch' = {}
  /\ Spend("crash")
  /\ UNCHANGED <<member, message, observed, docVars, status, queueVars, run, call,
                 dream, history>>

-----------------------------------------------------------------------------
(* Requests. *)

At(c, from, to) == call[c] = from /\ call' = [call EXCEPT ![c] = to]

\* add_sessions_to_scope commits the membership (a session that is a member
\* already stays one), and looks for messages afterwards.
AddSession(c) ==
  /\ At(c, "idle", "added")
  /\ Spend("change")
  /\ member' = "in"
  /\ retracted' = FALSE
  /\ UNCHANGED <<sendVars, docVars, status, queueVars, run, dream, owed>>

LookForMessages(c) ==
  /\ At(c, "added", IF \E m \in Messages : message[m] # "none"
                    THEN "fileBackfill" ELSE "idle")
  /\ UNCHANGED <<member, sendVars, docVars, status, queueVars, run, dream, left,
                 history>>

\* remove_session_from_scope: the membership is ended, the task filed after it.
RemoveSession(c) ==
  /\ At(c, "idle", "fileRemoval")
  /\ Spend("change")
  /\ member' = IF Member THEN "out" ELSE member
  /\ retracted' = (retracted /\ ~Member)
  /\ UNCHANGED <<sendVars, docVars, status, queueVars, run, dream, owed>>

\* Mutant: the work unit's key lacks the type of the task.
Covered_ByAny(t) == \E u \in Tasks : claim[u] # None \/ rows[u] # {}

\* insert_scope_task files nothing when the task is claimed or pending.
Covered(t) == claim[t] # None \/ rows[t] # {}

FreshRow(r) == \A t \in Tasks, w \in Workers : r \notin rows[t] /\ run[w].row # r

\* remove_sessions_from_scope: one transaction for both.
RemoveSessions(c) ==
  /\ call[c] = "idle"
  /\ Member /\ member' = "out"
  /\ Spend("change")
  /\ retracted' = FALSE
  /\ IF Covered("removal") THEN UNCHANGED rows
     ELSE \E r \in RowIds :
            FreshRow(r) /\ rows' = [rows EXCEPT !["removal"] = @ \cup {r}]
  /\ UNCHANGED <<sendVars, docVars, status, claim, run, call, dream, owed>>

\* _enqueue_scope_task, the checks; no constraint stops two that both pass.
CheckTask(c) ==
  /\ \/ At(c, "fileBackfill", IF Covered("backfill") THEN "idle" ELSE "insertBackfill")
     \/ At(c, "fileRemoval", IF Covered("removal") THEN "idle" ELSE "insertRemoval")
  /\ UNCHANGED <<member, sendVars, docVars, status, queueVars, run, dream, left,
                 history>>

InsertBackfill(c) ==
  /\ At(c, "insertBackfill", "idle")
  /\ \E r \in RowIds :
       FreshRow(r) /\ rows' = [rows EXCEPT !["backfill"] = @ \cup {r}]
  /\ status' = "pending"
  /\ UNCHANGED <<member, sendVars, docVars, claim, run, dream, left, history>>

InsertRemoval(c) ==
  /\ At(c, "insertRemoval", "idle")
  /\ \E r \in RowIds :
       FreshRow(r) /\ rows' = [rows EXCEPT !["removal"] = @ \cup {r}]
  /\ UNCHANGED <<member, sendVars, docVars, status, claim, run, dream, left,
                 history>>

\* The API process dies between the commit and the filing.
Abandon(c) ==
  /\ call[c] # "idle" /\ call' = [call EXCEPT ![c] = "idle"]
  /\ Spend("abandon")
  /\ UNCHANGED <<member, sendVars, docVars, status, queueVars, run, dream, history>>

-----------------------------------------------------------------------------
(* The tasks' work units. *)

Step(w, from, to) ==
  run[w].pc = from /\ run' = [run EXCEPT ![w].pc = to]

ClaimTask(w, t) ==
  /\ run[w].pc = "idle"
  /\ rows[t] # {} /\ claim[t] = None
  /\ claim' = [claim EXCEPT ![t] = w]
  /\ run' = [run EXCEPT ![w] = Between(t, "fetch")]
  /\ UNCHANGED <<member, sendVars, docVars, status, rows, call, dream, left, history>>

FetchRow(w) ==
  LET t == run[w].task
  IN  /\ run[w].pc = "fetch"
      /\ IF claim[t] = w /\ rows[t] # {}
         THEN \E r \in rows[t] :
                LET p == IF t = "backfill" THEN "plan" ELSE "remove"
                IN  run' = [run EXCEPT ![w] = Locals(t, r, p, {}, NoPlan)]
         ELSE run' = [run EXCEPT ![w].pc = "release"]
      /\ UNCHANGED <<member, sendVars, docVars, status, queueVars, call, dream, left,
                     history>>

\* Mutant: live copies are not looked for.
Missing_All == sources

\* The documents of the session without a live copy.
Missing == {m \in sources : LiveCopies(m) = {}}

\* The planned write of a document: a deleted copy is restored, else a new row.
Plans ==
  {f \in [Messages -> CopyIds \cup {None}] :
     \A m \in Messages :
       LET deleted == {c \in CopyIds : copies[m, c] = "deleted"}
       IN  f[m] \in IF m \in Missing /\ deleted # {} THEN deleted ELSE {None}}

\* Mutant: no return where nothing is planned.
AfterPlan_Always == "write"

AfterPlan == IF Missing = {} THEN "status" ELSE "write"

\* _run_backfill, the plan.
PlanBackfill(w) ==
  /\ run[w].pc = "plan"
  /\ \E f \in Plans :
       run' = [run EXCEPT ![w] = Locals(@.task, @.row, AfterPlan, Missing, f)]
  /\ UNCHANGED <<member, sendVars, docVars, status, queueVars, call, dream, left,
                 history>>

\* Mutant: the membership is not looked at again.
StillMember_Unchecked == TRUE

StillMember == Member

Chunks(todo) ==
  {S \in SUBSET todo : Cardinality(S) = IF Cardinality(todo) < ChunkSize
                                        THEN Cardinality(todo) ELSE ChunkSize}

\* The rows a chunk writes: the planned ones restored, new ones where none is.
Written(w, chunk) ==
  {f \in [chunk -> CopyIds] :
     \A m \in chunk : IF run[w].restore[m] # None THEN f[m] = run[w].restore[m]
                      ELSE copies[m, f[m]] = "none"}

\* A planned row that is no more: its citations break the foreign key.
Swept(w, chunk) ==
  \E m \in chunk : run[w].restore[m] # None /\ copies[m, run[w].restore[m]] = "none"

\* _copy_chunk, the write: under the lock of the membership row.
WriteChunk(w) ==
  /\ run[w].pc = "write"
  /\ \/ /\ ~StillMember
        /\ run' = [run EXCEPT ![w].pc = "mark"]
        /\ UNCHANGED <<copies, owed>>
     \/ \E chunk \in Chunks(run[w].todo) :
           /\ StillMember /\ Swept(w, chunk)
           /\ run' = [run EXCEPT ![w].pc = "broken"]
           /\ UNCHANGED <<copies, owed>>
     \/ \E chunk \in Chunks(run[w].todo) : \E f \in Written(w, chunk) :
           /\ StillMember /\ ~Swept(w, chunk)
           /\ copies' = [d \in Messages \X CopyIds |->
                           IF d[1] \in chunk /\ f[d[1]] = d[2] THEN "live"
                           ELSE copies[d]]
           /\ LET p == IF run[w].todo = chunk THEN "dream" ELSE "write"
              IN  run' = [run EXCEPT ![w] =
                            Locals(@.task, @.row, p, @.todo \ chunk, @.restore)]
           /\ owed' = TRUE
  /\ UNCHANGED <<member, sendVars, sources, direct, status, queueVars, call, dream,
                 left, retracted>>

\* Mutant: a session that was added again is not spared.
Rejoined_Unchecked == FALSE

Rejoined == Member

\* Every explicit document of the session goes, written or copied.
Retract(w) ==
  LET gone == \E m \in Messages : direct[m] = "live" \/ LiveCopies(m) # {}
  IN  /\ direct' = [m \in Messages |->
                      IF direct[m] = "live" THEN "deleted" ELSE direct[m]]
      /\ copies' = [d \in Messages \X CopyIds |->
                      IF copies[d] = "live" THEN "deleted" ELSE copies[d]]
      /\ status' = "none"
      /\ retracted' = ~Member
      /\ owed' = (owed \/ gone)
      /\ run' = [run EXCEPT ![w].pc = IF gone THEN "dream" ELSE "mark"]

\* process_scope_removal up to its commit.  The lock of the membership row makes
\* it one step; a session that never was a member has no row to lock.
CheckRejoined(w) ==
  /\ run[w].pc = "remove"
  /\ IF Rejoined \/ member = "never"
     THEN /\ run' = [run EXCEPT ![w].pc = IF Rejoined THEN "mark" ELSE "delete"]
          /\ UNCHANGED <<direct, copies, status, retracted, owed>>
     ELSE Retract(w)
  /\ UNCHANGED <<member, sendVars, sources, queueVars, call, dream, left>>

RetractUnlocked(w) ==
  /\ run[w].pc = "delete"
  /\ Retract(w)
  /\ UNCHANGED <<member, sendVars, sources, queueVars, call, dream, left>>

\* enqueue_dream: nothing is filed while a dream is pending or running.
FileDream(w) ==
  /\ Step(w, "dream", IF run[w].task = "backfill" THEN "status" ELSE "mark")
  /\ dream' = IF dream = "none" THEN "pending" ELSE dream
  /\ UNCHANGED <<member, sendVars, docVars, status, queueVars, call, left, history>>

\* _write_backfill_status, of a session that may have left meanwhile.
WriteCompleted(w) ==
  /\ Step(w, "status", "mark")
  /\ status' = "completed"
  /\ UNCHANGED <<member, sendVars, docVars, queueVars, call, dream, left, history>>

MarkRow(w) ==
  /\ run[w].pc = "mark"
  /\ run' = [run EXCEPT ![w] = Between(run[w].task, "fetch")]
  /\ rows' = [rows EXCEPT ![run[w].task] = @ \ {run[w].row}]
  /\ UNCHANGED <<member, sendVars, docVars, status, claim, call, dream, left, history>>

Release(w) ==
  /\ run[w].pc = "release"
  /\ run' = [run EXCEPT ![w] = Resting]
  /\ claim' = IF claim[run[w].task] = w THEN [claim EXCEPT ![run[w].task] = None]
              ELSE claim
  /\ UNCHANGED <<member, sendVars, docVars, status, rows, call, dream, left, history>>

\* An exception of the copying is recorded first, any other is not.
HandlerRaises(w) ==
  /\ Spend("failure")
  /\ \/ \E at \in {"plan", "write"} : Step(w, at, "failing")
     \/ \E at \in {"remove", "delete", "dream", "mark"} : Step(w, at, "error")
  /\ UNCHANGED <<member, sendVars, docVars, status, queueVars, call, dream, history>>

AfterFailing(w) == Step(w, "failing", "error") \/ Step(w, "broken", "fatal")

WriteFailed(w) ==
  /\ AfterFailing(w)
  /\ status' = "failed"
  /\ UNCHANGED <<member, sendVars, docVars, queueVars, call, dream, left, history>>

\* The status write is best effort.
StatusLost(w) ==
  /\ Spend("failure")
  /\ Step(w, "status", "mark") \/ AfterFailing(w)
  /\ UNCHANGED <<member, sendVars, docVars, status, queueVars, call, dream, history>>

\* The queue's error path: a transient error leaves the row for a retry.
Retry(w) ==
  /\ Step(w, "error", "release")
  /\ UNCHANGED <<member, sendVars, docVars, status, queueVars, call, dream, left,
                 history>>

\* Any other marks it errored, as one transient error too many does.
GiveUp(w) ==
  /\ \/ run[w].pc = "error" /\ Spend("giveUp")
     \/ run[w].pc = "fatal" /\ UNCHANGED left
  /\ run' = [run EXCEPT ![w] = Between(run[w].task, "fetch")]
  /\ rows' = [rows EXCEPT ![run[w].task] = @ \ {run[w].row}]
  /\ UNCHANGED <<member, sendVars, docVars, status, claim, call, dream, history>>

\* The worker's process dies, its claim row stays.
Crash(w) ==
  /\ run[w].pc # "idle"
  /\ Spend("crash")
  /\ run' = [run EXCEPT ![w] = Resting]
  /\ UNCHANGED <<member, sendVars, docVars, status, queueVars, call, dream, history>>

\* Mutant: no claim is ever stale.
Alive_Claimed(t) == claim[t] # None

Alive(t) == \E w \in Workers : claim[t] = w /\ run[w].task = t

\* A claim outlives the stale timeout and is deleted.
ExpireClaim(t) ==
  /\ claim[t] # None
  /\ claim' = [claim EXCEPT ![t] = None]
  /\ IF Alive(t) THEN Spend("stall") ELSE UNCHANGED left
  /\ UNCHANGED <<member, sendVars, docVars, status, rows, run, call, dream, history>>

\* The reconciler removes the rows of deleted copies after five minutes.
Sweep(m, c) ==
  /\ copies[m, c] = "deleted"
  /\ copies' = [copies EXCEPT ![<<m, c>>] = "none"]
  /\ UNCHANGED <<member, sendVars, sources, direct, status, queueVars, run, call,
                 dream, left, history>>

-----------------------------------------------------------------------------
(* The dream the tasks file. *)

DreamBegins ==
  /\ dream = "pending" /\ dream' = "running"
  /\ owed' = FALSE
  /\ UNCHANGED <<member, sendVars, docVars, status, queueVars, run, call, left,
                 retracted>>

DreamEnds ==
  /\ dream = "running" /\ dream' = "none"
  /\ UNCHANGED <<member, sendVars, docVars, status, queueVars, run, call, left,
                 history>>

-----------------------------------------------------------------------------

\* A session whose messages were derived earlier is outside the scope, whose
\* member it may have been; a new one may be created in it.
Init ==
  /\ member \in {"never", "out"} \cup {x \in {"in"} : History = {}}
  /\ message = [m \in Messages |-> IF m \in History THEN "derived" ELSE "none"]
  /\ observed = {}
  /\ batch = {}
  /\ sources = History
  /\ direct = [m \in Messages |-> "none"]
  /\ copies = [d \in Messages \X CopyIds |-> "none"]
  /\ status = "none"
  /\ rows = [t \in Tasks |-> {}]
  /\ claim = [t \in Tasks |-> None]
  /\ run = [w \in Workers |-> Resting]
  /\ call = [c \in Callers |-> "idle"]
  /\ dream = "none"
  /\ left = Budget
  /\ retracted = FALSE
  /\ owed = FALSE

Ingest == \/ \E m \in Messages : Send(m) \/ File(m)
          \/ FetchBatch \/ SaveSelf \/ SaveScope

Change(c) == AddSession(c) \/ RemoveSession(c) \/ RemoveSessions(c)

Request(c) == LookForMessages(c) \/ CheckTask(c) \/ InsertBackfill(c) \/ InsertRemoval(c)

Work(w) ==
  \/ FetchRow(w) \/ PlanBackfill(w) \/ WriteChunk(w) \/ CheckRejoined(w)
  \/ RetractUnlocked(w) \/ FileDream(w) \/ WriteCompleted(w) \/ MarkRow(w)
  \/ WriteFailed(w) \/ Retry(w) \/ GiveUp(w) \/ Release(w)

Mishap(w) == HandlerRaises(w) \/ StatusLost(w) \/ Crash(w)

Next ==
  \/ Ingest \/ DropBatch
  \/ \E c \in Callers : Change(c) \/ Request(c) \/ Abandon(c)
  \/ \E w \in Workers, t \in Tasks : ClaimTask(w, t)
  \/ \E w \in Workers : Work(w) \/ Mishap(w)
  \/ \E t \in Tasks : ExpireClaim(t)
  \/ \E m \in Messages, c \in CopyIds : Sweep(m, c)
  \/ DreamBegins \/ DreamEnds

Spec == Init /\ [][Next]_vars

\* The session has been a member: there is a row to lock.
JoinedInit == Init /\ member # "never"
JoinedSpec == JoinedInit /\ [][Next]_vars

\* Handlers and dreams go on, and the clock frees the claims of dead workers.
FairSpec ==
  /\ JoinedSpec
  /\ \A c \in Callers : WF_vars(Request(c))
  /\ \A w \in Workers : WF_vars(Work(w))
  /\ \A t \in Tasks : /\ WF_vars(\E w \in Workers : ClaimTask(w, t))
                      /\ WF_vars(ExpireClaim(t) /\ UNCHANGED left)
  /\ WF_vars(DreamBegins) /\ WF_vars(DreamEnds)

-----------------------------------------------------------------------------
(* Properties. *)

Statuses == {"none", "pending", "completed", "failed"}
Points == {"idle", "fetch", "plan", "write", "remove", "delete", "dream", "status",
           "mark", "failing", "broken", "error", "fatal", "release"}
CallPoints == {"idle", "added", "fileBackfill", "insertBackfill", "fileRemoval",
               "insertRemoval"}

Runs == [task : Tasks \cup {None}, row : RowIds \cup {None}, pc : Points,
         todo : SUBSET Messages, restore : [Messages -> CopyIds \cup {None}]]

\* The state of the membership, the queue and the documents is well typed; a busy
\* worker has a task, and a backfill that writes has something to write.
TypeOK ==
  /\ member \in {"never", "in", "out"}
  /\ message \in [Messages -> {"none", "sent", "filed", "derived"}]
  /\ observed \subseteq Messages /\ batch \subseteq Messages
  /\ sources \subseteq Messages
  /\ direct \in [Messages -> {"none", "live", "deleted"}]
  /\ copies \in [Messages \X CopyIds -> {"none", "live", "deleted"}]
  /\ status \in Statuses
  /\ rows \in [Tasks -> SUBSET RowIds]
  /\ claim \in [Tasks -> Workers \cup {None}]
  /\ run \in [Workers -> Runs]
  /\ \A w \in Workers : /\ run[w].pc = "write" => run[w].todo # {}
                        /\ run[w].pc # "idle" => run[w].task \in Tasks
  /\ call \in [Callers -> CallPoints]
  /\ dream \in {"none", "pending", "running"}
  /\ left \in [Events -> Nat]
  /\ retracted \in BOOLEAN /\ owed \in BOOLEAN

Reconciled ==
  /\ \A c \in Callers : call[c] = "idle"
  /\ \A t \in Tasks : rows[t] = {}
  /\ \A w \in Workers : run[w].pc = "idle"

Drained == \A m \in Messages : message[m] \in {"none", "derived"}

InScope(m) == direct[m] = "live" \/ LiveCopies(m) # {}

\* The documents that were derived before anything else and have no live copy.
Lacking == {m \in History : LiveCopies(m) = {}}

\* A member's documents are in the scope, and nothing copied from another is.
InStep == IF Member THEN \A m \in History : InScope(m)
          ELSE \A m \in Messages : LiveCopies(m) = {}

\* Once every request and task is done, the scope's collection holds what the
\* session contributes just when the session is a member (the two handlers of
\* scope_backfill.py against the tasks crud/scope.py files).  What is written
\* meanwhile, FanOutCovers and RemovedIsForgotten are about.
Converged == Reconciled => InStep

\* The same as a promise: from some time on, for good.
EventuallyConverged == <>[]InStep

\* A task would change the scope's collection.
Called(t) == IF t = "backfill" THEN Member /\ Lacking # {}
             ELSE ~Member /\ \E m \in Messages : LiveCopies(m) # {}

\* A request is on its way to file the task.
Asked(t) ==
  \E c \in Callers : call[c] \in IF t = "backfill"
                                 THEN {"added", "fileBackfill", "insertBackfill"}
                                 ELSE {"fileRemoval", "insertRemoval"}

\* No worker has the row in hand past the step that would cover a change.
Pending(t, r) ==
  \A w \in Workers : run[w].task = t /\ run[w].row = r =>
    /\ run[w].pc \notin {"dream", "status", "mark"}
    /\ run[w].pc = "write" => Lacking \subseteq run[w].todo

Due(t) == Asked(t) \/ \E r \in rows[t] : Pending(t, r)

\* A request takes the task for covered by rows that are all past that step.
LeavesOut(c, t) ==
  /\ Covered(t) /\ \A r \in rows[t] : ~Pending(t, r)
  /\ \/ CheckTask(c) /\ call[c] = IF t = "backfill" THEN "fileBackfill" ELSE "fileRemoval"
     \/ RemoveSessions(c) /\ t = "removal"

Forgone(t) ==
  \/ \E c \in Callers : Abandon(c) \/ LeavesOut(c, t)
  \/ \E w \in Workers : GiveUp(w) /\ run[w].task = t

\* A task that is called for stays due until it has done its work, however it is
\* interrupted, taken over or overtaken, unless a request dies or leaves it out
\* or its row is given up.
DueStays ==
  [][\A t \in Tasks : (Called(t) => Due(t)) /\ Called(t)' => Due(t)' \/ Forgone(t)]_vars

\* Once a removal has been reconciled no copy is live until the session is
\* added again, whatever backfill, retried, taken over or late, still runs
\* (_copy_chunk's look at the membership).
RetractionHolds == retracted => \A m \in Messages : LiveCopies(m) = {}

KeepsMemory ==
  /\ \A m \in Messages : direct[m] = "live" => direct'[m] = "live"
  /\ \A d \in Messages \X CopyIds : copies[d] = "live" => copies'[d] = "live"

\* A step of a removal that found no membership row to lock.
Unlocked == \E w \in Workers : run[w].pc = "delete" /\ run'[w] # run[w]

\* While the session stays a member none of its live documents is deleted,
\* however late a removal filed before runs, except by one that looked when there
\* was no membership row to lock (process_scope_removal's look).
MemberKeepsMemory == [][Member /\ Member' /\ ~Unlocked => KeepsMemory]_vars

\* While no handler outlasts its claim, a document has one live copy at most
\* (_run_backfill: "a live copy ... is never duplicated").
OneLiveCopy == \A m \in Messages : Cardinality(LiveCopies(m)) <= 1

\* process_scope_backfill's docstring and test_scope_backfill.py: the scope holds
\* a document of the session once, whether it was copied or written.
HeldOnce ==
  \A m \in Messages : direct[m] = "live" => LiveCopies(m) = {}

\* scopes.mdx: removing a session retracts that session's contributions.
RemovedIsForgotten ==
  Reconciled /\ Drained /\ retracted => \A m \in Messages : ~InScope(m)

\* enqueue_scope_backfill: the deriver's fan-out covers everything ingested
\* after the membership change.
FanOutCovers ==
  Reconciled /\ Drained /\ Member => \A m \in observed : InScope(m)

\* process_scope_removal: the explicit documents of a member session stay, with
\* no exception.  True of sessions that have a membership row.
MemberAlwaysKeeps == [][Member /\ Member' => KeepsMemory]_vars

\* process_scope_backfill: a dream builds the scope's higher layers on what a
\* task has changed.
DreamFollows == owed ~> ~owed
=============================================================================
