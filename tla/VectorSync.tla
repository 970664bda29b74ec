------------------------------ MODULE VectorSync ------------------------------
(***************************************************************************)
(* The vectors of message chunks and conclusions: the pending rows that    *)
(* requests write, the background tasks that embed messages at once        *)
(* (reconciler/embed_now.py), the second half of create_documents          *)
(* (crud/document.py), the reconciliation cycles of the derivers           *)
(* (reconciler/sync_vectors.py), and the deletions that race with them.    *)
(*                                                                         *)
(* A transaction is one step, unless it holds row locks across a call to   *)
(* the embedding provider or the vector store.  An UPDATE or DELETE waits  *)
(* for a locked row; FOR UPDATE SKIP LOCKED passes it by.  One namespace   *)
(* per kind of row; a message has one chunk, or none.  Each round of a     *)
(* cycle's loop is a cycle here.                                           *)
(***************************************************************************)
EXTENDS Naturals, FiniteSets

CONSTANTS
  Messages,     \* rows of message_embeddings
  Documents,    \* rows of documents
  Tasks,        \* requests that create messages, and their background tasks
  Cycles,       \* reconciliation cycles, one per deriver
  None,         \* no holder
  Modes,        \* configurations of the vector store that are considered
  MaxAttempts,  \* MAX_SYNC_ATTEMPTS
  BatchSize,    \* RECONCILIATION_BATCH_SIZE
  MaxPending,   \* EMBEDDING.MAX_PENDING_EMBED_TASKS
  Mishaps,      \* what may go wrong, besides refusals by provider and store
  Budget        \* how often, in all

ASSUME VectorAssumption ==
  /\ Messages \cap Documents = {} /\ None \notin Cycles
  /\ Modes \subseteq {"pgvector", "dual", "external"}
  /\ {MaxAttempts, BatchSize, MaxPending} \subseteq Nat \ {0}
  /\ Mishaps \subseteq {"api", "writer", "cycle", "deadline", "purge", "drop", "rollback"}
  /\ Budget \in Nat /\ IsFiniteSet(Tasks)

Rows == Messages \cup Documents

VARIABLES
  mode,      \* TYPE and MIGRATED: the stores a vector is written to
  row,       \* the database rows
  ext,       \* rows with a vector in the external store
  lock,      \* the cycle that holds a row's lock
  task,      \* the background task of each request
  inFlight,  \* EmbedTaskGate.in_flight
  cycle,     \* locals of each cycle
  writer,    \* progress of the create_documents that stored a document
  drop,      \* progress of delete_session
  lease,     \* history: claims of a task that SYNC_BACKOFF still covers
  late,      \* history: vectors written while or after their row was removed
  left       \* mishaps that may still happen

taskVars == <<task, inFlight, lease>>
vars == <<mode, row, ext, lock, taskVars, cycle, writer, drop, late, left>>

Spend(mishap) == mishap \in Mishaps /\ left > 0 /\ left' = left - 1

InPostgres == mode # "external"
InExternal == mode # "pgvector"

Unlocked(S) == \A r \in S : lock[r] = None

\* Never attempted, or SYNC_BACKOFF after the last attempt.
Eligible(r) == row[r].life = "live" /\ row[r].state = "pending" /\ ~ row[r].cool

Synced(old) == [old EXCEPT !.state = "synced", !.tries = 0, !.cool = TRUE]
Failing(old) ==
  [old EXCEPT !.tries = @ + 1, !.cool = TRUE,
              !.state = IF old.tries + 1 >= MaxAttempts THEN "failed" ELSE "pending"]

Dropping == drop \in {"vectors", "over"}

\* Nothing will remove a vector written now.
Doomed(r) ==
  \/ row[r].life = "gone"
  \/ row[r].life = "deleted" /\ lock[r] # None
  \/ Dropping

Upserted(S) ==
  /\ ext' = ext \cup S
  /\ late' = late \cup {d \in S \cap Documents : Doomed(d)}

Blank == [life |-> "none", state |-> "pending", tries |-> 0, cool |-> FALSE, pg |-> FALSE]
Removed == [Blank EXCEPT !.life = "gone"]

-----------------------------------------------------------------------------
(* Creating messages and embedding them at once: embed_now.py. *)

Counted == inFlight + 1

\* create_messages, and the route that schedules the task if the gate lets it.
CreateMessages(t) ==
  \E M \in SUBSET {m \in Messages : row[m].life = "none"} :
    /\ task[t].pc = "idle" /\ drop = "no"
    /\ row' = [r \in Rows |-> IF r \in M THEN [row[r] EXCEPT !.life = "live"] ELSE row[r]]
    /\ IF inFlight < MaxPending
         THEN task' = [task EXCEPT ![t] = [pc |-> "scheduled", rows |-> M]] /\ inFlight' = Counted
         ELSE task' = [task EXCEPT ![t].pc = "over"] /\ UNCHANGED inFlight
    /\ UNCHANGED <<mode, ext, lock, lease, cycle, writer, drop, late, left>>

Over(t) ==
  /\ task' = [task EXCEPT ![t] = [pc |-> "over", rows |-> {}]]
  /\ inFlight' = inFlight - 1
  /\ lease' = [lease EXCEPT ![t] = {}]

\* Mutant: the claim is not stamped.
Stamped_Not(old) == old
Stamped(old) == [old EXCEPT !.cool = TRUE]

\* _claim_and_lease
ClaimAndLease(t) ==
  LET claimed == {r \in task[t].rows : Eligible(r) /\ lock[r] = None} IN
  /\ task[t].pc = "scheduled"
  /\ row' = [r \in Rows |-> IF r \in claimed THEN Stamped(row[r]) ELSE row[r]]
  /\ IF claimed = {}
       THEN Over(t)
       ELSE /\ task' = [task EXCEPT ![t] = [pc |-> "claimed", rows |-> claimed]]
            /\ lease' = [lease EXCEPT ![t] = claimed]
            /\ UNCHANGED inFlight
  /\ UNCHANGED <<mode, ext, lock, cycle, writer, drop, late, left>>

\* _embed_chunks, and in external mode the read of the chunk positions, which
\* leaves out the rows that no longer exist.
EmbedChunks(t) ==
  /\ task[t].pc = "claimed"
  /\ \/ Over(t)
     \/ /\ task' = [task EXCEPT ![t].pc = "embedded",
                      ![t].rows = IF InExternal THEN {r \in @ : row[r].life # "gone"} ELSE @]
        /\ UNCHANGED <<inFlight, lease>>
  /\ UNCHANGED <<mode, row, ext, lock, cycle, writer, drop, late, left>>

\* The row is marked only if it is still pending.
MarkedByTask(t) ==
  [r \in Rows |-> IF r \in task[t].rows /\ row[r].life = "live" /\ row[r].state = "pending"
                    THEN [Synced(row[r]) EXCEPT !.pg = @ \/ InPostgres]
                    ELSE row[r]]

\* _persist_pgvector
PersistPgvector(t) ==
  /\ task[t].pc = "embedded" /\ ~ InExternal /\ Unlocked(task[t].rows)
  /\ row' = MarkedByTask(t)
  /\ Over(t)
  /\ UNCHANGED <<mode, ext, lock, cycle, writer, drop, late, left>>

\* _upsert_external
UpsertExternal(t) ==
  /\ task[t].pc = "embedded" /\ InExternal
  /\ \/ /\ Upserted(task[t].rows)
        /\ task' = [task EXCEPT ![t].pc = "upserted"]
        /\ UNCHANGED <<inFlight, lease>>
     \/ Over(t) /\ UNCHANGED <<ext, late>>
  /\ UNCHANGED <<mode, row, lock, cycle, writer, drop, left>>

\* _mark_synced
MarkSynced(t) ==
  /\ task[t].pc = "upserted" /\ Unlocked(task[t].rows)
  /\ row' = MarkedByTask(t)
  /\ Over(t)
  /\ UNCHANGED <<mode, ext, lock, cycle, writer, drop, late, left>>

\* The API process dies with its tasks and its gate.
CrashApi ==
  /\ Spend("api") /\ \E t \in Tasks : task[t].pc \notin {"idle", "over"}
  /\ task' = [t \in Tasks |-> IF task[t].pc = "idle" THEN task[t] ELSE [pc |-> "over", rows |-> {}]]
  /\ inFlight' = 0
  /\ lease' = [t \in Tasks |-> {}]
  /\ UNCHANGED <<mode, row, ext, lock, cycle, writer, drop, late>>

-----------------------------------------------------------------------------
(* Conclusions: the end of create_documents, and soft deletion. *)

\* The first commit of create_documents.
StoreDocument(d) ==
  /\ row[d].life = "none" /\ ~ Dropping
  /\ row' = [row EXCEPT ![d].life = "live", ![d].pg = InPostgres]
  /\ writer' = [writer EXCEPT ![d] = "stored"]
  /\ UNCHANGED <<mode, ext, lock, taskVars, cycle, drop, late, left>>

UpsertDocument(d) ==
  /\ writer[d] = "stored" /\ InExternal
  /\ \/ Upserted({d}) /\ writer' = [writer EXCEPT ![d] = "upserted"]
     \/ writer' = [writer EXCEPT ![d] = "refused"] /\ UNCHANGED <<ext, late>>
  /\ UNCHANGED <<mode, row, lock, taskVars, cycle, drop, left>>

Acknowledged(d) == writer[d] = "upserted" \/ (writer[d] = "stored" /\ ~ InExternal)

\* Mutant: a document is marked synced although the store refused its vector.
AfterUpsert_Always(d) == Synced(row[d])
AfterUpsert(d) ==
  IF Acknowledged(d) THEN Synced(row[d]) ELSE [row[d] EXCEPT !.tries = @ + 1, !.cool = TRUE]

\* The second commit: an UPDATE by id, whatever the row's state is by now.
MarkDocument(d) ==
  /\ Acknowledged(d) \/ writer[d] = "refused"
  /\ lock[d] = None
  /\ row' = IF row[d].life = "gone" THEN row ELSE [row EXCEPT ![d] = AfterUpsert(d)]
  /\ writer' = [writer EXCEPT ![d] = "over"]
  /\ UNCHANGED <<mode, ext, lock, taskVars, cycle, drop, late, left>>

CrashWriter(d) ==
  /\ Spend("writer") /\ writer[d] \notin {"idle", "over"}
  /\ writer' = [writer EXCEPT ![d] = "over"]
  /\ UNCHANGED <<mode, row, ext, lock, taskVars, cycle, drop, late>>

\* delete_document, delete_documents, delete_document_by_id
DeleteDocument(d) ==
  /\ row[d].life = "live" /\ lock[d] = None
  /\ row' = [row EXCEPT ![d].life = "deleted"]
  /\ UNCHANGED <<mode, ext, lock, taskVars, cycle, writer, drop, late, left>>

-----------------------------------------------------------------------------
(* Deleting the session that the rows belong to: crud/session.py. *)

\* The vectors go first, as far as the store can be reached.
DropVectors ==
  /\ Spend("drop") /\ drop = "no" /\ \E r \in Rows : row[r].life # "none"
  /\ \E kinds \in SUBSET {Messages, Documents} : ext' = ext \ UNION (IF InExternal THEN kinds ELSE {})
  /\ late' = late \cup (ext' \cap Documents)
  /\ drop' = "vectors"
  /\ UNCHANGED <<mode, row, lock, taskVars, cycle, writer>>

DropRows ==
  /\ drop = "vectors" /\ Unlocked(Rows)
  /\ row' = [r \in Rows |-> IF row[r].life = "none" THEN row[r] ELSE Removed]
  /\ drop' = "over"
  /\ UNCHANGED <<mode, ext, lock, taskVars, cycle, writer, late, left>>

\* The transaction fails, for instance on a message that has come meanwhile.
RollBackDrop ==
  /\ "rollback" \in Mishaps /\ drop = "vectors"
  /\ drop' = "undone"
  /\ UNCHANGED <<mode, row, ext, lock, taskVars, cycle, writer, late, left>>

-----------------------------------------------------------------------------
(* The reconciliation cycle: sync_vectors.py. *)

FirstStage == IF InExternal THEN "docs" ELSE "msgs"

Off == [pc |-> "off", stage |-> "docs", batch |-> {}, fresh |-> {}, done |-> {}]

At(c, p) == cycle[c].pc = p

Looking(c, stage) == cycle' = [cycle EXCEPT ![c] = [Off EXCEPT !.pc = "look", !.stage = stage]]

\* The batch is over, or there was none.
Advance(c) ==
  CASE cycle[c].stage = "docs"  -> Looking(c, "msgs")
    [] cycle[c].stage = "msgs"  -> Looking(c, "sweep")
    [] cycle[c].stage = "sweep" -> cycle' = [cycle EXCEPT ![c] = Off]

StartCycle(c) ==
  /\ At(c, "off")
  /\ Looking(c, FirstStage)
  /\ UNCHANGED <<mode, row, ext, lock, taskVars, writer, drop, late, left>>

\* Mutant: only what was synced is swept.
Due_Synced(s) ==
  CASE s = "docs"  -> {d \in Documents : Eligible(d)}
    [] s = "msgs"  -> {m \in Messages : Eligible(m)}
    [] s = "sweep" -> {d \in Documents : row[d].life = "deleted" /\ row[d].state = "synced"}
\* Rows of this stage that a batch may contain; a document is swept five
\* minutes after its deletion, however long that is here.
Due(s) ==
  CASE s = "docs"  -> {d \in Documents : Eligible(d)}
    [] s = "msgs"  -> {m \in Messages : Eligible(m)}
    [] s = "sweep" -> {d \in Documents : row[d].life = "deleted"}

ClaimBatch(c) ==
  LET free == {r \in Due(cycle[c].stage) : lock[r] = None} IN
  /\ At(c, "look")
  /\ \E B \in SUBSET free :
       /\ Cardinality(B) <= BatchSize /\ (B = free \/ Cardinality(B) = BatchSize)
       /\ IF B = {}
            THEN Advance(c) /\ UNCHANGED lock
            ELSE /\ cycle' = [cycle EXCEPT ![c].pc = IF cycle[c].stage = "sweep" THEN "purge" ELSE "sync",
                                           ![c].batch = B]
                 /\ lock' = [r \in Rows |-> IF r \in B THEN c ELSE lock[r]]
  /\ UNCHANGED <<mode, row, ext, taskVars, writer, drop, late, left>>

\* RECONCILIATION_TIME_BUDGET_SECONDS have passed.
Deadline(c) ==
  /\ At(c, "look") /\ Spend("deadline")
  /\ cycle' = [cycle EXCEPT ![c] = Off]
  /\ UNCHANGED <<mode, row, ext, lock, taskVars, writer, drop, late>>

\* Rows of the batch that end up synced.
Acked(c, got, ok) == {r \in cycle[c].batch : ok /\ (row[r].pg \/ r \in got)}

\* _sync_documents, _sync_message_embeddings: embed what has no vector yet, some
\* of which may come back, and upsert what has one.
Sync(c) ==
  \E got \in SUBSET {r \in cycle[c].batch : ~ row[r].pg}, ok \in BOOLEAN :
    /\ At(c, "sync") /\ (InExternal \/ ok)
    /\ cycle' = [cycle EXCEPT ![c].pc = "commit", ![c].fresh = got, ![c].done = Acked(c, got, ok)]
    /\ IF InExternal /\ ok
         THEN Upserted({r \in cycle[c].batch : row[r].pg \/ r \in got})
         ELSE UNCHANGED <<ext, late>>
    /\ UNCHANGED <<mode, row, lock, taskVars, writer, drop, left>>

Release(c) == lock' = [r \in Rows |-> IF lock[r] = c THEN None ELSE lock[r]]

\* Mutant: a failure is not counted.
Judged_Never(c, r) == IF r \in cycle[c].done THEN Synced(row[r]) ELSE [row[r] EXCEPT !.cool = TRUE]
Judged(c, r) == IF r \in cycle[c].done THEN Synced(row[r]) ELSE Failing(row[r])

CommitBatch(c) ==
  /\ At(c, "commit")
  /\ row' = [r \in Rows |->
       IF r \in cycle[c].batch
         THEN [Judged(c, r) EXCEPT !.pg = @ \/ (InPostgres /\ r \in cycle[c].fresh)]
         ELSE row[r]]
  /\ Release(c)
  /\ Advance(c)
  /\ UNCHANGED <<mode, ext, taskVars, writer, drop, late, left>>

\* Mutant: the row is removed even if its vector could not be.
Purged_Anyway(ok) == TRUE
Purged(ok) == ok

\* cleanup_soft_deleted_documents, _cleanup_soft_deleted_documents_pgvector
PurgeVectors(c) ==
  /\ At(c, "purge")
  /\ \E ok \in BOOLEAN :
       /\ IF ok THEN UNCHANGED left ELSE InExternal /\ Spend("purge")
       /\ ext' = IF ok THEN ext \ cycle[c].batch ELSE ext
       /\ IF Purged(ok)
            THEN cycle' = [cycle EXCEPT ![c].pc = "remove"] /\ UNCHANGED lock
            ELSE Advance(c) /\ Release(c)
  /\ UNCHANGED <<mode, row, taskVars, writer, drop, late>>

RemoveRows(c) ==
  /\ At(c, "remove")
  /\ row' = [r \in Rows |-> IF r \in cycle[c].batch THEN Removed ELSE row[r]]
  /\ Release(c)
  /\ Advance(c)
  /\ UNCHANGED <<mode, ext, taskVars, writer, drop, late, left>>

CrashCycle(c) ==
  /\ Spend("cycle") /\ ~ At(c, "off") /\ ~ At(c, "look")
  /\ cycle' = [cycle EXCEPT ![c] = Off]
  /\ Release(c)
  /\ UNCHANGED <<mode, row, ext, taskVars, writer, drop, late>>

\* SYNC_BACKOFF has passed since the last attempt at a row.
BackoffEnds(r) ==
  /\ row[r].cool /\ row[r].state = "pending" /\ row[r].life = "live"
  /\ row' = [row EXCEPT ![r].cool = FALSE]
  /\ lease' = [t \in Tasks |-> lease[t] \ {r}]
  /\ UNCHANGED <<mode, ext, lock, task, inFlight, cycle, writer, drop, late, left>>

-----------------------------------------------------------------------------
Init ==
  /\ mode \in Modes
  /\ row = [r \in Rows |-> Blank]
  /\ ext = {} /\ late = {}
  /\ lock = [r \in Rows |-> None]
  /\ task = [t \in Tasks |-> [pc |-> "idle", rows |-> {}]]
  /\ inFlight = 0
  /\ lease = [t \in Tasks |-> {}]
  /\ cycle = [c \in Cycles |-> Off]
  /\ writer = [d \in Documents |-> "idle"]
  /\ drop = "no"
  /\ left = Budget

TaskStep(t) == ClaimAndLease(t) \/ EmbedChunks(t) \/ PersistPgvector(t)
               \/ UpsertExternal(t) \/ MarkSynced(t)
WriterStep(d) == UpsertDocument(d) \/ MarkDocument(d)
CycleStep(c) == StartCycle(c) \/ ClaimBatch(c) \/ Sync(c) \/ CommitBatch(c)
                \/ PurgeVectors(c) \/ RemoveRows(c)

Next ==
  \/ \E t \in Tasks : CreateMessages(t) \/ TaskStep(t)
  \/ \E d \in Documents : StoreDocument(d) \/ WriterStep(d) \/ CrashWriter(d) \/ DeleteDocument(d)
  \/ \E c \in Cycles : CycleStep(c) \/ Deadline(c) \/ CrashCycle(c)
  \/ \E r \in Rows : BackoffEnds(r)
  \/ CrashApi \/ DropVectors \/ DropRows \/ RollBackDrop

Spec == Init /\ [][Next]_vars

\* The derivers keep running cycles and time passes.  Nothing is assumed of the
\* requests and their tasks: whatever they leave pending is the cycles' to do.
FairSpec ==
  /\ Spec
  /\ \A c \in Cycles : WF_vars(CycleStep(c))
  /\ \A r \in Rows : WF_vars(BackoffEnds(r))

-----------------------------------------------------------------------------
TypeOK ==
  /\ mode \in Modes
  /\ row \in [Rows -> [life : {"none", "live", "deleted", "gone"},
                       state : {"pending", "synced", "failed"},
                       tries : 0 .. MaxAttempts + 1, cool : BOOLEAN, pg : BOOLEAN]]
  /\ ext \subseteq Rows /\ late \subseteq Documents
  /\ lock \in [Rows -> Cycles \cup {None}]
  /\ task \in [Tasks -> [pc : {"idle", "scheduled", "claimed", "embedded", "upserted", "over"},
                         rows : SUBSET Messages]]
  /\ inFlight \in 0 .. MaxPending
  /\ cycle \in [Cycles -> [pc : {"off", "look", "sync", "commit", "purge", "remove"},
                           stage : {"docs", "msgs", "sweep"},
                           batch : SUBSET Rows, fresh : SUBSET Rows, done : SUBSET Rows]]
  /\ writer \in [Documents -> {"idle", "stored", "upserted", "refused", "over"}]
  /\ drop \in {"no", "vectors", "over", "undone"}
  /\ lease \in [Tasks -> SUBSET Messages]
  /\ left \in 0 .. Budget

\* The gate counts exactly the tasks that wait or run, so it reopens when they
\* are over and an unlucky burst cannot close it for good (EmbedTaskGate).
GateCounts == inFlight = Cardinality({t \in Tasks : task[t].pc \notin {"idle", "over"}})

Stored(r) == (InPostgres => row[r].pg) /\ (InExternal => r \in ext)
AllSyncedStored ==
  \A r \in Rows : row[r].life = "live" /\ row[r].state = "synced" => Stored(r)

\* A row marked synced, which no cycle looks at again, has its vector in every
\* store the configuration writes to, whichever of the three writers marked it
\* and whatever failed or crashed on the way; until the session is deleted.
SyncedIsStored == drop = "no" => AllSyncedStored

\* The same when a deletion of the session was rolled back (the rollback of
\* delete_session, as if it restored what was deleted).
UndoneIsStored == drop = "undone" => AllSyncedStored

\* Until its lease expires no cycle embeds what a background task has claimed
\* (embed_now.py: "Running concurrently with the reconciler is safe").
LeaseExcludes ==
  \A t \in Tasks, c \in Cycles : lease[t] \cap cycle[c].batch = {}

\* The sweep never loses track of a vector: when it has removed a document, the
\* external store has no vector of it, unless one was written while the row
\* was being removed or afterwards.
SweptIsClean ==
  \A d \in Documents : row[d].life = "gone" /\ d \in ext => d \in late

\* Rows that wait for their vectors.  There are finitely many of them here, so
\* that none waits for ever just if again and again none waits.
Pending(S) == {r \in S : row[r].life = "live" /\ row[r].state = "pending"}

\* Every row is synced or given up in the end, if its table is one that the
\* configuration's cycles look at: conclusions are not, with pgvector.
Settles == []<>(Pending(IF InExternal THEN Rows ELSE Messages) = {})

\* The same of conclusions whatever the configuration (crud/document.py: after a
\* crash "the reconciliation job will automatically re-embed and sync these").
CrashIsHealed == []<>(Pending(Documents) = {})

\* Every deleted conclusion is removed in the end.
Swept == []<>(\A d \in Documents : row[d].life # "deleted")
=============================================================================
