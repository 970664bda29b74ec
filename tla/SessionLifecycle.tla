--------------------------- MODULE SessionLifecycle ---------------------------
(***************************************************************************)
(* One session name: its row, its cache entry, its messages, and what runs *)
(* on them (crud/session.py, crud/message.py, the session routes, and the  *)
(* deletion task of the queue).                                            *)
(*                                                                         *)
(* Requests and the worker read the session through the cache: a miss      *)
(* reads the row and stores it afterwards, and nothing orders that store   *)
(* with the invalidation of a commit made in between.  cache.locked only   *)
(* keeps the reads apart.  What follows is done with the copy read.        *)
(***************************************************************************)
EXTENDS Naturals, FiniteSets, Sequences

CONSTANTS
  Requests,    \* calls of the API, one operation each
  Mixes,       \* the operations they may do, together
  Worker,      \* the queue worker that owns the session's deletion tasks
  MaxMishaps,  \* bound on crashes and on invalidations that fail
  None         \* no row, no copy, nobody

Everything == {"read", "configure", "update", "post", "delete"}

ASSUME SessionAssumption ==
  /\ Mixes \subseteq [Requests -> Everything]
  /\ MaxMishaps \in Nat
  /\ Worker \notin Requests /\ None \notin Requests \cup {Worker}
  /\ None \notin [id : Nat, active : BOOLEAN, config : SUBSET Requests]

VARIABLES
  row,       \* the session's row: its identity, is_active and configuration
  cache,     \* the cached copy of a row
  lastId,    \* identities given out so far
  messages,  \* in the order of their ids, each with its seq_in_session
  lock,      \* holder of the session's advisory lock
  items,     \* requests whose message has a queue item
  tasks,     \* pending deletion tasks, named by their request
  failed,    \* deletion tasks that ended in error
  op,        \* the operation of each request
  at,        \* control point of each request and of the worker
  copy,      \* the copy of the row it works with
  seq,       \* last sequence number it read
  retried,   \* requests that lost the race to create the row
  result,    \* what a request answered
  job,       \* the worker's task, and what its statements have deleted
  mishaps,
  hidden,    \* history: identities whose deletion was acknowledged undisturbed
  strayed    \* history: a task ran on a copy of another row

queue == <<items, tasks, failed>>
vars == <<row, cache, lastId, messages, lock, queue, op, at, copy, seq, retried,
          result, job, mishaps, hidden, strayed>>

Processes == Requests \cup {Worker}

Goto(p, pc) == at' = [at EXCEPT ![p] = pc]
Answers(r, what) == Goto(r, "done") /\ result' = [result EXCEPT ![r] = what]

NoTask == [task |-> None, messages |-> 0, items |-> {}]

\* The copy is of an active session.
Active(p) == copy[p] # None /\ copy[p].active

\* An UPDATE by identity of the row that p holds a copy of finds it.
Finds(p) == row # None /\ row.id = copy[p].id

-----------------------------------------------------------------------------
(* Reading a session through the cache: _fetch_session. *)

Lookup(p) ==
  /\ at[p] = "lookup"
  /\ IF cache = None THEN Goto(p, "fetch") /\ UNCHANGED copy
     ELSE Goto(p, "have") /\ copy' = [copy EXCEPT ![p] = cache]
  /\ UNCHANGED <<row, cache, lastId, messages, lock, queue, op, seq, retried, result, job,
                 mishaps, hidden, strayed>>

Fetch(p) ==
  /\ at[p] = "fetch"
  /\ copy' = [copy EXCEPT ![p] = row]
  /\ Goto(p, "store")
  /\ UNCHANGED <<row, cache, lastId, messages, lock, queue, op, seq, retried, result, job,
                 mishaps, hidden, strayed>>

\* A missing row is not cached.
Store(p) ==
  /\ at[p] = "store"
  /\ cache' = IF copy[p] = None THEN cache ELSE copy[p]
  /\ Goto(p, "have")
  /\ UNCHANGED <<row, lastId, messages, lock, queue, op, copy, seq, retried, result, job,
                 mishaps, hidden, strayed>>

\* The entry reaches its time to live.
Expire ==
  /\ cache # None
  /\ cache' = None
  /\ UNCHANGED <<row, lastId, messages, lock, queue, op, at, copy, seq, retried, result, job,
                 mishaps, hidden, strayed>>

\* get_session for a reader.
Read(r) ==
  /\ at[r] = "have" /\ op[r] = "read"
  /\ Answers(r, IF Active(r) THEN "ok" ELSE "missing")
  /\ UNCHANGED <<row, cache, lastId, messages, lock, queue, op, copy, seq, retried, job,
                 mishaps, hidden, strayed>>

-----------------------------------------------------------------------------
(* get_or_create_session, used by four operations. *)

Entering(r) == at[r] = "have" /\ op[r] \in {"configure", "update", "post", "file"}

\* Where an operation goes on once it has the session.
After(r) ==
  CASE op[r] = "configure" -> "done"
    [] op[r] = "update"    -> "apply"
    [] op[r] = "post"      -> "lock"
    [] op[r] = "file"      -> "file"

Given(r) == IF op[r] = "configure" THEN {r} ELSE {}

\* An inactive session is on its way out.
Refused(r) ==
  /\ Entering(r) /\ copy[r] # None /\ ~ copy[r].active
  /\ Answers(r, IF op[r] = "file" THEN result[r] ELSE "missing")
  /\ UNCHANGED <<row, cache, lastId, messages, lock, queue, op, copy, seq, retried, job,
                 mishaps, hidden, strayed>>

Create(r) ==
  /\ Entering(r) /\ copy[r] = None /\ row = None
  /\ lastId' = lastId + 1
  /\ row' = [id |-> lastId', active |-> TRUE, config |-> Given(r)]
  /\ copy' = [copy EXCEPT ![r] = row']
  /\ Goto(r, "publish")
  /\ UNCHANGED <<cache, messages, lock, queue, op, seq, retried, result, job,
                 mishaps, hidden, strayed>>

\* Mutant: a lost race is an error at once.
Retries_Never(r) == FALSE
Retries(r) == r \notin retried

\* Another request has created the row: look again, once.
CreateLost(r) ==
  /\ Entering(r) /\ copy[r] = None /\ row # None
  /\ retried' = retried \cup {r}
  /\ IF Retries(r) THEN Goto(r, "lookup") /\ UNCHANGED result
     ELSE Answers(r, IF op[r] = "file" THEN result[r] ELSE "conflict")
  /\ UNCHANGED <<row, cache, lastId, messages, lock, queue, op, copy, seq, job,
                 mishaps, hidden, strayed>>

\* A configuration is merged into the copy, and written whole.  A post writes the
\* memberships of its peers, which refer to the session by name.
Join(r) ==
  /\ Entering(r) /\ Active(r)
  /\ LET merged  == copy[r].config \cup Given(r)
         changed == merged # copy[r].config
     IN
     \/ /\ (changed => Finds(r)) /\ (op[r] = "post" => row # None)
        /\ row' = IF changed THEN [row EXCEPT !.config = merged] ELSE row
        /\ copy' = [copy EXCEPT ![r].config = merged]
        /\ Goto(r, IF changed THEN "publish" ELSE After(r))
        /\ result' = [result EXCEPT ![r] = IF After(r) = "done" THEN "ok" ELSE @]
     \/ /\ (changed /\ ~ Finds(r)) \/ (op[r] = "post" /\ row = None)
        /\ Answers(r, "error")
        /\ UNCHANGED <<row, copy>>
  /\ UNCHANGED <<cache, lastId, messages, lock, queue, op, seq, retried, job,
                 mishaps, hidden, strayed>>

\* After the commit, the merged copy is cached.
Publish(r) ==
  /\ at[r] = "publish"
  /\ cache' = copy[r]
  /\ Goto(r, After(r))
  /\ result' = [result EXCEPT ![r] = IF After(r) = "done" THEN "ok" ELSE @]
  /\ UNCHANGED <<row, lastId, messages, lock, queue, op, copy, seq, retried, job,
                 mishaps, hidden, strayed>>

-----------------------------------------------------------------------------
(* update_session and the deletion route: a commit, then an invalidation. *)

Update(r) ==
  /\ at[r] = "apply"
  /\ IF Finds(r)
       THEN /\ row' = [row EXCEPT !.config = copy[r].config \cup {r}]
            /\ Goto(r, "invalidate") /\ UNCHANGED result
       ELSE Answers(r, "error") /\ UNCHANGED row
  /\ UNCHANGED <<cache, lastId, messages, lock, queue, op, copy, seq, retried, job,
                 mishaps, hidden, strayed>>

\* The row is marked and the task is filed in one transaction.
MarkDeleted(r) ==
  /\ at[r] = "have" /\ op[r] = "delete"
  /\ \/ /\ Active(r) /\ Finds(r)
        /\ row' = [row EXCEPT !.active = FALSE]
        /\ tasks' = tasks \cup {r}
        /\ Goto(r, "invalidate") /\ UNCHANGED result
     \/ /\ ~ Active(r)
        /\ Answers(r, "missing") /\ UNCHANGED <<row, tasks>>
     \/ /\ Active(r) /\ ~ Finds(r)
        /\ Answers(r, "error") /\ UNCHANGED <<row, tasks>>
  /\ UNCHANGED <<cache, lastId, messages, lock, items, failed, op, copy, seq, retried, job,
                 mishaps, hidden, strayed>>

\* Mutant: the entry is left to expire.
Dropped_Left == cache
Dropped == None

\* Nobody else holds a copy that it may still put in the cache.
Alone(p) == \A q \in Processes \ {p} : at[q] \notin {"store", "have", "publish"}

\* safe_cache_delete: a failure is logged, and the entry stays.
Invalidate(p) ==
  /\ at[p] = "invalidate"
  /\ \/ /\ cache' = Dropped
        /\ hidden' = IF p \in Requests /\ op[p] = "delete" /\ Alone(p)
                       THEN hidden \cup {copy[p].id} ELSE hidden
        /\ UNCHANGED mishaps
     \/ /\ mishaps < MaxMishaps
        /\ mishaps' = mishaps + 1
        /\ UNCHANGED <<cache, hidden>>
  /\ IF p = Worker THEN Goto(p, "mark") /\ UNCHANGED result ELSE Answers(p, "ok")
  /\ UNCHANGED <<row, lastId, messages, lock, queue, op, copy, seq, retried, job, strayed>>

-----------------------------------------------------------------------------
(* create_messages after it has the session, and the background task that files *)
(* the message in the queue.                                                    *)

\* Mutant: the sequence number is read without the lock.
Free_Always(r) == TRUE
Free(r) == lock = None

\* The advisory lock of the session, and its last sequence number.
LockSession(r) ==
  /\ at[r] = "lock" /\ Free(r)
  /\ lock' = r
  /\ seq' = [seq EXCEPT ![r] = IF messages = <<>> THEN 0 ELSE messages[Len(messages)].seq]
  /\ Goto(r, "insert")
  /\ UNCHANGED <<row, cache, lastId, messages, queue, op, copy, retried, result, job,
                 mishaps, hidden, strayed>>

\* A message refers to the session by name, and its sequence number is unique.
InsertMessage(r) ==
  /\ at[r] = "insert"
  /\ lock' = IF lock = r THEN None ELSE lock
  /\ LET taken == \E i \in DOMAIN messages : messages[i].seq = seq[r] + 1 IN
     \/ /\ row # None /\ ~ taken
        /\ messages' = Append(messages, [by |-> r, seq |-> seq[r] + 1])
        /\ op' = [op EXCEPT ![r] = "file"]
        /\ retried' = retried \ {r}
        /\ Goto(r, "lookup")
        /\ result' = [result EXCEPT ![r] = "ok"]
     \/ /\ row = None \/ taken
        /\ Answers(r, IF row = None THEN "error" ELSE "collided")
        /\ UNCHANGED <<messages, op, retried>>
  /\ UNCHANGED <<row, cache, lastId, queue, copy, seq, job, mishaps, hidden, strayed>>

Stored(r) == \E i \in DOMAIN messages : messages[i].by = r

\* A queue item refers to the session's identity and to the message; a failure is
\* logged, and the message stays.
FileItem(r) ==
  /\ at[r] = "file"
  /\ items' = IF Finds(r) /\ Stored(r) THEN items \cup {r} ELSE items
  /\ Goto(r, "done")
  /\ UNCHANGED <<row, cache, lastId, messages, lock, tasks, failed, op, copy, seq, retried,
                 result, job, mishaps, hidden, strayed>>

-----------------------------------------------------------------------------
(* The deletion task: process_deletion and delete_session. *)

Take(t) ==
  /\ at[Worker] = "idle" /\ t \in tasks
  /\ job' = [NoTask EXCEPT !.task = t]
  /\ Goto(Worker, "lookup")
  /\ UNCHANGED <<row, cache, lastId, messages, lock, queue, op, copy, seq, retried, result,
                 mishaps, hidden, strayed>>

\* Mutant: only an active session is found.
Found_Active == Active(Worker)
\* get_session with include_inactive.
Found == copy[Worker] # None

\* The transaction's statements, up to the one on the session's row.  It goes by
\* the identity of the copy for the queue items, and by name for the messages.
Sweep ==
  /\ at[Worker] = "have"
  /\ IF Found
       THEN /\ job' = [job EXCEPT !.messages = Len(messages),
                                 !.items = IF Finds(Worker) THEN items ELSE {}]
            /\ Goto(Worker, "commit")
       ELSE Goto(Worker, "mark") /\ UNCHANGED job
  /\ UNCHANGED <<row, cache, lastId, messages, lock, queue, op, copy, seq, retried, result,
                 mishaps, hidden, strayed>>

\* Nothing that refers to a deleted row has come in since.
Unreferenced ==
  /\ items \subseteq job.items
  /\ Finds(Worker) => Len(messages) = job.messages

\* A copy of another row deletes no row, and what the name has is gone all the same.
DeleteSession ==
  /\ at[Worker] = "commit" /\ Unreferenced
  /\ messages' = SubSeq(messages, job.messages + 1, Len(messages))
  /\ items' = items \ job.items
  /\ row' = IF Finds(Worker) THEN None ELSE row
  /\ strayed' = (strayed \/ (row # None /\ ~ Finds(Worker)))
  /\ Goto(Worker, "invalidate")
  /\ UNCHANGED <<cache, lastId, lock, tasks, failed, op, copy, seq, retried, result, job,
                 mishaps, hidden>>

EndTask ==
  /\ at' = [at EXCEPT ![Worker] = "idle"]
  /\ job' = NoTask
  /\ copy' = [copy EXCEPT ![Worker] = None]

\* An integrity error is terminal: the task is marked as errored.
DeletionFails ==
  /\ at[Worker] = "commit" /\ ~ Unreferenced
  /\ EndTask
  /\ tasks' = tasks \ {job.task}
  /\ failed' = failed \cup {job.task}
  /\ UNCHANGED <<row, cache, lastId, messages, lock, items, op, seq, retried, result,
                 mishaps, hidden, strayed>>

MarkProcessed ==
  /\ at[Worker] = "mark"
  /\ EndTask
  /\ tasks' = tasks \ {job.task}
  /\ UNCHANGED <<row, cache, lastId, messages, lock, items, failed, op, seq, retried, result,
                 mishaps, hidden, strayed>>

\* The worker crashes, or a transient error ends the attempt: the task is pending,
\* whatever has been committed.
Interrupted ==
  /\ at[Worker] # "idle" /\ mishaps < MaxMishaps
  /\ mishaps' = mishaps + 1
  /\ EndTask
  /\ UNCHANGED <<row, cache, lastId, messages, lock, queue, op, seq, retried, result,
                 hidden, strayed>>

-----------------------------------------------------------------------------
Init ==
  /\ op \in Mixes
  /\ row \in {None, [id |-> 1, active |-> TRUE, config |-> {}]}
  /\ lastId = IF row = None THEN 0 ELSE 1
  /\ cache \in {None, row}
  /\ messages = <<>> /\ lock = None
  /\ items = {} /\ tasks = {} /\ failed = {}
  /\ at = [p \in Processes |-> IF p = Worker THEN "idle" ELSE "lookup"]
  /\ copy = [p \in Processes |-> None]
  /\ seq = [r \in Requests |-> 0]
  /\ retried = {}
  /\ result = [r \in Requests |-> "none"]
  /\ job = NoTask
  /\ mishaps = 0
  /\ hidden = {} /\ strayed = FALSE

Handle(r) ==
  \/ Read(r)
  \/ Refused(r) \/ Create(r) \/ CreateLost(r) \/ Join(r) \/ Publish(r)
  \/ Update(r) \/ MarkDeleted(r)
  \/ LockSession(r) \/ InsertMessage(r) \/ FileItem(r)

Delete == Sweep \/ DeleteSession \/ DeletionFails \/ MarkProcessed

Step(p) == Lookup(p) \/ Fetch(p) \/ Store(p) \/ Invalidate(p)

Progress ==
  \/ \E p \in Processes : Step(p)
  \/ \E r \in Requests : Handle(r) \/ Take(r)
  \/ Delete

Next == Progress \/ Interrupted \/ Expire

Spec == Init /\ [][Next]_vars

\* As long as a request or the worker can go on, one of them does.  Each runs through
\* finitely many steps, so none of them is left behind.
Fairness == WF_vars(Progress)

FairSpec == Spec /\ Fairness

-----------------------------------------------------------------------------
Copies == [id : 1 .. lastId, active : BOOLEAN, config : SUBSET Requests] \cup {None}

\* What is stored refers to what exists: the row's identity is the last one given
\* out, queue items have their message, and the lock has its reader.
TypeOK ==
  /\ row \in Copies /\ cache \in Copies
  /\ row # None => row.id = lastId
  /\ \A i \in DOMAIN messages : messages[i] \in [by : Requests, seq : Nat \ {0}]
  /\ lock # None => at[lock] = "insert"
  /\ \A r \in items : row # None /\ Stored(r)
  /\ tasks \subseteq Requests /\ failed \subseteq Requests /\ tasks \cap failed = {}
  /\ op \in [Requests -> Everything \cup {"file"}]
  /\ copy \in [Processes -> Copies]
  /\ seq \in [Requests -> Nat] /\ retried \subseteq Requests
  /\ result \in [Requests -> {"none", "ok", "missing", "conflict", "error", "collided"}]
  /\ job.task = None <=> at[Worker] = "idle"
  /\ hidden \subseteq 1 .. lastId /\ mishaps \in 0 .. MaxMishaps

\* A request that loses the race to create a session gets the session after all,
\* unless it was deleted and created again meanwhile ("Race condition detected
\* for session", get_or_create_session).
OneWinner == \A r \in Requests : result[r] = "conflict" => lastId > 1

\* Concurrent posts get sequence numbers in the order of their ids and never
\* collide on one, deletions and new sessions of the name included
\* (create_messages, "while maintaining order").
PostsInOrder ==
  /\ \A r \in Requests : result[r] # "collided"
  /\ \A i, j \in DOMAIN messages : i < j => messages[i].seq < messages[j].seq

\* When a deletion is acknowledged and nobody held an older copy, the cache never
\* shows the session as active again ("marked as inactive immediately", the
\* deletion route).
DeletionHides == cache # None /\ cache.active => cache.id \notin hidden

\* A session that is marked for deletion is deleted in the end, and its name is
\* free again, unless a task failed for good or ran on a copy of another row
\* ("happens asynchronously via the queue with retry support").
DeletedGoes == <>[](row = None \/ row.active \/ failed # {} \/ strayed)

-----------------------------------------------------------------------------
(* What the documentation says, and the code does not keep. *)

\* A deletion task deletes only the session that a client has asked to delete
\* ("deleting an already-deleted resource is a no-op", process_deletion).
OnlyTheMarked ==
  [][row # None /\ row' = None => ~ row.active]_vars

\* No deletion task fails for good.
DeletionSucceeds == failed = {}

\* A configuration that was acknowledged stays ("Merge configuration instead of
\* replacing to preserve existing keys", update_session).
ConfigurationKept ==
  [][\A r \in Requests : row # None /\ row' # None /\ row'.id = row.id /\ r \in row.config
       => r \in row'.config]_vars
=============================================================================
