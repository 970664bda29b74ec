-------------------------- MODULE VectorSync_proofs --------------------------
(***************************************************************************)
(* Theorems about VectorSync, for every value of its constants: leases     *)
(* exclude cycles, what is synced is stored, and what is swept is clean.   *)
(***************************************************************************)
EXTENDS VectorSync, FiniteSetTheorems, TLAPS

-----------------------------------------------------------------------------
(* The inductive invariant. *)

RowType == [life : {"none", "live", "deleted", "gone"}, state : {"pending", "synced", "failed"},
            tries : Nat, cool : BOOLEAN, pg : BOOLEAN]

TaskType == [pc : {"idle", "scheduled", "claimed", "embedded", "upserted", "over"},
             rows : SUBSET Messages]

CycleType == [pc : {"off", "look", "sync", "commit", "purge", "remove"},
              stage : {"docs", "msgs", "sweep"},
              batch : SUBSET Rows, fresh : SUBSET Rows, done : SUBSET Rows]

Typed ==
  /\ row \in [Rows -> RowType]
  /\ lock \in [Rows -> Cycles \cup {None}]
  /\ task \in [Tasks -> TaskType]
  /\ lease \in [Tasks -> SUBSET Messages]
  /\ cycle \in [Cycles -> CycleType]
  /\ writer \in [Documents -> {"idle", "stored", "upserted", "refused", "over"}]

\* A cycle holds the locks of its batch, whose rows exist, and a row that does
\* not exist yet is as it will be created.
Held ==
  /\ \A c \in Cycles : \A r \in cycle[c].batch : lock[r] = c /\ row[r].life # "none"
  /\ \A r \in Rows : row[r].life = "none" => row[r].state = "pending"
  /\ \A d \in Documents : writer[d] # "idle" => row[d].life # "none"

\* A sweep removes deleted documents only.
Sweeping ==
  \A c \in Cycles : cycle[c].pc \in {"purge", "remove"} =>
    \A r \in cycle[c].batch : r \in Documents /\ row[r].life = "deleted"

\* A leased row is not eligible, nor will it be until the lease has expired.
Cooling ==
  \A t \in Tasks : \A r \in lease[t] :
    row[r].life # "none" /\ (row[r].cool \/ row[r].life = "gone")

\* What is about to be marked synced is stored.
Vouched ==
  /\ \A d \in Documents : row[d].life = "live" =>
       /\ InPostgres => row[d].pg
       /\ writer[d] = "upserted" => d \in ext
  /\ \A t \in Tasks : task[t].pc = "upserted" => task[t].rows \subseteq ext
  /\ \A c \in Cycles : cycle[c].pc = "commit" =>
       \A r \in cycle[c].done :
         /\ r \in cycle[c].batch
         /\ row[r].life = "live" =>
              /\ row[r].pg \/ r \in cycle[c].fresh
              /\ InExternal => r \in ext

\* Whatever is about to be removed has no vector but a late one.
Clean ==
  /\ SweptIsClean
  /\ \A c \in Cycles : cycle[c].pc = "remove" => (cycle[c].batch \cap ext) \subseteq late
  /\ drop = "vectors" => (ext \cap Documents) \subseteq late

IInv ==
  /\ Typed /\ Held /\ Sweeping
  /\ Cooling /\ LeaseExcludes
  /\ drop = "no" => Vouched /\ AllSyncedStored
  /\ Clean

-----------------------------------------------------------------------------
(* Types. *)

\* The updates of a row.
LEMMA RowUpdates ==
  ASSUME NEW old \in RowType
  PROVE  /\ Synced(old) \in RowType /\ Failing(old) \in RowType /\ Stamped(old) \in RowType
         /\ \A p \in BOOLEAN : [Synced(old) EXCEPT !.pg = p] \in RowType
         /\ \A p \in BOOLEAN : [Failing(old) EXCEPT !.pg = p] \in RowType
         /\ [old EXCEPT !.tries = @ + 1, !.cool = TRUE] \in RowType
         /\ Blank \in RowType /\ Removed \in RowType
<1> USE DEF RowType
<1>1. Synced(old) \in RowType /\ Stamped(old) \in RowType
  BY DEF Synced, Stamped
<1>2. Failing(old) \in RowType
  <2> DEFINE state == IF old.tries + 1 >= MaxAttempts THEN "failed" ELSE "pending"
  <2>1. state \in {"pending", "synced", "failed"}
    OBVIOUS
  <2>2. Failing(old) = [old EXCEPT !.tries = @ + 1, !.cool = TRUE, !.state = state]
    BY DEF Failing
  <2>3. old.tries + 1 \in Nat
    OBVIOUS
  <2> HIDE DEF state
  <2> QED BY <2>1, <2>2, <2>3
<1>3. \A o \in RowType, p \in BOOLEAN : [o EXCEPT !.pg = p] \in RowType
  OBVIOUS
<1>4. Blank \in RowType /\ Removed \in RowType
  BY DEF Blank, Removed
<1>5. [old EXCEPT !.tries = @ + 1, !.cool = TRUE] \in RowType
  <2> DEFINE tries == old.tries + 1
  <2>1. tries \in Nat
    OBVIOUS
  <2> HIDE DEF tries
  <2>2. [old EXCEPT !.tries = tries, !.cool = TRUE] \in RowType
    BY <2>1
  <2> QED BY <2>2 DEF tries
<1> QED BY <1>1, <1>2, <1>3, <1>4, <1>5

\* A cycle that has ended its batch holds none and looks for another, or is off.
Idles(c) ==
  /\ cycle' \in [Cycles -> CycleType]
  /\ cycle'[c].pc \in {"off", "look"} /\ cycle'[c].batch = {}
  /\ \A e \in Cycles \ {c} : cycle'[e] = cycle[e]

LEMMA Idling ==
  ASSUME Typed, NEW c \in Cycles,
         \/ Advance(c)
         \/ cycle' = [cycle EXCEPT ![c] = Off]
         \/ Looking(c, FirstStage)
  PROVE  Idles(c)
<1> USE DEF Typed, CycleType, Off, Idles
<1>1. CASE cycle' = [cycle EXCEPT ![c] = Off]
  BY <1>1
<1>2. ASSUME NEW s \in {"docs", "msgs", "sweep"}, Looking(c, s) PROVE Idles(c)
  BY <1>2 DEF Looking
<1>3. CASE Advance(c)
  <2>1. cycle[c].stage \in {"docs", "msgs", "sweep"}
    OBVIOUS
  <2> QED BY <1>1, <1>2, <1>3, <2>1 DEF Advance
<1> QED BY <1>1, <1>2, <1>3 DEF FirstStage

LEMMA TypedTasks ==
  ASSUME Typed, NEW t \in Tasks, CreateMessages(t) \/ TaskStep(t)
  PROVE  Typed'
<1> USE DEF Typed, TaskType, taskVars
<1>1. CASE CreateMessages(t)
  <2>1. \A r \in Rows : [row[r] EXCEPT !.life = "live"] \in RowType
    BY SMTT(60) DEF RowType
  <2>2. PICK M \in SUBSET {m \in Messages : row[m].life = "none"} :
          /\ row' = [r \in Rows |-> IF r \in M THEN [row[r] EXCEPT !.life = "live"] ELSE row[r]]
          /\ \/ task' = [task EXCEPT ![t] = [pc |-> "scheduled", rows |-> M]]
             \/ task' = [task EXCEPT ![t].pc = "over"]
    BY <1>1 DEF CreateMessages
  <2>3. row' \in [Rows -> RowType]
    BY <2>1, <2>2
  <2>4. task' \in [Tasks -> TaskType]
    BY <2>2
  <2> QED BY <1>1, <2>3, <2>4 DEF CreateMessages
<1>2. CASE ClaimAndLease(t)
  <2>1. \A r \in Rows : Stamped(row[r]) \in RowType
    BY RowUpdates
  <2>2. row' \in [Rows -> RowType]
    BY <1>2, <2>1 DEF ClaimAndLease
  <2>3. PICK S \in SUBSET task[t].rows :
          \/ Over(t)
          \/ /\ task' = [task EXCEPT ![t] = [pc |-> "claimed", rows |-> S]]
             /\ lease' = [lease EXCEPT ![t] = S]
    <3> DEFINE S == {r \in task[t].rows : Eligible(r) /\ lock[r] = None}
    <3>1. \/ Over(t)
          \/ /\ task' = [task EXCEPT ![t] = [pc |-> "claimed", rows |-> S]]
             /\ lease' = [lease EXCEPT ![t] = S]
      BY <1>2 DEF ClaimAndLease
    <3> HIDE DEF S
    <3>2. S \in SUBSET task[t].rows
      BY DEF S
    <3> QED BY <3>1, <3>2
  <2>4. task' \in [Tasks -> TaskType] /\ lease' \in [Tasks -> SUBSET Messages]
    <3>1. S \in SUBSET Messages
      OBVIOUS
    <3>2. CASE Over(t)
      BY <3>2 DEF Over
    <3> QED BY <2>3, <3>1, <3>2
  <2> QED BY <1>2, <2>2, <2>4 DEF ClaimAndLease
<1>3. CASE EmbedChunks(t)
  <2>1. CASE Over(t)
    BY <1>3, <2>1 DEF EmbedChunks, Over
  <2>2. CASE ~ Over(t)
    <3> DEFINE S == IF InExternal THEN {r \in task[t].rows : row[r].life # "gone"} ELSE task[t].rows
    <3>1. task' = [task EXCEPT ![t].pc = "embedded", ![t].rows = S] /\ lease' = lease
      BY <1>3, <2>2 DEF EmbedChunks
    <3>2. S \in SUBSET Messages
      OBVIOUS
    <3> HIDE DEF S
    <3>3. task' \in [Tasks -> TaskType] /\ lease' \in [Tasks -> SUBSET Messages]
      BY <3>1, <3>2, ZenonT(60)
    <3> QED BY <1>3, <3>3 DEF EmbedChunks
  <2> QED BY <2>1, <2>2
<1>4. MarkedByTask(t) \in [Rows -> RowType]
  <2>1. ASSUME NEW r \in Rows PROVE [Synced(row[r]) EXCEPT !.pg = @ \/ InPostgres] \in RowType
    <3>1. (Synced(row[r]).pg \/ InPostgres) \in BOOLEAN
      OBVIOUS
    <3> QED BY <3>1, RowUpdates
  <2> QED BY <2>1 DEF MarkedByTask
<1>5. CASE PersistPgvector(t)
  BY <1>4, <1>5 DEF PersistPgvector, Over
<1>6. CASE UpsertExternal(t)
  BY <1>6, SMTT(60) DEF UpsertExternal, Over
<1>7. CASE MarkSynced(t)
  BY <1>4, <1>7 DEF MarkSynced, Over
<1> QED BY <1>1, <1>2, <1>3, <1>5, <1>6, <1>7 DEF TaskStep

LEMMA TypedDocuments ==
  ASSUME Typed, NEW d \in Documents,
         StoreDocument(d) \/ WriterStep(d) \/ CrashWriter(d) \/ DeleteDocument(d)
  PROVE  Typed'
<1> USE DEF Typed, taskVars
<1>1. CASE StoreDocument(d)
  <2>1. InPostgres \in BOOLEAN
    BY DEF InPostgres
  <2>2. row' \in [Rows -> RowType]
    BY <1>1, <2>1, ZenonT(60) DEF StoreDocument, RowType, Rows
  <2> QED BY <1>1, <2>2 DEF StoreDocument
<1>2. CASE UpsertDocument(d)
  BY <1>2 DEF UpsertDocument
<1>3. CASE MarkDocument(d)
  <2>1. row[d] \in RowType
    BY DEF Rows
  <2>2. [row[d] EXCEPT !.tries = @ + 1, !.cool = TRUE] \in RowType
    BY <2>1, RowUpdates
  <2>3. AfterUpsert(d) \in RowType
    BY <2>1, <2>2, RowUpdates DEF AfterUpsert
  <2> QED BY <1>3, <2>3 DEF MarkDocument, Rows
<1>4. CASE CrashWriter(d)
  BY <1>4 DEF CrashWriter
<1>5. CASE DeleteDocument(d)
  BY <1>5 DEF DeleteDocument, RowType, Rows
<1> QED BY <1>1, <1>2, <1>3, <1>4, <1>5 DEF WriterStep

LEMMA TypedCycles ==
  ASSUME Typed, NEW c \in Cycles, CycleStep(c) \/ Deadline(c) \/ CrashCycle(c)
  PROVE  Typed'
<1> USE DEF Typed, taskVars
<1>0. [r \in Rows |-> IF lock[r] = c THEN None ELSE lock[r]] \in [Rows -> Cycles \cup {None}]
  OBVIOUS
<1>1. CASE StartCycle(c)
  BY <1>1, Idling DEF StartCycle, Idles
<1>2. CASE ClaimBatch(c)
  <2>1. PICK B \in SUBSET {r \in Due(cycle[c].stage) : lock[r] = None} :
          IF B = {} THEN Advance(c) /\ UNCHANGED lock
          ELSE /\ cycle' = [cycle EXCEPT ![c].pc = IF cycle[c].stage = "sweep" THEN "purge" ELSE "sync",
                                         ![c].batch = B]
               /\ lock' = [r \in Rows |-> IF r \in B THEN c ELSE lock[r]]
    BY <1>2 DEF ClaimBatch
  <2>2. cycle[c].stage \in {"docs", "msgs", "sweep"}
    BY DEF CycleType
  <2>3. B \subseteq Rows
    BY <2>1, <2>2 DEF Due, Rows
  <2>4. cycle' \in [Cycles -> CycleType]
    BY <2>1, <2>3, Idling, SMTT(60) DEF Idles, CycleType
  <2>5. lock' \in [Rows -> Cycles \cup {None}]
    BY <2>1
  <2> QED BY <1>2, <2>4, <2>5 DEF ClaimBatch
<1>3. CASE Sync(c)
  <2>1. cycle' \in [Cycles -> CycleType]
    <3>1. PICK got \in SUBSET cycle[c].batch, done \in SUBSET cycle[c].batch :
            cycle' = [cycle EXCEPT ![c].pc = "commit", ![c].fresh = got, ![c].done = done]
      BY <1>3 DEF Sync, Acked
    <3>2. got \in SUBSET Rows /\ done \in SUBSET Rows
      BY DEF CycleType
    <3>3. [cycle[c] EXCEPT !.pc = "commit", !.fresh = got, !.done = done] \in CycleType
      BY <3>2, ZenonT(60) DEF CycleType
    <3> QED BY <3>1, <3>3
  <2> QED BY <1>3, <2>1 DEF Sync
<1>4. CASE CommitBatch(c)
  <2>1. ASSUME NEW r \in Rows
        PROVE  [Judged(c, r) EXCEPT !.pg = @ \/ (InPostgres /\ r \in cycle[c].fresh)] \in RowType
    <3>1. (Judged(c, r).pg \/ (InPostgres /\ r \in cycle[c].fresh)) \in BOOLEAN
      OBVIOUS
    <3> QED BY <3>1, RowUpdates DEF Judged
  <2>2. row' \in [Rows -> RowType]
    BY <1>4, <2>1 DEF CommitBatch
  <2> QED BY <1>0, <1>4, <2>2, Idling DEF CommitBatch, Release, Idles
<1>5. CASE PurgeVectors(c)
  <2>1. cycle' \in [Cycles -> CycleType]
    BY <1>5, Idling, SMTT(60) DEF PurgeVectors, Idles, CycleType
  <2> QED BY <1>0, <1>5, <2>1 DEF PurgeVectors, Release
<1>6. CASE RemoveRows(c)
  <2>1. row' \in [Rows -> RowType]
    BY <1>6, RowUpdates DEF RemoveRows
  <2> QED BY <1>0, <1>6, <2>1, Idling DEF RemoveRows, Release, Idles
<1>7. CASE Deadline(c)
  BY <1>7, Idling DEF Deadline, Idles
<1>8. CASE CrashCycle(c)
  BY <1>0, <1>8, Idling DEF CrashCycle, Release, Idles
<1> QED BY <1>1, <1>2, <1>3, <1>4, <1>5, <1>6, <1>7, <1>8 DEF CycleStep

LEMMA TypedOthers ==
  ASSUME Typed,
         \/ \E r \in Rows : BackoffEnds(r)
         \/ CrashApi \/ DropVectors \/ DropRows \/ RollBackDrop
  PROVE  Typed'
<1> USE DEF Typed, taskVars
<1>1. ASSUME NEW r \in Rows, BackoffEnds(r) PROVE Typed'
  BY <1>1, ZenonT(60) DEF BackoffEnds, RowType
<1>2. CASE CrashApi
  BY <1>2 DEF CrashApi, TaskType
<1>3. CASE DropVectors
  BY <1>3 DEF DropVectors
<1>4. CASE DropRows
  BY <1>4, RowUpdates DEF DropRows
<1>5. CASE RollBackDrop
  BY <1>5 DEF RollBackDrop
<1> QED BY <1>1, <1>2, <1>3, <1>4, <1>5

LEMMA TypedStep == Typed /\ Next => Typed'
BY TypedTasks, TypedDocuments, TypedCycles, TypedOthers DEF Next

-----------------------------------------------------------------------------
(* How a row ages. *)

\* What a step may do to a row, whatever the step.
Ages(r) ==
  /\ row'[r].life = "none" => row[r].life = "none"
  /\ row[r].life = "none" => row'[r].state = row[r].state
  /\ row[r].life = "gone" => row'[r].life = "gone"
  /\ row[r].life = "deleted" => row'[r].life \in {"deleted", "gone"}
  /\ row[r].life # "live" /\ row'[r].life = "live" =>
       row[r].life = "none" /\ (r \in Messages \/ StoreDocument(r))
  /\ row[r].life # "gone" /\ row'[r].life = "gone" =>
       DropRows \/ \E c \in Cycles : RemoveRows(c) /\ r \in cycle[c].batch
  /\ row[r].cool => row'[r].cool \/ row'[r].life = "gone" \/ BackoffEnds(r)
  /\ row[r].pg => row'[r].pg \/ row'[r].life = "gone" \/ StoreDocument(r)

LEMMA AgesTasks ==
  ASSUME Typed, Held, NEW t \in Tasks, CreateMessages(t) \/ TaskStep(t), NEW r \in Rows
  PROVE  Ages(r)
<1> USE DEF Ages
<1>0. row[r] \in RowType
  BY DEF Typed
<1>1. CASE CreateMessages(t)
  <2>1. \/ row'[r] = row[r]
        \/ /\ r \in Messages /\ row[r].life = "none"
           /\ row'[r] = [row[r] EXCEPT !.life = "live"]
    BY <1>1 DEF CreateMessages
  <2> QED BY <1>0, <2>1 DEF RowType
<1>2. CASE ClaimAndLease(t)
  <2>1. row'[r] = row[r] \/ row'[r] = Stamped(row[r])
    BY <1>2 DEF ClaimAndLease
  <2> QED BY <1>0, <2>1 DEF RowType, Stamped
<1>3. CASE EmbedChunks(t) \/ UpsertExternal(t)
  BY <1>3 DEF EmbedChunks, UpsertExternal
<1>4. CASE PersistPgvector(t) \/ MarkSynced(t)
  <2>1. row' = MarkedByTask(t)
    BY <1>4 DEF PersistPgvector, MarkSynced
  <2>2. \/ row'[r] = row[r]
        \/ row[r].life = "live" /\ row'[r] = [Synced(row[r]) EXCEPT !.pg = @ \/ InPostgres]
    BY <2>1 DEF MarkedByTask
  <2> QED BY <1>0, <2>2 DEF RowType, Synced
<1> QED BY <1>1, <1>2, <1>3, <1>4 DEF TaskStep

LEMMA AgesDocuments ==
  ASSUME Typed, Held, NEW d \in Documents,
         StoreDocument(d) \/ WriterStep(d) \/ CrashWriter(d) \/ DeleteDocument(d),
         NEW r \in Rows
  PROVE  Ages(r)
<1> USE DEF Ages
<1>0. row[r] \in RowType /\ row[d] \in RowType
  BY DEF Typed, Rows
<1>1. CASE StoreDocument(d)
  <2>1. \/ row'[r] = row[r]
        \/ /\ r = d /\ row[r].life = "none" /\ row'[r].life = "live"
           /\ row'[r].state = row[r].state /\ row'[r].cool = row[r].cool
    BY <1>0, <1>1 DEF StoreDocument, RowType, Typed
  <2> QED BY <1>1, <2>1
<1>2. CASE UpsertDocument(d) \/ CrashWriter(d)
  BY <1>2 DEF UpsertDocument, CrashWriter
<1>3. CASE MarkDocument(d)
  <2>1. row[d].life # "none"
    BY <1>3 DEF MarkDocument, Acknowledged, Held
  <2>2. row'[r] = row[r] \/ (r = d /\ row'[r] = AfterUpsert(d))
    BY <1>3 DEF MarkDocument, Typed
  <2>3. AfterUpsert(d).life = row[d].life /\ AfterUpsert(d).pg = row[d].pg /\ AfterUpsert(d).cool
    BY <1>0 DEF AfterUpsert, Synced, RowType
  <2> QED BY <2>1, <2>2, <2>3
<1>4. CASE DeleteDocument(d)
  <2>1. \/ row'[r] = row[r]
        \/ row[r].life = "live" /\ row'[r] = [row[r] EXCEPT !.life = "deleted"]
    BY <1>4 DEF DeleteDocument, Typed
  <2> QED BY <1>0, <2>1 DEF RowType
<1> QED BY <1>1, <1>2, <1>3, <1>4 DEF WriterStep

LEMMA AgesCycles ==
  ASSUME Typed, Held, NEW c \in Cycles, CycleStep(c) \/ Deadline(c) \/ CrashCycle(c),
         NEW r \in Rows
  PROVE  Ages(r)
<1> USE DEF Ages
<1>0. row[r] \in RowType
  BY DEF Typed
<1>1. CASE row' = row
  BY <1>1
<1>2. CASE CommitBatch(c)
  <2>1. \/ row'[r] = row[r]
        \/ /\ r \in cycle[c].batch
           /\ row'[r] = [Judged(c, r) EXCEPT !.pg = @ \/ (InPostgres /\ r \in cycle[c].fresh)]
    BY <1>2 DEF CommitBatch
  <2>2. /\ Judged(c, r) \in RowType /\ Judged(c, r).cool
        /\ Judged(c, r).life = row[r].life /\ Judged(c, r).pg = row[r].pg
    <3>1. Synced(row[r]).life = row[r].life /\ Synced(row[r]).pg = row[r].pg /\ Synced(row[r]).cool
      BY <1>0 DEF RowType, Synced
    <3>2. Failing(row[r]).life = row[r].life /\ Failing(row[r]).pg = row[r].pg /\ Failing(row[r]).cool
      BY <1>0 DEF RowType, Failing
    <3> QED BY <1>0, <3>1, <3>2, RowUpdates DEF Judged
  <2>3. r \in cycle[c].batch => row[r].life # "none"
    BY DEF Held
  <2> QED BY <2>1, <2>2, <2>3 DEF RowType
<1>3. CASE RemoveRows(c)
  <2>1. \/ row'[r] = row[r]
        \/ r \in cycle[c].batch /\ row'[r].life = "gone"
    BY <1>3 DEF RemoveRows, Removed, Blank
  <2> QED BY <1>3, <2>1 DEF Held
<1> QED BY <1>1, <1>2, <1>3
        DEF CycleStep, StartCycle, ClaimBatch, Sync, PurgeVectors, Deadline, CrashCycle

LEMMA AgesOthers ==
  ASSUME Typed,
         \/ \E r \in Rows : BackoffEnds(r)
         \/ CrashApi \/ DropVectors \/ DropRows \/ RollBackDrop,
         NEW r \in Rows
  PROVE  Ages(r)
<1> USE DEF Ages
<1>0. row[r] \in RowType
  BY DEF Typed
<1>1. ASSUME NEW s \in Rows, BackoffEnds(s) PROVE Ages(r)
  <2>1. row'[r] = row[r] \/ (r = s /\ row'[r] = [row[r] EXCEPT !.cool = FALSE])
    BY <1>1 DEF BackoffEnds, Typed
  <2> QED BY <1>0, <1>1, <2>1 DEF RowType
<1>2. CASE CrashApi \/ DropVectors \/ RollBackDrop
  BY <1>2 DEF CrashApi, DropVectors, RollBackDrop
<1>3. CASE DropRows
  <2>1. \/ row'[r] = row[r]
        \/ row[r].life # "none" /\ row'[r].life = "gone"
    BY <1>3 DEF DropRows, Removed, Blank
  <2> QED BY <1>3, <2>1
<1> QED BY <1>1, <1>2, <1>3

LEMMA Aging == Typed /\ Held /\ Next => \A r \in Rows : Ages(r)
BY AgesTasks, AgesDocuments, AgesCycles, AgesOthers DEF Next

-----------------------------------------------------------------------------
(* Batches are locked and exist. *)

\* A step of a cycle that takes, keeps or gives up its batch.
Takes(c) ==
  \E B \in SUBSET Rows :
    /\ \A r \in B : r \in Due(cycle[c].stage) /\ lock[r] = None
    /\ cycle' = [cycle EXCEPT ![c].pc = IF cycle[c].stage = "sweep" THEN "purge" ELSE "sync",
                              ![c].batch = B]
    /\ lock' = [r \in Rows |-> IF r \in B THEN c ELSE lock[r]]

Keeps(c) ==
  /\ lock' = lock
  /\ \/ Sync(c) /\ cycle'[c].pc = "commit"
     \/ PurgeVectors(c) /\ cycle[c].pc = "purge" /\ cycle'[c].pc = "remove"
  /\ cycle'[c].batch = cycle[c].batch /\ \A e \in Cycles \ {c} : cycle'[e] = cycle[e]

Leaves(c) == Idles(c) /\ (lock' = lock \/ Release(c))

LEMMA DueRows == ASSUME NEW k \in {"docs", "msgs", "sweep"} PROVE Due(k) \subseteq Rows
BY DEF Due, Rows

LEMMA BatchSteps ==
  ASSUME Typed, NEW c \in Cycles, CycleStep(c) \/ Deadline(c) \/ CrashCycle(c)
  PROVE  Takes(c) \/ Keeps(c) \/ Leaves(c)
<1>1. CASE StartCycle(c) \/ Deadline(c)
  BY <1>1, Idling DEF StartCycle, Deadline, Leaves
<1>2. CASE ClaimBatch(c)
  <2>1. PICK B \in SUBSET {r \in Due(cycle[c].stage) : lock[r] = None} :
          IF B = {} THEN Advance(c) /\ UNCHANGED lock
          ELSE /\ cycle' = [cycle EXCEPT ![c].pc = IF cycle[c].stage = "sweep" THEN "purge" ELSE "sync",
                                         ![c].batch = B]
               /\ lock' = [r \in Rows |-> IF r \in B THEN c ELSE lock[r]]
    BY <1>2 DEF ClaimBatch
  <2>2. CASE B = {}
    BY <2>1, <2>2, Idling DEF Leaves
  <2>3. CASE B # {}
    <3>1. B \in SUBSET Rows
      BY <2>1, DueRows DEF Typed, CycleType
    <3> QED BY <2>1, <2>3, <3>1 DEF Takes
  <2> QED BY <2>2, <2>3
<1>3. CASE Sync(c)
  <2>1. PICK got \in SUBSET cycle[c].batch, done \in SUBSET cycle[c].batch :
          cycle' = [cycle EXCEPT ![c].pc = "commit", ![c].fresh = got, ![c].done = done]
    BY <1>3 DEF Sync, Acked
  <2>2. /\ cycle'[c].pc = "commit" /\ cycle'[c].batch = cycle[c].batch
        /\ \A e \in Cycles \ {c} : cycle'[e] = cycle[e]
    BY <2>1 DEF Typed, CycleType
  <2>3. lock' = lock
    BY <1>3 DEF Sync
  <2> QED BY <1>3, <2>2, <2>3 DEF Keeps
<1>4. CASE CommitBatch(c) \/ RemoveRows(c) \/ CrashCycle(c)
  BY <1>4, Idling DEF CommitBatch, RemoveRows, CrashCycle, Leaves
<1>5. CASE PurgeVectors(c)
  <2>1. /\ cycle[c].pc = "purge"
        /\ \/ cycle' = [cycle EXCEPT ![c].pc = "remove"] /\ lock' = lock
           \/ Advance(c) /\ Release(c)
    BY <1>5 DEF PurgeVectors, At
  <2> QED BY <1>5, <2>1, Idling DEF Keeps, Leaves, Typed, CycleType
<1> QED BY <1>1, <1>2, <1>3, <1>4, <1>5 DEF CycleStep

\* No step but those of the cycles touches a batch or a lock.
LEMMA BatchesRest ==
  Next => \/ \E c \in Cycles : CycleStep(c) \/ Deadline(c) \/ CrashCycle(c)
          \/ cycle' = cycle /\ lock' = lock
BY DEF Next, TaskStep, WriterStep, CreateMessages, ClaimAndLease, EmbedChunks, PersistPgvector,
       UpsertExternal, MarkSynced, CrashApi, StoreDocument, UpsertDocument, MarkDocument,
       CrashWriter, DeleteDocument, BackoffEnds, DropVectors, DropRows, RollBackDrop

LEMMA WritersRest ==
  ASSUME Typed, Next, NEW d \in Documents, writer'[d] # "idle"
  PROVE  writer[d] # "idle" \/ row'[d].life = "live"
<1>1. ASSUME NEW e \in Documents, StoreDocument(e) PROVE writer'[d] = writer[d] \/ row'[d].life = "live"
  BY <1>1 DEF StoreDocument, Typed, RowType, Rows
<1>2. ASSUME NEW e \in Documents, WriterStep(e) \/ CrashWriter(e)
      PROVE  writer'[d] = writer[d] \/ writer[d] # "idle"
  BY <1>2 DEF WriterStep, UpsertDocument, MarkDocument, Acknowledged, CrashWriter, Typed
<1>3. \/ \E e \in Documents : StoreDocument(e) \/ WriterStep(e) \/ CrashWriter(e)
      \/ writer' = writer
  BY ZenonT(60) DEF Next, TaskStep, CreateMessages, ClaimAndLease, EmbedChunks, PersistPgvector,
         UpsertExternal, MarkSynced, CrashApi, DeleteDocument, BackoffEnds,
         DropVectors, DropRows, RollBackDrop, CycleStep, StartCycle, ClaimBatch, Sync,
         CommitBatch, PurgeVectors, RemoveRows, Deadline, CrashCycle
<1> QED BY <1>1, <1>2, <1>3

LEMMA HeldStep ==
  ASSUME Typed, Held, Next
  PROVE  Held'
<1>1. \A r \in Rows : Ages(r)
  BY Aging
<1>2. ASSUME NEW e \in Cycles, NEW r \in cycle'[e].batch
      PROVE  lock'[r] = e /\ row'[r].life # "none"
  <2>1. CASE cycle' = cycle /\ lock' = lock
    BY <1>1, <1>2, <2>1 DEF Held, Ages, Typed, CycleType
  <2>2. ASSUME NEW c \in Cycles, Takes(c) PROVE lock'[r] = e /\ row'[r].life # "none"
    <3>1. PICK B \in SUBSET Rows :
            /\ \A x \in B : x \in Due(cycle[c].stage) /\ lock[x] = None
            /\ cycle' = [cycle EXCEPT ![c].pc = IF cycle[c].stage = "sweep" THEN "purge" ELSE "sync",
                                      ![c].batch = B]
            /\ lock' = [x \in Rows |-> IF x \in B THEN c ELSE lock[x]]
      BY <2>2 DEF Takes
    <3>2. CASE e = c
      <4>1. r \in B
        BY <3>1, <3>2 DEF Typed, CycleType
      <4>2. row[r].life # "none"
        BY <3>1, <4>1 DEF Due, Eligible, Typed, CycleType
      <4> QED BY <1>1, <3>1, <3>2, <4>1, <4>2 DEF Ages
    <3>3. CASE e # c
      <4>1. r \in cycle[e].batch /\ r \in Rows
        BY <3>1, <3>3 DEF Typed, CycleType
      <4>2. lock[r] = e /\ lock[r] # None
        BY <4>1, VectorAssumption DEF Held
      <4> QED BY <1>1, <3>1, <4>1, <4>2 DEF Held, Ages
    <3> QED BY <3>2, <3>3
  <2>3. ASSUME NEW c \in Cycles, Keeps(c) PROVE lock'[r] = e /\ row'[r].life # "none"
    BY <1>1, <1>2, <2>3 DEF Keeps, Held, Ages, Typed, CycleType
  <2>4. ASSUME NEW c \in Cycles, Leaves(c) PROVE lock'[r] = e /\ row'[r].life # "none"
    <3>1. e # c /\ r \in cycle[e].batch
      BY <2>4 DEF Leaves, Idles
    <3>2. r \in Rows /\ lock[r] = e
      BY <3>1 DEF Held, Typed, CycleType
    <3> QED BY <1>1, <2>4, <3>1, <3>2 DEF Leaves, Release, Held, Ages
  <2> QED BY <2>1, <2>2, <2>3, <2>4, BatchesRest, BatchSteps
<1>3. ASSUME NEW r \in Rows, row'[r].life = "none" PROVE row'[r].state = "pending"
  BY <1>1, <1>3 DEF Ages, Held
<1>4. ASSUME NEW d \in Documents, writer'[d] # "idle" PROVE row'[d].life # "none"
  BY <1>1, <1>4, WritersRest DEF Held, Ages, Rows
<1> QED BY <1>2, <1>3, <1>4 DEF Held

\* A row of a batch stays until its own cycle gives up the batch.
LEMMA BatchStays ==
  ASSUME Typed, Held, Next, NEW e \in Cycles, NEW r \in cycle'[e].batch, r \in Rows,
         row[r].life = "deleted"
  PROVE  row'[r].life = "deleted"
<1>1. Ages(r)
  BY Aging
<1>2. ~ DropRows
  <2>1. ASSUME DropRows PROVE FALSE
    <3>1. lock[r] = e /\ lock[r] = None
      BY <2>1 DEF DropRows, Unlocked, Held
    <3> QED BY <3>1, VectorAssumption
  <2> QED BY <2>1
<1>3. ASSUME NEW c \in Cycles, RemoveRows(c), r \in cycle[c].batch PROVE FALSE
  <2>1. Idles(c)
    BY <1>3, Idling DEF RemoveRows
  <2>2. e # c /\ r \in cycle[e].batch
    BY <2>1 DEF Idles
  <2> QED BY <1>3, <2>2 DEF Held
<1> QED BY <1>1, <1>2, <1>3 DEF Ages

LEMMA SweepingStep ==
  ASSUME Typed, Held, Sweeping, Next
  PROVE  Sweeping'
<1> SUFFICES ASSUME NEW e \in Cycles, cycle'[e].pc \in {"purge", "remove"},
                    NEW r \in cycle'[e].batch
             PROVE  r \in Documents /\ row'[r].life = "deleted"
  BY DEF Sweeping
<1>1. r \in Documents /\ row[r].life = "deleted"
  <2>1. CASE cycle' = cycle
    BY <2>1 DEF Sweeping
  <2>2. ASSUME NEW c \in Cycles, Takes(c) PROVE r \in Documents /\ row[r].life = "deleted"
    <3>1. PICK B \in SUBSET Rows :
            /\ \A x \in B : x \in Due(cycle[c].stage) /\ lock[x] = None
            /\ cycle' = [cycle EXCEPT ![c].pc = IF cycle[c].stage = "sweep" THEN "purge" ELSE "sync",
                                      ![c].batch = B]
      BY <2>2 DEF Takes
    <3>2. CASE e = c
      <4>1. r \in B /\ cycle[c].stage = "sweep"
        BY <3>1, <3>2 DEF Typed, CycleType
      <4> QED BY <3>1, <4>1 DEF Due
    <3>3. CASE e # c
      BY <3>1, <3>3 DEF Sweeping, Typed, CycleType
    <3> QED BY <3>2, <3>3
  <2>3. ASSUME NEW c \in Cycles, Keeps(c) PROVE r \in Documents /\ row[r].life = "deleted"
    BY <2>3 DEF Keeps, Sweeping
  <2>4. ASSUME NEW c \in Cycles, Leaves(c) PROVE r \in Documents /\ row[r].life = "deleted"
    BY <2>4 DEF Leaves, Idles, Sweeping
  <2> QED BY <2>1, <2>2, <2>3, <2>4, BatchesRest, BatchSteps
<1> QED BY <1>1, BatchStays DEF Rows

-----------------------------------------------------------------------------
(* Leases. *)

LEMMA LeaseSteps ==
  ASSUME Typed, Next, NEW t \in Tasks, NEW r \in lease'[t]
  PROVE  \/ r \in lease[t] /\ ~ BackoffEnds(r)
         \/ /\ ClaimAndLease(t) /\ row'[r].cool
            /\ Eligible(r) /\ lock[r] = None
<1>0. r \in lease[t] => r \in Rows
  BY DEF Typed, Rows
<1>1. ASSUME NEW u \in Tasks, ClaimAndLease(u), r \notin lease[t]
      PROVE  /\ ClaimAndLease(t) /\ row'[r].cool
             /\ Eligible(r) /\ lock[r] = None
  <2> DEFINE S == {x \in task[u].rows : Eligible(x) /\ lock[x] = None}
  <2>1. /\ row' = [x \in Rows |-> IF x \in S THEN Stamped(row[x]) ELSE row[x]]
        /\ Over(u) \/ lease' = [lease EXCEPT ![u] = S]
    BY <1>1 DEF ClaimAndLease
  <2> HIDE DEF S
  <2>2. u = t /\ r \in S
    BY <1>1, <2>1 DEF Over, Typed
  <2>3. r \in Rows /\ Eligible(r) /\ lock[r] = None
    BY <2>2 DEF S, Typed, TaskType, Rows
  <2>4. Stamped(row[r]).cool
    BY <2>3 DEF Stamped, Typed, RowType
  <2> QED BY <1>1, <2>1, <2>2, <2>3, <2>4
<1>2. ASSUME NEW u \in Tasks,
             EmbedChunks(u) \/ PersistPgvector(u) \/ UpsertExternal(u) \/ MarkSynced(u)
      PROVE  r \in lease[t]
  BY <1>2 DEF EmbedChunks, PersistPgvector, UpsertExternal, MarkSynced, Over, Typed
<1>3. ASSUME NEW s \in Rows, BackoffEnds(s) PROVE r \in lease[t] /\ r # s
  BY <1>3 DEF BackoffEnds, Typed
<1>4. CASE CrashApi
  BY <1>4 DEF CrashApi
<1>5. \/ \E u \in Tasks : ClaimAndLease(u) \/ EmbedChunks(u) \/ PersistPgvector(u)
                          \/ UpsertExternal(u) \/ MarkSynced(u)
      \/ \E s \in Rows : BackoffEnds(s)
      \/ CrashApi
      \/ lease' = lease
  BY ZenonT(60) DEF Next, TaskStep, CreateMessages, taskVars, StoreDocument, WriterStep, UpsertDocument,
         MarkDocument, CrashWriter, DeleteDocument,
         DropVectors, DropRows, RollBackDrop, CycleStep, StartCycle, ClaimBatch, Sync,
         CommitBatch, PurgeVectors, RemoveRows, Deadline, CrashCycle
<1>6. BackoffEnds(r) => r \notin lease'[t]
  BY DEF BackoffEnds, Typed
<1> QED BY <1>0, <1>1, <1>2, <1>3, <1>4, <1>5, <1>6

LEMMA LeaseStep ==
  ASSUME Typed, Held, Cooling, LeaseExcludes, Next
  PROVE  Cooling' /\ LeaseExcludes'
<1>1. ASSUME NEW t \in Tasks, NEW r \in lease'[t]
      PROVE  row'[r].life # "none" /\ (row'[r].cool \/ row'[r].life = "gone")
  <2>1. r \in Rows /\ Ages(r)
    <3>1. r \in Messages
      BY <1>1, TypedStep DEF Typed
    <3> QED BY <3>1, Aging DEF Rows
  <2>2. CASE r \in lease[t] /\ ~ BackoffEnds(r)
    BY <2>1, <2>2 DEF Cooling, Ages
  <2>3. CASE row'[r].cool /\ Eligible(r)
    BY <2>1, <2>3 DEF Eligible, Ages
  <2> QED BY <1>1, <2>2, <2>3, LeaseSteps
<1>2. ASSUME NEW t \in Tasks, NEW e \in Cycles, NEW r \in lease'[t] \cap cycle'[e].batch
      PROVE  FALSE
  <2>1. r \in Messages /\ r \in Rows
    BY <1>2, TypedStep DEF Typed, Rows
  <2>2. CASE ClaimAndLease(t) /\ lock[r] = None
    <3>1. r \in cycle[e].batch
      BY <1>2, <2>2 DEF ClaimAndLease
    <3> QED BY <2>2, <3>1, VectorAssumption DEF Held
  <2>3. CASE r \in lease[t]
    <3>1. r \notin cycle[e].batch
      BY <2>3 DEF LeaseExcludes
    <3>2. PICK c \in Cycles : Takes(c)
      BY <1>2, <3>1, BatchesRest, BatchSteps DEF Keeps, Leaves, Idles
    <3>3. r \in Due(cycle[c].stage)
      BY <1>2, <3>1, <3>2 DEF Takes, Typed, CycleType
    <3>4. Eligible(r) \/ r \in Documents
      BY <3>3 DEF Due, Typed, CycleType
    <3> QED BY <2>1, <2>3, <3>4, VectorAssumption DEF Cooling, Eligible
  <2> QED BY <1>2, <2>2, <2>3, LeaseSteps
<1> QED BY <1>1, <1>2 DEF Cooling, LeaseExcludes

-----------------------------------------------------------------------------
(* The stores. *)

\* What only a few steps change.
LEMMA Rests ==
  ASSUME Next
  PROVE  /\ mode' = mode
         /\ \/ ext' = ext
            \/ \E t \in Tasks : UpsertExternal(t)
            \/ \E d \in Documents : UpsertDocument(d)
            \/ \E c \in Cycles : Sync(c) \/ PurgeVectors(c)
            \/ DropVectors
         /\ drop' = drop \/ DropVectors \/ DropRows \/ RollBackDrop
         /\ \/ task' = task
            \/ \E t \in Tasks : CreateMessages(t) \/ TaskStep(t)
            \/ CrashApi
BY ZenonT(60) DEF Next, TaskStep, WriterStep, CreateMessages, ClaimAndLease, EmbedChunks, PersistPgvector,
       UpsertExternal, MarkSynced, CrashApi, StoreDocument, UpsertDocument, MarkDocument,
       CrashWriter, DeleteDocument, BackoffEnds, DropVectors, DropRows, RollBackDrop,
       CycleStep, StartCycle, ClaimBatch, Sync, CommitBatch, PurgeVectors, RemoveRows,
       Deadline, CrashCycle, taskVars

LEMMA DropStarts == ASSUME Next, drop' = "no" PROVE drop = "no"
BY Rests DEF DropVectors, DropRows, RollBackDrop

\* A vector leaves the external store only when its document is swept, until
\* the session is deleted.
LEMMA Retained ==
  ASSUME Typed, Sweeping, Next, drop' = "no", NEW x \in ext, x \notin ext'
  PROVE  x \in Documents /\ row[x].life = "deleted" /\ row' = row
<1>1. ~ DropVectors
  BY DEF DropVectors
<1>2. PICK c \in Cycles : PurgeVectors(c) /\ x \in cycle[c].batch
  BY <1>1, Rests DEF UpsertExternal, UpsertDocument, Sync, Upserted, PurgeVectors
<1> QED BY <1>2 DEF PurgeVectors, At, Sweeping

LEMMA VouchedStep ==
  ASSUME Typed, Held, Sweeping, Vouched, Next, drop' = "no"
  PROVE  Vouched'
<1>0. \A r \in Rows : Ages(r)
  BY Aging
<1>1. ASSUME NEW d \in Documents, row'[d].life = "live"
      PROVE  (InPostgres' => row'[d].pg) /\ (writer'[d] = "upserted" => d \in ext')
  <2>0. d \in Rows /\ d \notin Messages /\ row[d] \in RowType
    BY VectorAssumption DEF Rows, Typed
  <2>1. CASE StoreDocument(d)
    BY <2>0, <2>1 DEF StoreDocument, Typed, RowType, InPostgres
  <2>2. CASE ~ StoreDocument(d)
    <3>1. row[d].life = "live"
      BY <1>0, <1>1, <2>0, <2>2 DEF Ages
    <3>2. InPostgres' => row'[d].pg
      BY <1>0, <1>1, <2>0, <2>2, <3>1, Rests DEF Ages, InPostgres, Vouched
    <3>3. ASSUME writer'[d] = "upserted" PROVE d \in ext'
      <4>1. CASE writer[d] = "upserted"
        BY <1>1, <3>1, <4>1, Retained DEF Vouched
      <4>2. CASE UpsertDocument(d) /\ writer[d] # "upserted"
        BY <3>3, <4>2 DEF UpsertDocument, Upserted, Typed
      <4>3. ASSUME NEW e \in Documents,
                   \/ StoreDocument(e) \/ (e # d /\ UpsertDocument(e))
                   \/ MarkDocument(e) \/ CrashWriter(e)
            PROVE  writer[d] = "upserted"
        BY <3>3, <4>3 DEF StoreDocument, UpsertDocument, MarkDocument, CrashWriter, Typed
      <4>4. \/ \E e \in Documents : StoreDocument(e) \/ UpsertDocument(e)
                                    \/ MarkDocument(e) \/ CrashWriter(e)
            \/ writer' = writer
        BY ZenonT(60) DEF Next, TaskStep, CreateMessages, ClaimAndLease, EmbedChunks, PersistPgvector,
               UpsertExternal, MarkSynced, CrashApi, DeleteDocument, BackoffEnds, WriterStep,
               DropVectors, DropRows, RollBackDrop, CycleStep, StartCycle, ClaimBatch, Sync,
               CommitBatch, PurgeVectors, RemoveRows, Deadline, CrashCycle
      <4> QED BY <3>3, <4>1, <4>2, <4>3, <4>4
    <3> QED BY <3>2, <3>3
  <2> QED BY <2>1, <2>2
<1>2. ASSUME NEW t \in Tasks, task'[t].pc = "upserted" PROVE task'[t].rows \subseteq ext'
  <2>1. CASE UpsertExternal(t) /\ task[t].pc # "upserted"
    BY <1>2, <2>1 DEF UpsertExternal, Upserted, Over, Typed, TaskType
  <2>2. CASE task[t].pc = "upserted" /\ task'[t] = task[t]
    <3>1. \A r \in task[t].rows : r \in Messages /\ r \in ext
      BY <2>2 DEF Vouched, Typed, TaskType
    <3> QED BY <2>2, <3>1, Retained, VectorAssumption
  <2>3. ASSUME NEW u \in Tasks, CreateMessages(u) \/ TaskStep(u), ~ (u = t /\ UpsertExternal(t))
        PROVE  task[t].pc = "upserted" /\ task'[t] = task[t]
    BY <1>2, <2>3 DEF TaskStep, CreateMessages, ClaimAndLease, EmbedChunks, PersistPgvector,
                      UpsertExternal, MarkSynced, Over, Typed, TaskType
  <2>4. CASE CrashApi
    BY <1>2, <2>4 DEF CrashApi
  <2> QED BY <1>2, <2>1, <2>2, <2>3, <2>4, Rests DEF UpsertExternal
<1>3. ASSUME NEW e \in Cycles, cycle'[e].pc = "commit", NEW r \in cycle'[e].done
      PROVE  /\ r \in cycle'[e].batch
             /\ row'[r].life = "live" =>
                  /\ row'[r].pg \/ r \in cycle'[e].fresh
                  /\ InExternal' => r \in ext'
  <2>1. CASE Sync(e)
    <3>1. PICK got \in SUBSET {x \in cycle[e].batch : ~ row[x].pg}, ok \in BOOLEAN :
            /\ InExternal \/ ok
            /\ cycle' = [cycle EXCEPT ![e].pc = "commit", ![e].fresh = got, ![e].done = Acked(e, got, ok)]
            /\ IF InExternal /\ ok
                 THEN Upserted({x \in cycle[e].batch : row[x].pg \/ x \in got})
                 ELSE UNCHANGED <<ext, late>>
      BY <2>1 DEF Sync
    <3>2. /\ cycle'[e].batch = cycle[e].batch /\ cycle'[e].fresh = got
          /\ cycle'[e].done = Acked(e, got, ok)
      BY <3>1 DEF Typed, CycleType
    <3>3. ok /\ r \in cycle[e].batch /\ (row[r].pg \/ r \in got)
      BY <1>3, <3>2 DEF Acked
    <3>4. InExternal => r \in ext'
      BY <3>1, <3>3 DEF Upserted
    <3> QED BY <2>1, <3>2, <3>3, <3>4, Rests DEF Sync, InExternal
  <2>2. CASE cycle'[e] = cycle[e]
    <3>1. r \in Rows /\ r \in cycle[e].batch /\ row[r].life # "none"
      BY <1>3, <2>2 DEF Vouched, Held, Typed, CycleType
    <3>2. ASSUME row'[r].life = "live"
          PROVE  (row'[r].pg \/ r \in cycle[e].fresh) /\ (InExternal' => r \in ext')
      <4>1. row[r].life = "live"
        BY <1>0, <3>1, <3>2 DEF Ages
      <4>2. (row[r].pg \/ r \in cycle[e].fresh) /\ (InExternal => r \in ext)
        BY <1>3, <2>2, <4>1 DEF Vouched
      <4>3. row[r].pg => row'[r].pg
        BY <1>0, <3>1, <3>2, <4>1 DEF Ages, StoreDocument
      <4>4. r \in ext => r \in ext'
        BY <4>1, Retained
      <4> QED BY <4>2, <4>3, <4>4, Rests DEF InExternal
    <3> QED BY <2>2, <3>1, <3>2
  <2>3. ASSUME NEW c \in Cycles, CycleStep(c) \/ Deadline(c) \/ CrashCycle(c)
        PROVE  Sync(e) \/ cycle'[e] = cycle[e]
    <3>1. CASE Leaves(c)
      BY <1>3, <3>1 DEF Leaves, Idles
    <3>2. CASE Takes(c)
      BY <1>3, <3>2 DEF Takes, Typed, CycleType
    <3>3. CASE Keeps(c)
      BY <1>3, <3>3 DEF Keeps
    <3> QED BY <2>3, <3>1, <3>2, <3>3, BatchSteps
  <2> QED BY <2>1, <2>2, <2>3, BatchesRest
<1> QED BY <1>1, <1>2, <1>3 DEF Vouched

\* Where a mark comes from.
LEMMA Marked ==
  ASSUME Typed, Held, Next, NEW r \in Rows, row'[r].life = "live", row'[r].state = "synced"
  PROVE  \/ row[r].life = "live" /\ row[r].state = "synced" /\ ~ StoreDocument(r)
         \/ /\ row[r].life = "live" /\ (InPostgres => row'[r].pg)
            /\ \E t \in Tasks : PersistPgvector(t) \/ (MarkSynced(t) /\ r \in task[t].rows)
         \/ /\ r \in Documents /\ row[r].life = "live" /\ row'[r].pg = row[r].pg
            /\ MarkDocument(r) /\ Acknowledged(r)
         \/ \E c \in Cycles :
              /\ CommitBatch(c) /\ row[r].life = "live" /\ r \in cycle[c].done
              /\ (InPostgres /\ (row[r].pg \/ r \in cycle[c].fresh)) => row'[r].pg
<1>0. row[r] \in RowType /\ Ages(r)
  BY Aging DEF Typed
<1>1. row[r].life = "live" /\ ~ StoreDocument(r)
  <2>1. row[r].life = "none" => row[r].state = "pending"
    BY DEF Held
  <2>2. row[r].life = "live"
    BY <1>0, <2>1 DEF Ages
  <2> QED BY <2>2 DEF StoreDocument
<1>2. ASSUME NEW t \in Tasks, PersistPgvector(t) \/ MarkSynced(t), row[r].state # "synced"
      PROVE  (InPostgres => row'[r].pg) /\ r \in task[t].rows
  <2>1. row' = MarkedByTask(t)
    BY <1>2 DEF PersistPgvector, MarkSynced
  <2>2. r \in task[t].rows /\ row'[r] = [Synced(row[r]) EXCEPT !.pg = @ \/ InPostgres]
    BY <1>2, <2>1 DEF MarkedByTask
  <2>3. row'[r].pg = (Synced(row[r]).pg \/ InPostgres)
    BY <1>0, <2>2 DEF Synced, RowType
  <2> QED BY <2>2, <2>3
<1>3. ASSUME NEW d \in Documents, MarkDocument(d), row[r].state # "synced"
      PROVE  r = d /\ row'[r].pg = row[r].pg /\ Acknowledged(r)
  <2>1. r = d /\ row'[r] = AfterUpsert(r)
    BY <1>3 DEF MarkDocument, Typed
  <2>2. AfterUpsert(r).pg = row[r].pg /\ (~ Acknowledged(r) => AfterUpsert(r).state = row[r].state)
    BY <1>0 DEF AfterUpsert, Synced, RowType
  <2> QED BY <1>3, <2>1, <2>2
<1>4. ASSUME NEW c \in Cycles, CommitBatch(c), row[r].state # "synced"
      PROVE  r \in cycle[c].done /\ (InPostgres /\ (row[r].pg \/ r \in cycle[c].fresh) => row'[r].pg)
  <2>1. row'[r] = [Judged(c, r) EXCEPT !.pg = @ \/ (InPostgres /\ r \in cycle[c].fresh)]
    BY <1>4 DEF CommitBatch
  <2>2. Failing(row[r]).state # "synced" /\ Failing(row[r]) \in RowType
    <3>1. Failing(row[r]).state \in {"failed", "pending"}
      BY <1>0 DEF Failing, RowType
    <3> QED BY <1>0, <3>1, RowUpdates
  <2>3. Synced(row[r]).pg = row[r].pg /\ Synced(row[r]) \in RowType
    BY <1>0, RowUpdates, ZenonT(60) DEF Synced, RowType
  <2>4. r \in cycle[c].done
    BY <2>1, <2>2 DEF Judged, RowType
  <2>5. row'[r].pg = (row[r].pg \/ (InPostgres /\ r \in cycle[c].fresh))
    BY <2>1, <2>3, <2>4 DEF Judged, RowType
  <2> QED BY <2>4, <2>5
<1>5. ASSUME NEW t \in Tasks, CreateMessages(t) \/ ClaimAndLease(t)
      PROVE  row[r].state = "synced"
  <2>1. \/ row'[r] = row[r]
        \/ row'[r] = [row[r] EXCEPT !.life = "live"]
        \/ row'[r] = Stamped(row[r])
    BY <1>5 DEF CreateMessages, ClaimAndLease
  <2> QED BY <1>0, <2>1 DEF Stamped, RowType
<1>6. ASSUME NEW d \in Documents, StoreDocument(d) \/ DeleteDocument(d)
      PROVE  row[r].state = "synced"
  <2>1. r # d => row'[r] = row[r]
    BY <1>6 DEF StoreDocument, DeleteDocument, Typed
  <2>2. DeleteDocument(r) => row'[r].life = "deleted"
    BY <1>0 DEF DeleteDocument, Typed, RowType
  <2> QED BY <1>1, <1>6, <2>1, <2>2
<1>7. ASSUME NEW c \in Cycles, RemoveRows(c) PROVE row[r].state = "synced"
  BY <1>7 DEF RemoveRows, Removed, Blank
<1>8. ASSUME NEW s \in Rows, BackoffEnds(s) PROVE row[r].state = "synced"
  <2>1. row'[r] = row[r] \/ row'[r] = [row[r] EXCEPT !.cool = FALSE]
    BY <1>8 DEF BackoffEnds, Typed
  <2> QED BY <1>0, <2>1 DEF RowType
<1>9. CASE DropRows
  BY <1>9 DEF DropRows, Removed, Blank
<1>10. \/ row' = row
       \/ \E t \in Tasks : CreateMessages(t) \/ ClaimAndLease(t) \/ PersistPgvector(t) \/ MarkSynced(t)
       \/ \E d \in Documents : StoreDocument(d) \/ DeleteDocument(d) \/ MarkDocument(d)
       \/ \E c \in Cycles : CommitBatch(c) \/ RemoveRows(c)
       \/ \E s \in Rows : BackoffEnds(s)
       \/ DropRows
  BY DEF Next, TaskStep, WriterStep, EmbedChunks, UpsertExternal, CrashApi, UpsertDocument,
         CrashWriter, DropVectors, RollBackDrop, CycleStep, StartCycle, ClaimBatch, Sync,
         PurgeVectors, Deadline, CrashCycle
<1> QED BY <1>1, <1>2, <1>3, <1>4, <1>5, <1>6, <1>7, <1>8, <1>9, <1>10

LEMMA StoredStep ==
  ASSUME Typed, Held, Sweeping, Vouched, AllSyncedStored, Next, drop' = "no"
  PROVE  AllSyncedStored'
<1> SUFFICES ASSUME NEW r \in Rows, row'[r].life = "live", row'[r].state = "synced"
             PROVE  (InPostgres => row'[r].pg) /\ (InExternal => r \in ext')
  BY Rests DEF AllSyncedStored, Stored, InPostgres, InExternal
<1>1. Ages(r)
  BY Aging
<1>2. row[r].life = "live" /\ r \in ext => r \in ext'
  BY Retained
<1>3. CASE row[r].life = "live" /\ row[r].state = "synced" /\ ~ StoreDocument(r)
  BY <1>1, <1>2, <1>3 DEF AllSyncedStored, Stored, Ages
<1>4. CASE /\ row[r].life = "live" /\ (InPostgres => row'[r].pg)
           /\ \E t \in Tasks : PersistPgvector(t) \/ (MarkSynced(t) /\ r \in task[t].rows)
  <2>1. PICK t \in Tasks : PersistPgvector(t) \/ (MarkSynced(t) /\ r \in task[t].rows)
    BY <1>4
  <2>2. CASE PersistPgvector(t)
    BY <1>4, <2>2 DEF PersistPgvector
  <2>3. CASE MarkSynced(t) /\ r \in task[t].rows
    BY <1>2, <1>4, <2>3 DEF MarkSynced, Vouched
  <2> QED BY <2>1, <2>2, <2>3
<1>5. CASE r \in Documents /\ row[r].life = "live" /\ row'[r].pg = row[r].pg /\ Acknowledged(r)
  BY <1>2, <1>5 DEF Vouched, Acknowledged
<1>6. ASSUME NEW c \in Cycles, CommitBatch(c), row[r].life = "live", r \in cycle[c].done,
             InPostgres /\ (row[r].pg \/ r \in cycle[c].fresh) => row'[r].pg
      PROVE  (InPostgres => row'[r].pg) /\ (InExternal => r \in ext')
  BY <1>2, <1>6 DEF CommitBatch, At, Vouched
<1>7. row[r].life = "live"
  BY Marked
<1> QED BY <1>3, <1>4, <1>5, <1>6, <1>7, Marked

-----------------------------------------------------------------------------
(* Sweeping. *)

\* A vector that comes while its document is being removed, or after that, is
\* known to be late, and a late vector stays known.
LEMMA LateStep ==
  ASSUME Typed, Next, NEW x
  PROVE  /\ x \in late => x \in late'
         /\ x \in ext' /\ x \notin ext => row' = row /\ drop' = drop
         /\ x \in ext' /\ x \notin ext /\ x \in Documents /\ Doomed(x) => x \in late'
<1>1. ASSUME NEW S, Upserted(S), row' = row, drop' = drop
      PROVE  /\ x \in late => x \in late'
             /\ x \in ext' /\ x \notin ext => row' = row /\ drop' = drop
             /\ x \in ext' /\ x \notin ext /\ x \in Documents /\ Doomed(x) => x \in late'
  BY <1>1 DEF Upserted
<1>2. ASSUME NEW t \in Tasks, UpsertExternal(t)
      PROVE  (late' = late /\ ext' = ext) \/ \E S : (Upserted(S) /\ row' = row /\ drop' = drop)
  BY <1>2 DEF UpsertExternal
<1>3. ASSUME NEW d \in Documents, UpsertDocument(d)
      PROVE  (late' = late /\ ext' = ext) \/ \E S : Upserted(S) /\ row' = row /\ drop' = drop
  BY <1>3 DEF UpsertDocument
<1>4. ASSUME NEW c \in Cycles, Sync(c)
      PROVE  (late' = late /\ ext' = ext) \/ \E S : Upserted(S) /\ row' = row /\ drop' = drop
  BY <1>4 DEF Sync
<1>5. ASSUME NEW c \in Cycles, PurgeVectors(c) PROVE late' = late /\ ext' \subseteq ext
  BY <1>5 DEF PurgeVectors
<1>6. DropVectors => late \subseteq late' /\ ext' \subseteq ext
  BY DEF DropVectors
<1>7. \/ \E t \in Tasks : UpsertExternal(t)
      \/ \E d \in Documents : UpsertDocument(d)
      \/ \E c \in Cycles : Sync(c) \/ PurgeVectors(c)
      \/ DropVectors
      \/ late' = late /\ ext' = ext
  BY DEF Next, TaskStep, WriterStep, CreateMessages, ClaimAndLease, EmbedChunks, PersistPgvector,
         MarkSynced, CrashApi, StoreDocument, MarkDocument,
         CrashWriter, DeleteDocument, BackoffEnds, DropRows, RollBackDrop,
         CycleStep, StartCycle, ClaimBatch, CommitBatch, RemoveRows, Deadline, CrashCycle
<1> QED BY <1>1, <1>2, <1>3, <1>4, <1>5, <1>6, <1>7

LEMMA CleanStep ==
  ASSUME Typed, Held, Sweeping, Clean, Next
  PROVE  Clean'
<1>1. ASSUME NEW d \in Documents, row'[d].life = "gone", d \in ext' PROVE d \in late'
  <2>0. d \in Rows /\ Ages(d)
    BY Aging DEF Rows
  <2>1. CASE d \notin ext
    BY <1>1, <2>1, LateStep DEF Doomed
  <2>2. CASE d \in ext /\ row[d].life = "gone"
    BY <2>2, LateStep DEF Clean, SweptIsClean
  <2>3. CASE d \in ext /\ DropRows
    BY <2>3, LateStep DEF Clean, DropRows
  <2>4. ASSUME NEW c \in Cycles, RemoveRows(c), d \in cycle[c].batch, d \in ext PROVE d \in late'
    BY <2>4, LateStep DEF Clean, RemoveRows, At
  <2> QED BY <1>1, <2>0, <2>1, <2>2, <2>3, <2>4 DEF Ages
<1>2. ASSUME NEW e \in Cycles, cycle'[e].pc = "remove", NEW r \in cycle'[e].batch, r \in ext'
      PROVE  r \in late'
  <2>1. \/ cycle[e].pc = "remove" /\ r \in cycle[e].batch
        \/ PurgeVectors(e) /\ r \in cycle[e].batch /\ ext' = ext \ cycle[e].batch
    <3>1. CASE cycle'[e] = cycle[e]
      BY <1>2, <3>1
    <3>2. CASE Takes(e)
      <4>1. PICK B \in SUBSET Rows :
              cycle' = [cycle EXCEPT ![e].pc = IF cycle[e].stage = "sweep" THEN "purge" ELSE "sync",
                                     ![e].batch = B]
        BY <3>2 DEF Takes
      <4>2. cycle'[e].pc \in {"purge", "sync"}
        BY <4>1 DEF Typed, CycleType
      <4> QED BY <1>2, <4>2
    <3>3. CASE PurgeVectors(e)
      <4>1. PICK ok \in BOOLEAN :
              /\ ext' = IF ok THEN ext \ cycle[e].batch ELSE ext
              /\ IF ok
                   THEN cycle' = [cycle EXCEPT ![e].pc = "remove"]
                   ELSE Advance(e)
        BY <3>3 DEF PurgeVectors, Purged
      <4>2. ok
        BY <1>2, <4>1, Idling DEF Idles
      <4> QED BY <1>2, <3>3, <4>1, <4>2 DEF Typed, CycleType
    <3>4. ASSUME NEW c \in Cycles, CycleStep(c) \/ Deadline(c) \/ CrashCycle(c)
          PROVE  cycle'[e] = cycle[e] \/ Takes(e) \/ PurgeVectors(e)
      <4>1. CASE Takes(c)
        <5>1. c # e => cycle'[e] = cycle[e]
          BY <4>1 DEF Takes, Typed
        <5> QED BY <4>1, <5>1
      <4>2. CASE Keeps(c)
        BY <1>2, <4>2 DEF Keeps
      <4>3. CASE Leaves(c)
        BY <1>2, <4>3 DEF Leaves, Idles
      <4> QED BY <3>4, <4>1, <4>2, <4>3, BatchSteps
    <3> QED BY <3>1, <3>2, <3>3, <3>4, BatchesRest
  <2>2. CASE cycle[e].pc = "remove" /\ r \in cycle[e].batch
    <3>1. r \in Documents /\ row[r].life = "deleted" /\ lock[r] # None
      BY <2>2, VectorAssumption DEF Sweeping, Held
    <3> QED BY <1>2, <2>2, <3>1, LateStep DEF Clean, Doomed
  <2> QED BY <1>2, <2>1, <2>2
<1>3. ASSUME drop' = "vectors", NEW d \in Documents, d \in ext' PROVE d \in late'
  <2>1. CASE DropVectors
    BY <1>3, <2>1 DEF DropVectors
  <2>2. CASE drop = "vectors"
    BY <1>3, <2>2, LateStep DEF Clean, Doomed, Dropping
  <2> QED BY <1>3, <2>1, <2>2, Rests DEF DropRows, RollBackDrop
<1> QED BY <1>1, <1>2, <1>3 DEF Clean, SweptIsClean

-----------------------------------------------------------------------------
(* The theorems. *)

LEMMA IInvInit == Init => IInv
<1> SUFFICES ASSUME Init PROVE IInv
  OBVIOUS
<1>1. Typed
  BY DEF Init, Typed, RowType, TaskType, CycleType, Blank, Off
<1>2. Held /\ Sweeping /\ Cooling /\ LeaseExcludes
  BY DEF Init, Held, Sweeping, Cooling, LeaseExcludes, Blank, Off, Rows
<1>3. Vouched /\ AllSyncedStored
  BY DEF Init, Vouched, AllSyncedStored, Blank, Off, Rows
<1>4. Clean
  BY DEF Init, Clean, SweptIsClean, Off
<1> QED BY <1>1, <1>2, <1>3, <1>4 DEF IInv

LEMMA IInvStep == IInv /\ [Next]_vars => IInv'
<1> SUFFICES ASSUME IInv, [Next]_vars PROVE IInv'
  OBVIOUS
<1>1. CASE Next
  BY <1>1, TypedStep, HeldStep, SweepingStep, LeaseStep, VouchedStep, StoredStep, CleanStep,
     DropStarts DEF IInv
<1>2. CASE UNCHANGED vars
  BY <1>2
  DEF vars, taskVars, IInv, Typed, Held, Sweeping, Cooling, LeaseExcludes, Vouched,
      AllSyncedStored, Stored, InPostgres, InExternal, Clean, SweptIsClean
<1> QED BY <1>1, <1>2

LEMMA IInvHolds == Spec => []IInv
<1>1. Init => IInv
  BY IInvInit
<1>2. IInv /\ [Next]_vars => IInv'
  BY IInvStep
<1> QED BY <1>1, <1>2, PTL DEF Spec

\* For any number of rows, requests and derivers, in every configuration of the
\* store, and whatever fails: a row that is marked synced has its vectors, until
\* its session is deleted (embed_now.py, sync_vectors.py, create_documents).
THEOREM SyncedIsStoredHolds == Spec => []SyncedIsStored
<1>1. IInv => SyncedIsStored
  BY DEF IInv, SyncedIsStored
<1> QED BY <1>1, IInvHolds, PTL

\* No cycle embeds what a background task holds a lease on, although the task
\* has released the lock on its rows (_claim_and_lease).
THEOREM LeaseExcludesHolds == Spec => []LeaseExcludes
<1>1. IInv => LeaseExcludes
  BY DEF IInv
<1> QED BY <1>1, IInvHolds, PTL

\* The sweep leaves no vector behind but those that came too late
\* (cleanup_soft_deleted_documents).
THEOREM SweptIsCleanHolds == Spec => []SweptIsClean
<1>1. IInv => SweptIsClean
  BY DEF IInv, Clean
<1> QED BY <1>1, IInvHolds, PTL

-----------------------------------------------------------------------------
(* The gate. *)

Busy == {t \in Tasks : task[t].pc \notin {"idle", "over"}}

LEMMA BusyFinite == IsFiniteSet(Busy) /\ Cardinality(Busy) \in Nat
<1>1. IsFiniteSet(Tasks) /\ Busy \subseteq Tasks
  BY VectorAssumption DEF Busy
<1> QED BY <1>1, FS_Subset, FS_CardinalityType

LEMMA GateStep ==
  ASSUME Typed, GateCounts, [Next]_vars
  PROVE  GateCounts'
<1> SUFFICES inFlight' = Cardinality(Busy')
  BY DEF GateCounts, Busy
<1>0. inFlight = Cardinality(Busy)
  BY DEF GateCounts, Busy
<1>1. CASE Busy' = Busy /\ inFlight' = inFlight
  BY <1>0, <1>1
<1>2. ASSUME NEW t \in Tasks, CreateMessages(t) PROVE inFlight' = Cardinality(Busy')
  <2>1. CASE inFlight < MaxPending
    <3>1. t \notin Busy /\ Busy' = Busy \cup {t} /\ inFlight' = inFlight + 1
      BY <1>2, <2>1 DEF CreateMessages, Counted, Busy, Typed, TaskType
    <3> QED BY <1>0, <3>1, BusyFinite, FS_AddElement
  <2>2. CASE ~ inFlight < MaxPending
    BY <1>0, <1>2, <2>2, ZenonT(60) DEF CreateMessages, Busy, Typed, TaskType
  <2> QED BY <2>1, <2>2
<1>3. ASSUME NEW t \in Tasks, Over(t), t \in Busy PROVE inFlight' = Cardinality(Busy')
  <2>1. Busy' = Busy \ {t} /\ inFlight' = inFlight - 1
    BY <1>3 DEF Over, Busy, Typed, TaskType
  <2> QED BY <1>0, <1>3, <2>1, BusyFinite, FS_RemoveElement
<1>4. ASSUME NEW t \in Tasks, TaskStep(t)
      PROVE  (Over(t) /\ t \in Busy) \/ (Busy' = Busy /\ inFlight' = inFlight)
  <2>1. CASE ClaimAndLease(t)
    BY <1>4, <2>1 DEF ClaimAndLease, Busy, Typed, TaskType
  <2>2. CASE EmbedChunks(t)
    BY <1>4, <2>2 DEF EmbedChunks, Busy, Typed, TaskType
  <2>3. CASE PersistPgvector(t) \/ MarkSynced(t)
    BY <2>3 DEF PersistPgvector, MarkSynced, Busy
  <2>4. CASE UpsertExternal(t)
    BY <2>4 DEF UpsertExternal, Busy, Typed, TaskType
  <2> QED BY <1>4, <2>1, <2>2, <2>3, <2>4 DEF TaskStep
<1>5. CASE CrashApi
  <2>1. Busy' = {} /\ inFlight' = 0
    BY <1>5 DEF CrashApi, Busy
  <2> QED BY <2>1, FS_EmptySet
<1>6. \/ \E t \in Tasks : CreateMessages(t) \/ TaskStep(t)
      \/ CrashApi
      \/ task' = task /\ inFlight' = inFlight
  BY ZenonT(60) DEF Next, WriterStep, StoreDocument, UpsertDocument, MarkDocument, CrashWriter,
         DeleteDocument, BackoffEnds, DropVectors, DropRows, RollBackDrop, CycleStep, StartCycle,
         ClaimBatch, Sync, CommitBatch, PurgeVectors, RemoveRows, Deadline, CrashCycle,
         taskVars, vars
<1> QED BY <1>1, <1>2, <1>3, <1>4, <1>5, <1>6 DEF Busy

\* However many tasks are scheduled, refused, ended or killed, the gate counts
\* exactly those that wait or run, so that it reopens (EmbedTaskGate).
THEOREM GateCountsHolds == Spec => []GateCounts
<1>1. Init => GateCounts
  <2> SUFFICES ASSUME Init PROVE GateCounts
    OBVIOUS
  <2>1. Busy = {} /\ inFlight = 0
    BY DEF Init, Busy
  <2> QED BY <2>1, FS_EmptySet DEF GateCounts, Busy
<1>2. IInv /\ GateCounts /\ [Next]_vars => GateCounts'
  BY GateStep DEF IInv
<1> QED BY <1>1, <1>2, IInvHolds, PTL DEF Spec
=============================================================================
