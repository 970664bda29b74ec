------------------------ MODULE ScopeMembership_proofs ------------------------
(***************************************************************************)
(* Theorems of ScopeMembership, for any number of messages, requests,      *)
(* workers, changes and mishaps: type correctness, the two promises the    *)
(* lock of the membership row keeps, the one the claims keep, and that a   *)
(* task which is called for stays due. Hence a scope converges unless a    *)
(* task is forgone, and two changes alone cannot bring that about.         *)
(***************************************************************************)
EXTENDS ScopeMembership, FiniteSetTheorems, TLAPS

USE DEF Events, Tasks

RunsOK(r) ==
  /\ r \in [Workers -> Runs]
  /\ \A w \in Workers : /\ r[w].pc = "write" => r[w].todo # {}
                        /\ r[w].pc # "idle" => r[w].task \in Tasks

\* A step of a worker to any point but "write" keeps its locals well typed.
LEMMA StepTyped ==
  ASSUME RunsOK(run), NEW w \in Workers, NEW p \in Points \ {"write"},
         run[w].pc # "idle",
         run' = [run EXCEPT ![w].pc = p]
  PROVE  RunsOK(run')
  <1>1. run' \in [Workers -> Runs]
    BY SMTT(30) DEF RunsOK, Runs
  <1>2. /\ run'[w].pc = p /\ run'[w].task = run[w].task
        /\ \A v \in Workers \ {w} : run'[v] = run[v]
    BY SMTT(30) DEF RunsOK, Runs
  <1>3. run'[w].pc # "write" /\ run'[w].task \in Tasks
    BY <1>2 DEF RunsOK
  <1>4. \A v \in Workers : /\ run'[v].pc = "write" => run'[v].todo # {}
                           /\ run'[v].pc # "idle" => run'[v].task \in Tasks
    BY <1>2, <1>3 DEF RunsOK
  <1> QED BY <1>1, <1>4 DEF RunsOK

\* So does setting its locals anew.
LEMMA LocalsKept ==
  ASSUME RunsOK(run), NEW w \in Workers,
         NEW t \in Tasks \cup {None}, NEW r \in RowIds \cup {None},
         NEW p \in Points, NEW docs \in SUBSET Messages,
         NEW f \in [Messages -> CopyIds \cup {None}],
         p = "write" => docs # {}, p # "idle" => t \in Tasks,
         run' = [run EXCEPT ![w] = Locals(t, r, p, docs, f)]
  PROVE  RunsOK(run')
  <1>1. Locals(t, r, p, docs, f) \in Runs
    BY SMTT(30) DEF Locals, Runs
  <1>2. /\ Locals(t, r, p, docs, f).pc = p /\ Locals(t, r, p, docs, f).todo = docs
        /\ Locals(t, r, p, docs, f).task = t
    BY DEF Locals
  <1> QED BY <1>1, <1>2 DEF RunsOK

LEMMA BetweenKept ==
  ASSUME RunsOK(run), NEW w \in Workers, NEW t \in Tasks \cup {None},
         NEW p \in {"idle", "fetch"}, p # "idle" => t \in Tasks,
         run' = [run EXCEPT ![w] = Between(t, p)]
  PROVE  RunsOK(run')
  <1>1. NoPlan \in [Messages -> CopyIds \cup {None}]
    BY DEF NoPlan
  <1> QED BY <1>1, LocalsKept DEF Between, Points

\* What is spent was there, so a budget stays in Nat.
LEMMA SpendTyped ==
  ASSUME left \in [Events -> Nat], NEW e \in Events, Spend(e)
  PROVE  left' \in [Events -> Nat]
  BY DEF Spend

LEMMA InitTyped == Init => TypeOK
  <1> SUFFICES ASSUME Init PROVE TypeOK OBVIOUS
  <1>2. message \in [Messages -> {"none", "sent", "filed", "derived"}]
    BY DEF Init
  <1>3. copies \in [Messages \X CopyIds -> {"none", "live", "deleted"}]
    BY DEF Init
  <1>4. /\ run \in [Workers -> Runs]
        /\ \A w \in Workers : /\ run[w].pc = "write" => run[w].todo # {}
                              /\ run[w].pc # "idle" => run[w].task \in Tasks
    <2>1. NoPlan \in [Messages -> CopyIds \cup {None}]
      BY DEF NoPlan
    <2>2. Resting \in Runs /\ Resting.pc = "idle"
      BY <2>1, SMTT(30) DEF Resting, Between, Locals, Runs, Points
    <2> QED BY <2>2 DEF Init
  <1>5. sources \subseteq Messages /\ left \in [Events -> Nat]
    BY ScopeAssumption DEF Init
  <1>6. claim \in [Tasks -> Workers \cup {None}] /\ rows \in [Tasks -> SUBSET RowIds]
    BY DEF Init
  <1>7. call \in [Callers -> CallPoints] /\ direct \in [Messages -> {"none", "live", "deleted"}]
    BY DEF Init, CallPoints
  <1>8. /\ member \in {"never", "in", "out"}
        /\ observed \subseteq Messages /\ batch \subseteq Messages
        /\ status \in Statuses /\ dream \in {"none", "pending", "running"}
        /\ retracted \in BOOLEAN /\ owed \in BOOLEAN
    BY DEF Init, Statuses
  <1> QED BY <1>2, <1>3, <1>4, <1>5, <1>6, <1>7, <1>8 DEF TypeOK

\* The parts of TypeOK the steps of the workers rest on.
LeftOK == left \in [Events -> Nat]

LEMMA TypeParts == TypeOK => LeftOK /\ RunsOK(run)
  BY DEF TypeOK, LeftOK, RunsOK

LEMMA SpendLeft ==
  ASSUME LeftOK, NEW e \in Events, Spend(e)
  PROVE  LeftOK'
  BY SpendTyped DEF LeftOK

\* Messages on their way.
LEMMA IngestTyped ==
  ASSUME TypeOK, Ingest \/ DropBatch
  PROVE  TypeOK'
  <1> USE DEF TypeOK, RunsOK, docVars, queueVars, sendVars, history
  <1>1. ASSUME NEW m \in Messages, Send(m) PROVE TypeOK'
    BY <1>1 DEF Send
  <1>2. ASSUME NEW m \in Messages, File(m) PROVE TypeOK'
    BY <1>2 DEF File
  <1>3. CASE FetchBatch
    BY <1>3 DEF FetchBatch, Filed
  <1>4. CASE SaveSelf
    BY <1>4 DEF SaveSelf
  <1>5. CASE SaveScope
    <2>1. left' \in [Events -> Nat]
      BY <1>5, SpendTyped DEF SaveScope
    <2>2. direct' \in [Messages -> {"none", "live", "deleted"}]
      BY <1>5 DEF SaveScope
    <2>3. message' \in [Messages -> {"none", "sent", "filed", "derived"}]
      BY <1>5 DEF SaveScope
    <2> QED BY <1>5, <2>1, <2>2, <2>3 DEF SaveScope
  <1>6. CASE DropBatch
    BY <1>6, SpendTyped DEF DropBatch
  <1> QED BY <1>1, <1>2, <1>3, <1>4, <1>5, <1>6 DEF Ingest

\* Requests.
LEMMA CallTyped ==
  ASSUME TypeOK, NEW c \in Callers, Change(c) \/ Request(c) \/ Abandon(c)
  PROVE  TypeOK'
  <1> USE DEF TypeOK, RunsOK, docVars, queueVars, sendVars, history, CallPoints, At
  <1>1. CASE AddSession(c)
    BY <1>1, SpendTyped DEF AddSession
  <1>2. CASE LookForMessages(c)
    BY <1>2 DEF LookForMessages
  <1>3. CASE RemoveSession(c)
    BY <1>3, SpendTyped DEF RemoveSession
  <1>4. CASE RemoveSessions(c)
    <2>1. left' \in [Events -> Nat]
      BY <1>4, SpendTyped DEF RemoveSessions
    <2>2. rows' \in [Tasks -> SUBSET RowIds]
      BY <1>4 DEF RemoveSessions
    <2> QED BY <1>4, <2>1, <2>2 DEF RemoveSessions
  <1>5. CASE CheckTask(c)
    BY <1>5 DEF CheckTask
  <1>6. CASE InsertBackfill(c)
    BY <1>6 DEF InsertBackfill, Statuses
  <1>7. CASE InsertRemoval(c)
    BY <1>7 DEF InsertRemoval
  <1>8. CASE Abandon(c)
    BY <1>8, SpendTyped DEF Abandon
  <1> QED
    BY <1>1, <1>2, <1>3, <1>4, <1>5, <1>6, <1>7, <1>8 DEF Change, Request

\* What a removal leaves behind.
LEMMA RetractTyped ==
  ASSUME TypeOK, NEW w \in Workers, Retract(w), run[w].pc # "idle"
  PROVE  /\ direct' \in [Messages -> {"none", "live", "deleted"}]
         /\ copies' \in [Messages \X CopyIds -> {"none", "live", "deleted"}]
         /\ status' \in Statuses /\ retracted' \in BOOLEAN /\ owed' \in BOOLEAN
         /\ RunsOK(run')
  <1>1. direct' \in [Messages -> {"none", "live", "deleted"}]
    BY DEF Retract, TypeOK
  <1>2. copies' \in [Messages \X CopyIds -> {"none", "live", "deleted"}]
    BY DEF Retract, TypeOK
  <1>3. status' \in Statuses /\ retracted' \in BOOLEAN /\ owed' \in BOOLEAN
    BY DEF Retract, TypeOK, Statuses
  <1>4. PICK p \in {"dream", "mark"} : run' = [run EXCEPT ![w].pc = p]
    BY DEF Retract
  <1>5. RunsOK(run')
    BY <1>4, StepTyped DEF TypeOK, RunsOK, Points
  <1> QED BY <1>1, <1>2, <1>3, <1>5

\* The plan of a backfill is one of its documents and of copies.
LEMMA PlanTyped ==
  ASSUME TypeOK, NEW w \in Workers, PlanBackfill(w)
  PROVE  TypeOK'
  <1>1. PICK f \in Plans :
          run' = [run EXCEPT ![w] = Locals(run[w].task, run[w].row, AfterPlan, Missing, f)]
    BY DEF PlanBackfill, TypeOK
  <1>2. f \in [Messages -> CopyIds \cup {None}]
    BY DEF Plans
  <1>3. Missing \subseteq Messages
    BY DEF Missing, TypeOK
  <1>4. AfterPlan \in Points /\ (AfterPlan = "write" => Missing # {})
    BY DEF AfterPlan, Points
  <1>5. RunsOK(run) /\ run[w].task \in Tasks \cup {None} /\ run[w].row \in RowIds \cup {None}
    BY DEF TypeOK, RunsOK, Runs
  <1>7. run[w].task \in Tasks
    BY DEF PlanBackfill, TypeOK
  <1>6. RunsOK(run')
    BY <1>1, <1>2, <1>3, <1>4, <1>5, <1>7, LocalsKept
  <1> QED
    BY <1>6 DEF PlanBackfill, TypeOK, RunsOK, docVars, queueVars, sendVars, history

LEMMA WriteTyped ==
  ASSUME TypeOK, NEW w \in Workers, WriteChunk(w)
  PROVE  TypeOK'
  <1>0. run[w].pc = "write"
    BY DEF WriteChunk
  <1>1. RunsOK(run)
    BY TypeParts
  <1>5. run \in [Workers -> Runs] /\ run[w].task \in Tasks
    BY <1>0, <1>1 DEF RunsOK
  <1>2. CASE \E p \in {"mark", "broken"} :
               run' = [run EXCEPT ![w].pc = p] /\ UNCHANGED <<copies, owed>>
    <2>1. RunsOK(run')
      BY <1>0, <1>1, <1>2, StepTyped DEF Points
    <2> QED BY <1>2, <2>1 DEF WriteChunk, TypeOK, RunsOK, queueVars, sendVars
  <1>3. ASSUME NEW chunk \in Chunks(run[w].todo), NEW f \in Written(w, chunk),
               copies' = [d \in Messages \X CopyIds |->
                            IF d[1] \in chunk /\ f[d[1]] = d[2] THEN "live"
                            ELSE copies[d]],
               NEW p \in Points,
               p = IF run[w].todo = chunk THEN "dream" ELSE "write",
               run' = [run EXCEPT ![w] = Locals(run[w].task, run[w].row, p,
                                           run[w].todo \ chunk, run[w].restore)],
               owed' = TRUE
        PROVE  TypeOK'
    <2>1. copies' \in [Messages \X CopyIds -> {"none", "live", "deleted"}]
      BY <1>3 DEF TypeOK
    <2>2. chunk \subseteq run[w].todo
      BY DEF Chunks
    <2>3. run[w] \in Runs
      BY <1>5
    <2>4. /\ run[w].task \in Tasks \cup {None} /\ run[w].row \in RowIds \cup {None}
          /\ run[w].todo \subseteq Messages
          /\ run[w].restore \in [Messages -> CopyIds \cup {None}]
      BY <2>3 DEF Runs
    <2>5. p = "write" => run[w].todo # chunk
      BY <1>3
    <2>6. p = "write" => run[w].todo \ chunk # {}
      BY <2>2, <2>5
    <2>7. run[w].todo \ chunk \in SUBSET Messages
      BY <2>4
    <2>8. RunsOK(run')
      <3>1. run' = [run EXCEPT ![w] = Locals(run[w].task, run[w].row, p,
                                             run[w].todo \ chunk, run[w].restore)]
        BY <1>3
      <3> HIDE <1>3
      <3> QED BY <1>1, <1>5, <2>4, <2>6, <2>7, <3>1, LocalsKept, ZenonT(60)
    <2> QED BY <1>3, <2>1, <2>8 DEF WriteChunk, TypeOK, RunsOK, queueVars, sendVars
  <1>4. "dream" \in Points /\ "write" \in Points
    BY DEF Points
  <1> QED BY <1>2, <1>3, <1>4 DEF WriteChunk

\* The other steps of a worker.
LEMMA WorkTyped ==
  ASSUME TypeOK, NEW w \in Workers,
         Work(w) \/ Mishap(w) \/ \E t \in Tasks : ClaimTask(w, t)
  PROVE  TypeOK'
  <1>1. /\ RunsOK(run) /\ run[w].task \in Tasks \cup {None} /\ LeftOK
        /\ run[w].pc # "idle" => run[w].task \in Tasks
    <2>1. RunsOK(run) /\ LeftOK
      BY TypeParts
    <2>2. run[w] \in Runs /\ (run[w].pc # "idle" => run[w].task \in Tasks)
      BY <2>1 DEF RunsOK
    <2> QED BY <2>1, <2>2 DEF Runs
  <1> USE DEF queueVars, docVars, sendVars, history
  <1>2. ASSUME NEW t \in Tasks, ClaimTask(w, t) PROVE TypeOK'
    <2>1. RunsOK(run')
      BY <1>1, <1>2, BetweenKept, ScopeAssumption DEF ClaimTask
    <2> QED BY <1>2, <2>1 DEF ClaimTask, TypeOK, RunsOK
  <1>3. CASE FetchRow(w)
    <2>1. RunsOK(run')
      <3>1. CASE run' = [run EXCEPT ![w].pc = "release"]
        BY <1>1, <1>3, <3>1, StepTyped DEF FetchRow, Points
      <3>2. ASSUME NEW r \in rows[run[w].task], NEW p \in {"plan", "remove"},
                   claim[run[w].task] = w,
                   run' = [run EXCEPT ![w] = Locals(run[w].task, r, p, {}, NoPlan)]
            PROVE  RunsOK(run')
        <4>1. NoPlan \in [Messages -> CopyIds \cup {None}]
          BY DEF NoPlan
        <4>2. run[w].pc # "idle" /\ run[w].task \in Tasks
          BY <1>1, <1>3 DEF FetchRow, RunsOK
        <4>3. r \in RowIds
          BY <4>2 DEF TypeOK
        <4> QED BY <1>1, <3>2, <4>1, <4>2, <4>3, LocalsKept, ScopeAssumption DEF Points
      <3> QED BY <1>3, <3>1, <3>2 DEF FetchRow
    <2> QED BY <1>3, <2>1 DEF FetchRow, TypeOK, RunsOK
  <1>4. CASE CheckRejoined(w)
    <2>1. CASE \E p \in {"mark", "delete"} : run' = [run EXCEPT ![w].pc = p]
                 /\ UNCHANGED <<direct, copies, status, retracted, owed>>
      <3>1. RunsOK(run')
        BY <1>1, <1>4, <2>1, StepTyped DEF CheckRejoined, Points
      <3> QED BY <1>4, <2>1, <3>1 DEF CheckRejoined, TypeOK, RunsOK
    <2>2. CASE Retract(w)
      BY <1>4, <2>2, RetractTyped DEF CheckRejoined, TypeOK, RunsOK
    <2> QED BY <1>4, <2>1, <2>2 DEF CheckRejoined
  <1>5. CASE RetractUnlocked(w)
    BY <1>5, RetractTyped DEF RetractUnlocked, TypeOK, RunsOK
  <1>6. CASE FileDream(w)
    <2>1. RunsOK(run')
      BY <1>1, <1>6, StepTyped DEF FileDream, Step, Points
    <2> QED BY <1>6, <2>1 DEF FileDream, TypeOK, RunsOK
  <1>7. CASE WriteCompleted(w)
    <2>1. RunsOK(run')
      BY <1>1, <1>7, StepTyped DEF WriteCompleted, Step, Points
    <2> QED BY <1>7, <2>1 DEF WriteCompleted, TypeOK, RunsOK, Statuses
  <1>8. CASE WriteFailed(w)
    <2>1. RunsOK(run')
      BY <1>1, <1>8, StepTyped DEF WriteFailed, AfterFailing, Step, Points
    <2> QED BY <1>8, <2>1 DEF WriteFailed, TypeOK, RunsOK, Statuses
  <1>9. CASE Retry(w)
    <2>1. RunsOK(run')
      BY <1>1, <1>9, StepTyped DEF Retry, Step, Points
    <2> QED BY <1>9, <2>1 DEF Retry, TypeOK, RunsOK
  <1>10. CASE MarkRow(w)
    <2>1. RunsOK(run')
      BY <1>1, <1>10, BetweenKept DEF MarkRow
    <2> QED BY <1>10, <2>1 DEF MarkRow, TypeOK, RunsOK
  <1>11. CASE GiveUp(w)
    <2>1. RunsOK(run')
      BY <1>1, <1>11, BetweenKept DEF GiveUp
    <2>2. LeftOK'
      BY <1>1, <1>11, SpendLeft DEF GiveUp, LeftOK
    <2> QED BY <1>11, <2>1, <2>2 DEF GiveUp, TypeOK, RunsOK, LeftOK
  <1>12. CASE Release(w)
    <2>1. RunsOK(run')
      BY <1>1, <1>12, BetweenKept DEF Release, Resting
    <2> QED BY <1>12, <2>1 DEF Release, TypeOK, RunsOK
  <1>13. CASE HandlerRaises(w)
    <2>1. RunsOK(run')
      BY <1>1, <1>13, StepTyped DEF HandlerRaises, Step, Points
    <2>2. LeftOK'
      BY <1>1, <1>13, SpendLeft DEF HandlerRaises
    <2> QED BY <1>13, <2>1, <2>2 DEF HandlerRaises, TypeOK, RunsOK, LeftOK
  <1>14. CASE StatusLost(w)
    <2>1. RunsOK(run')
      BY <1>1, <1>14, StepTyped DEF StatusLost, AfterFailing, Step, Points
    <2>2. LeftOK'
      BY <1>1, <1>14, SpendLeft DEF StatusLost
    <2> QED BY <1>14, <2>1, <2>2 DEF StatusLost, TypeOK, RunsOK, LeftOK
  <1>15. CASE Crash(w)
    <2>1. RunsOK(run')
      BY <1>1, <1>15, BetweenKept DEF Crash, Resting
    <2>2. LeftOK'
      BY <1>1, <1>15, SpendLeft DEF Crash
    <2> QED BY <1>15, <2>1, <2>2 DEF Crash, TypeOK, RunsOK, LeftOK
  <1> QED
    BY <1>2, <1>3, <1>4, <1>5, <1>6, <1>7, <1>8, <1>9, <1>10, <1>11, <1>12,
       <1>13, <1>14, <1>15, PlanTyped, WriteTyped DEF Work, Mishap

\* The clock, the reconciler and the dreams.
LEMMA OthersTyped ==
  ASSUME TypeOK,
         \/ \E t \in Tasks : ExpireClaim(t)
         \/ \E m \in Messages, c \in CopyIds : Sweep(m, c)
         \/ DreamBegins \/ DreamEnds
  PROVE  TypeOK'
  <1> USE DEF TypeOK, docVars, queueVars, sendVars, history
  <1>1. ASSUME NEW t \in Tasks, ExpireClaim(t) PROVE TypeOK'
    <2>1. left' \in [Events -> Nat]
      BY <1>1, SpendTyped DEF ExpireClaim
    <2> QED BY <1>1, <2>1 DEF ExpireClaim
  <1>2. ASSUME NEW m \in Messages, NEW c \in CopyIds, Sweep(m, c) PROVE TypeOK'
    BY <1>2 DEF Sweep
  <1>3. CASE DreamBegins
    BY <1>3 DEF DreamBegins
  <1>4. CASE DreamEnds
    BY <1>4 DEF DreamEnds
  <1> QED BY <1>1, <1>2, <1>3, <1>4

LEMMA NextTyped == TypeOK /\ [Next]_vars => TypeOK'
  <1> SUFFICES ASSUME TypeOK, [Next]_vars PROVE TypeOK' OBVIOUS
  <1>1. CASE Next
    BY <1>1, IngestTyped, CallTyped, WorkTyped, OthersTyped DEF Next
  <1>2. CASE UNCHANGED vars
    BY <1>2 DEF vars, TypeOK
  <1> QED BY <1>1, <1>2

\* In every reachable state the variables have their types, and a backfill that
\* is writing has documents left to write.
THEOREM TypeCorrect == Spec => []TypeOK
  BY InitTyped, NextTyped, PTL DEF Spec

-----------------------------------------------------------------------------
(* What the lock of the membership row keeps. *)

\* The steps that touch the membership, the copies or the removals' history.
Touching ==
  \/ \E c \in Callers : Change(c)
  \/ \E w \in Workers : WriteChunk(w) \/ CheckRejoined(w) \/ RetractUnlocked(w)
  \/ \E m \in Messages, c \in CopyIds : Sweep(m, c)

LEMMA OthersTouchNothing ==
  ASSUME [Next]_vars, ~Touching
  PROVE  UNCHANGED <<member, copies, retracted>>
  <1> USE DEF docVars, queueVars, sendVars, history
  <1>1. CASE Ingest \/ DropBatch
    BY <1>1 DEF Ingest, Send, File, FetchBatch, SaveSelf, SaveScope, DropBatch
  <1>2. ASSUME NEW c \in Callers, Request(c) \/ Abandon(c)
        PROVE  UNCHANGED <<member, copies, retracted>>
    BY <1>2 DEF Request, LookForMessages, CheckTask, InsertBackfill, InsertRemoval, Abandon
  <1>3. ASSUME NEW w \in Workers, NEW t \in Tasks, ClaimTask(w, t)
        PROVE  UNCHANGED <<member, copies, retracted>>
    BY <1>3 DEF ClaimTask
  <1>4. ASSUME NEW w \in Workers, Work(w) \/ Mishap(w)
        PROVE  UNCHANGED <<member, copies, retracted>>
    <2>1. CASE FetchRow(w) \/ PlanBackfill(w) \/ FileDream(w) \/ WriteCompleted(w)
      BY <2>1 DEF FetchRow, PlanBackfill, FileDream, WriteCompleted
    <2>2. CASE MarkRow(w) \/ WriteFailed(w) \/ Retry(w) \/ GiveUp(w) \/ Release(w)
      BY <2>2 DEF MarkRow, WriteFailed, Retry, GiveUp, Release
    <2>3. CASE Mishap(w)
      BY <2>3 DEF Mishap, HandlerRaises, StatusLost, Crash
    <2> QED BY <1>4, <2>1, <2>2, <2>3 DEF Work, Touching
  <1>5. ASSUME NEW t \in Tasks, ExpireClaim(t)
        PROVE  UNCHANGED <<member, copies, retracted>>
    BY <1>5 DEF ExpireClaim
  <1>6. CASE DreamBegins \/ DreamEnds
    BY <1>6 DEF DreamBegins, DreamEnds
  <1>7. CASE UNCHANGED vars
    BY <1>7 DEF vars
  <1> QED BY <1>1, <1>2, <1>3, <1>4, <1>5, <1>6, <1>7 DEF Next, Touching

\* RetractionHolds is not inductive without the membership: it is the membership
\* a late backfill looks at.
RetractedInv == retracted => ~Member /\ \A m \in Messages : LiveCopies(m) = {}

LEMMA RetractedStep ==
  ASSUME TypeOK, RetractedInv, [Next]_vars
  PROVE  RetractedInv'
  <1> USE DEF RetractedInv, LiveCopies, Member, docVars, queueVars, sendVars, history
  <1>1. CASE ~Touching
    BY <1>1, OthersTouchNothing
  <1>2. ASSUME NEW c \in Callers, Change(c)
        PROVE  RetractedInv'
    <2>1. CASE AddSession(c)
      BY <2>1 DEF AddSession
    <2>2. CASE RemoveSession(c)
      BY <2>2 DEF RemoveSession
    <2>3. CASE RemoveSessions(c)
      BY <2>3 DEF RemoveSessions
    <2> QED BY <1>2, <2>1, <2>2, <2>3 DEF Change
  <1>3. ASSUME NEW w \in Workers, WriteChunk(w)
        PROVE  RetractedInv'
    <2>1. CASE Member
      BY <1>3, <2>1 DEF WriteChunk
    <2>2. CASE ~Member
      <3>1. UNCHANGED <<member, copies, retracted>>
        BY <1>3, <2>2 DEF WriteChunk, StillMember
      <3> QED BY <3>1
    <2> QED BY <2>1, <2>2
  <1>4. ASSUME NEW w \in Workers, CheckRejoined(w) \/ RetractUnlocked(w)
        PROVE  RetractedInv'
    <2>1. CASE Retract(w)
      <3>1. \A d \in Messages \X CopyIds : copies'[d] # "live"
        BY <2>1 DEF Retract
      <3>2. retracted' = ~Member /\ member' = member
        BY <1>4, <2>1 DEF Retract, CheckRejoined, RetractUnlocked
      <3> QED BY <3>1, <3>2
    <2>2. CASE UNCHANGED <<copies, retracted>>
      BY <1>4, <2>2 DEF CheckRejoined, RetractUnlocked
    <2> QED BY <1>4, <2>1, <2>2 DEF CheckRejoined, RetractUnlocked
  <1>5. ASSUME NEW m \in Messages, NEW c \in CopyIds, Sweep(m, c)
        PROVE  RetractedInv'
    <2>1. copies' = [copies EXCEPT ![<<m, c>>] = "none"]
      BY <1>5 DEF Sweep
    <2>2. \A d \in Messages \X CopyIds : copies'[d] = "live" => copies[d] = "live"
      BY <2>1 DEF TypeOK
    <2> QED BY <1>5, <2>2 DEF Sweep
  <1> QED BY <1>1, <1>2, <1>3, <1>4, <1>5 DEF Touching

\* Once a removal has been reconciled no copy is live until the session is added
\* again, for any number of late, repeated or taken over backfills.
THEOREM RetractionIsFinal == Spec => []RetractionHolds
  <1>1. Init => RetractedInv
    BY DEF Init, RetractedInv
  <1>2. TypeOK /\ RetractedInv /\ [Next]_vars => RetractedInv'
    BY RetractedStep
  <1>3. RetractedInv => RetractionHolds
    BY DEF RetractedInv, RetractionHolds
  <1> QED BY <1>1, <1>2, <1>3, TypeCorrect, PTL DEF Spec

\* A session with a membership row: no removal works without its lock.
JoinedInv == member # "never" /\ \A w \in Workers : run[w].pc # "delete"

LEMMA PointsOf ==
  ASSUME TypeOK, NEW w \in Workers
  PROVE  /\ \A p \in Points : [run EXCEPT ![w].pc = p][w].pc = p
         /\ \A p \in Points : \A v \in Workers \ {w} :
              [run EXCEPT ![w].pc = p][v] = run[v]
         /\ \A l : [run EXCEPT ![w] = l][w] = l
         /\ \A l : \A v \in Workers \ {w} : [run EXCEPT ![w] = l][v] = run[v]
  BY SMTT(30) DEF TypeOK, Runs

\* A step to another point than "delete" keeps the workers away from it.
LEMMA StepJoined ==
  ASSUME TypeOK, \A v \in Workers : run[v].pc # "delete",
         NEW w \in Workers, NEW p \in Points \ {"delete"},
         run' = [run EXCEPT ![w].pc = p]
  PROVE  \A v \in Workers : run'[v].pc # "delete"
  BY PointsOf

LEMMA LocalsJoined ==
  ASSUME TypeOK, \A v \in Workers : run[v].pc # "delete",
         NEW w \in Workers, NEW t, NEW r, NEW p, NEW docs, NEW f, p # "delete",
         run' = [run EXCEPT ![w] = Locals(t, r, p, docs, f)]
  PROVE  \A v \in Workers : run'[v].pc # "delete"
  <1>1. Locals(t, r, p, docs, f).pc = p
    BY DEF Locals
  <1> QED BY <1>1, PointsOf

LEMMA WorkJoined ==
  ASSUME TypeOK, JoinedInv, NEW w \in Workers,
         Work(w) \/ Mishap(w) \/ \E t \in Tasks : ClaimTask(w, t)
  PROVE  \A v \in Workers : run'[v].pc # "delete"
  <1> DEFINE Goal == \A v \in Workers : run'[v].pc # "delete"
  <1>1. \A v \in Workers : run[v].pc # "delete"
    BY DEF JoinedInv
  <1>2. ASSUME NEW p \in Points \ {"delete"}, run' = [run EXCEPT ![w].pc = p]
        PROVE  Goal
    BY <1>1, <1>2, StepJoined
  <1>3. ASSUME NEW t, NEW p \in {"idle", "fetch"}, run' = [run EXCEPT ![w] = Between(t, p)]
        PROVE  Goal
    BY <1>1, <1>3, LocalsJoined DEF Between
  <1>5. CASE \E t \in Tasks : ClaimTask(w, t)
    BY <1>3, <1>5 DEF ClaimTask
  <1>6. CASE FetchRow(w)
    <2>1. CASE run' = [run EXCEPT ![w].pc = "release"]
      BY <1>2, <2>1 DEF Points
    <2>2. ASSUME NEW r \in rows[run[w].task], NEW p \in {"plan", "remove"},
                 run' = [run EXCEPT ![w] = Locals(run[w].task, r, p, {}, NoPlan)]
          PROVE  Goal
      <3>1. p # "delete"
        OBVIOUS
      <3> QED BY <1>1, <2>2, <3>1, LocalsJoined
    <2> QED BY <1>6, <2>1, <2>2 DEF FetchRow
  <1>7. CASE PlanBackfill(w)
    <2>1. PICK f \in Plans : run' = [run EXCEPT ![w] =
                                 Locals(run[w].task, run[w].row, AfterPlan, Missing, f)]
      BY <1>7 DEF PlanBackfill, TypeOK
    <2>2. AfterPlan # "delete"
      BY DEF AfterPlan
    <2> QED BY <1>1, <2>1, <2>2, LocalsJoined
  <1>8. CASE WriteChunk(w)
    <2>1. CASE \E p \in {"mark", "broken"} : run' = [run EXCEPT ![w].pc = p]
      BY <1>2, <2>1 DEF Points
    <2>2. ASSUME NEW chunk \in Chunks(run[w].todo), NEW p \in {"dream", "write"},
                 run' = [run EXCEPT ![w] = Locals(run[w].task, run[w].row, p,
                                             run[w].todo \ chunk, run[w].restore)]
          PROVE  Goal
      <3>1. p # "delete"
        OBVIOUS
      <3> QED BY <1>1, <2>2, <3>1, LocalsJoined
    <2> QED BY <1>8, <2>1, <2>2 DEF WriteChunk, TypeOK
  <1>9. CASE CheckRejoined(w)
    BY <1>2, <1>9 DEF CheckRejoined, Retract, JoinedInv, Points
  <1>10. CASE RetractUnlocked(w)
    BY <1>1, <1>10 DEF RetractUnlocked
  <1>11. CASE FileDream(w) \/ WriteCompleted(w) \/ WriteFailed(w) \/ Retry(w)
              \/ HandlerRaises(w) \/ StatusLost(w)
    BY <1>2, <1>11 DEF FileDream, WriteCompleted, WriteFailed, Retry, HandlerRaises,
                       StatusLost, AfterFailing, Step, Points
  <1>12. CASE MarkRow(w) \/ GiveUp(w) \/ Release(w) \/ Crash(w)
    BY <1>3, <1>12 DEF MarkRow, GiveUp, Release, Crash, Resting
  <1> QED
    BY <1>5, <1>6, <1>7, <1>8, <1>9, <1>10, <1>11, <1>12 DEF Work, Mishap

LEMMA JoinedStep ==
  ASSUME TypeOK, JoinedInv, [Next]_vars
  PROVE  JoinedInv'
  <1>1. member' # "never"
    <2>1. CASE ~Touching
      BY <2>1, OthersTouchNothing DEF JoinedInv
    <2>2. CASE Touching
      BY <2>2 DEF Touching, Change, AddSession, RemoveSession, RemoveSessions,
                  WriteChunk, CheckRejoined, RetractUnlocked, Sweep, JoinedInv, Member
    <2> QED BY <2>1, <2>2
  <1>2. \A v \in Workers : run'[v].pc # "delete"
    <2>1. CASE run' = run
      BY <2>1 DEF JoinedInv
    <2>2. CASE \E w \in Workers : Work(w) \/ Mishap(w) \/ \E t \in Tasks : ClaimTask(w, t)
      BY <2>2, WorkJoined
    <2>3. CASE Ingest \/ DropBatch
      BY <2>1, <2>3 DEF Ingest, Send, File, FetchBatch, SaveSelf, SaveScope, DropBatch
    <2>4. ASSUME NEW c \in Callers, Change(c) \/ Request(c) \/ Abandon(c)
          PROVE  run' = run
      BY <2>4 DEF Change, AddSession, RemoveSession, RemoveSessions, Request,
                  LookForMessages, CheckTask, InsertBackfill, InsertRemoval, Abandon
    <2>5. CASE \/ \E t \in Tasks : ExpireClaim(t)
               \/ \E m \in Messages, c \in CopyIds : Sweep(m, c)
               \/ DreamBegins \/ DreamEnds \/ UNCHANGED vars
      BY <2>1, <2>5 DEF ExpireClaim, Sweep, DreamBegins, DreamEnds, vars
    <2> QED BY <2>1, <2>2, <2>3, <2>4, <2>5 DEF Next
  <1> QED BY <1>1, <1>2 DEF JoinedInv

\* The documents a member has are kept by every step that is not unlocked.
DocumentsKept == Member /\ Member' /\ ~Unlocked => KeepsMemory

LEMMA DocumentsStep ==
  ASSUME TypeOK, [Next]_vars
  PROVE  DocumentsKept
  <1> USE DEF docVars, queueVars, sendVars, history, KeepsMemory
  <1>1. CASE UNCHANGED <<direct, copies>>
    BY <1>1 DEF DocumentsKept
  <1>2. CASE Ingest \/ DropBatch
    <2>1. CASE SaveScope
      <3>1. \A m \in Messages : direct[m] = "live" => direct'[m] = "live"
        BY <2>1 DEF SaveScope, TypeOK
      <3> QED BY <2>1, <3>1 DEF SaveScope, DocumentsKept
    <2> QED
      BY <1>1, <1>2, <2>1 DEF Ingest, Send, File, FetchBatch, SaveSelf, DropBatch
  <1>3. ASSUME NEW c \in Callers, Change(c) \/ Request(c) \/ Abandon(c)
        PROVE  UNCHANGED <<direct, copies>>
    BY <1>3 DEF Change, AddSession, RemoveSession, RemoveSessions, Request,
                LookForMessages, CheckTask, InsertBackfill, InsertRemoval, Abandon
  <1>4. ASSUME NEW w \in Workers, Work(w) \/ Mishap(w) \/ \E t \in Tasks : ClaimTask(w, t)
        PROVE  DocumentsKept
    <2>1. CASE WriteChunk(w)
      <3>1. \A d \in Messages \X CopyIds : copies[d] = "live" => copies'[d] = "live"
        BY <2>1 DEF WriteChunk
      <3> QED BY <2>1, <3>1 DEF WriteChunk, DocumentsKept
    <2>2. CASE CheckRejoined(w)
      BY <2>2 DEF CheckRejoined, Rejoined, DocumentsKept
    <2>3. CASE RetractUnlocked(w)
      <3>1. run'[w].pc # "delete"
        BY <2>3, PointsOf DEF RetractUnlocked, Retract, Points
      <3>2. Unlocked
        BY <2>3, <3>1 DEF RetractUnlocked, Unlocked
      <3> QED BY <3>2 DEF DocumentsKept
    <2>4. CASE \E t \in Tasks : ClaimTask(w, t)
      BY <1>1, <2>4 DEF ClaimTask
    <2>5. CASE FetchRow(w) \/ PlanBackfill(w) \/ FileDream(w) \/ WriteCompleted(w)
      BY <1>1, <2>5 DEF FetchRow, PlanBackfill, FileDream, WriteCompleted
    <2>6. CASE MarkRow(w) \/ WriteFailed(w) \/ Retry(w) \/ GiveUp(w) \/ Release(w)
      BY <1>1, <2>6 DEF MarkRow, WriteFailed, Retry, GiveUp, Release
    <2>7. CASE Mishap(w)
      BY <1>1, <2>7 DEF Mishap, HandlerRaises, StatusLost, Crash
    <2> QED BY <1>4, <2>1, <2>2, <2>3, <2>4, <2>5, <2>6, <2>7 DEF Work
  <1>5. ASSUME NEW m \in Messages, NEW c \in CopyIds, Sweep(m, c)
        PROVE  DocumentsKept
    <2>1. copies[<<m, c>>] = "deleted"
          /\ copies' = [copies EXCEPT ![<<m, c>>] = "none"] /\ direct' = direct
      BY <1>5 DEF Sweep
    <2>2. \A d \in Messages \X CopyIds : copies[d] = "live" => copies'[d] = "live"
      BY <2>1 DEF TypeOK
    <2> QED BY <2>1, <2>2 DEF DocumentsKept
  <1>6. CASE \/ \E t \in Tasks : ExpireClaim(t)
             \/ DreamBegins \/ DreamEnds \/ UNCHANGED vars
    BY <1>1, <1>6 DEF ExpireClaim, DreamBegins, DreamEnds, vars
  <1> QED BY <1>1, <1>2, <1>3, <1>4, <1>5, <1>6 DEF Next

\* While a session stays a member, none of its documents in the scope is deleted by
\* a removal that was filed before and found a membership row to lock.
THEOREM MemberKeepsMemoryHolds == Spec => MemberKeepsMemory
  <1>1. TypeOK /\ [Next]_vars
          => [Member /\ Member' /\ ~Unlocked => KeepsMemory]_vars
    BY DocumentsStep DEF DocumentsKept
  <1> QED BY <1>1, TypeCorrect, PTL DEF Spec, MemberKeepsMemory

\* Of a session that has a membership row, no removal whatever does.
THEOREM MemoryIsKept == JoinedSpec => MemberAlwaysKeeps
  <1>1. JoinedInit => Init /\ JoinedInv
    <2>1. Resting.pc = "idle"
      BY DEF Resting, Between, Locals
    <2> QED BY <2>1 DEF Init, JoinedInit, JoinedInv
  <1>2. TypeOK /\ JoinedInv /\ [Next]_vars => JoinedInv'
    BY JoinedStep
  <1>3. TypeOK /\ JoinedInv /\ [Next]_vars
          => [Member /\ Member' => KeepsMemory]_vars
    BY DocumentsStep DEF DocumentsKept, JoinedInv, Unlocked
  <1> QED
    BY <1>1, <1>2, <1>3, TypeCorrect, PTL DEF JoinedSpec, Spec, MemberAlwaysKeeps

-----------------------------------------------------------------------------
(* What the claim of a task keeps, while no handler outlasts it. *)

\* OneLiveCopy is not inductive without the claims: a backfill that writes must be
\* the only one, so that what it found missing is missing still.
Sole ==
  /\ left["stall"] = 0
  /\ \A w \in Workers : run[w].pc # "idle" => claim[run[w].task] = w
  /\ \A w \in Workers : run[w].pc \in {"plan", "write"} => run[w].task = "backfill"
  /\ \A w \in Workers : run[w].pc = "write" =>
       \A m \in run[w].todo : LiveCopies(m) = {}
  /\ \A m \in Messages : \A c, d \in LiveCopies(m) : c = d

Fewer == \A m \in Messages : LiveCopies(m)' \subseteq LiveCopies(m)

LEMMA StallsAreSpent ==
  ASSUME LeftOK, left["stall"] = 0, NEW e \in Events, Spend(e)
  PROVE  left'["stall"] = 0 /\ e # "stall"
  BY DEF LeftOK, Spend

\* A step of one worker that keeps its claim and revives no copy.
LEMMA Moves ==
  ASSUME TypeOK, Sole, NEW w \in Workers, claim' = claim, left'["stall"] = 0, Fewer,
         TypeOK',
         \A v \in Workers \ {w} : run'[v] = run[v],
         run'[w].pc # "idle" => run[w].pc # "idle" /\ run'[w].task = run[w].task,
         run'[w].pc \in {"plan", "write"} => run'[w].task = "backfill",
         run'[w].pc = "write" => \A m \in run'[w].todo : LiveCopies(m) = {}
  PROVE  Sole'
  <1>1. \A v \in Workers : run'[v].todo \subseteq Messages
    BY SMTT(30) DEF TypeOK, Runs
  <1>2. \A v \in Workers : run'[v].pc # "idle" => claim'[run'[v].task] = v
    BY DEF Sole
  <1>3. \A v \in Workers : run'[v].pc \in {"plan", "write"} => run'[v].task = "backfill"
    BY DEF Sole
  <1>4. ASSUME NEW v \in Workers, run'[v].pc = "write"
        PROVE  \A m \in run'[v].todo : LiveCopies(m)' = {}
    <2>1. \A m \in run'[v].todo : LiveCopies(m) = {}
      BY <1>4 DEF Sole
    <2> QED BY <1>1, <2>1 DEF Fewer
  <1>5. \A m \in Messages : \A c, d \in LiveCopies(m)' : c = d
    BY DEF Fewer, Sole
  <1> QED BY <1>2, <1>3, <1>4, <1>5 DEF Sole

LEMMA StepSole ==
  ASSUME TypeOK, TypeOK', Sole, NEW w \in Workers, run[w].pc # "idle",
         claim' = claim, left'["stall"] = 0, Fewer,
         \/ \E p \in Points \ {"plan", "write"} : run' = [run EXCEPT ![w].pc = p]
         \/ \E p \in {"idle", "fetch"} : run' = [run EXCEPT ![w] = Between(run[w].task, p)]
         \/ run' = [run EXCEPT ![w] = Resting]
  PROVE  Sole'
  <1>1. \A v \in Workers \ {w} : run'[v] = run[v]
    BY PointsOf
  <1>2. CASE \E p \in Points \ {"plan", "write"} : run' = [run EXCEPT ![w].pc = p]
    <2>1. run'[w].task = run[w].task /\ run'[w].pc \notin {"plan", "write"}
      BY <1>2, SMTT(30) DEF TypeOK, Runs
    <2> QED BY <1>1, <2>1, Moves
  <1>3. CASE \E p \in {"idle", "fetch"} : run' = [run EXCEPT ![w] = Between(run[w].task, p)]
    <2>1. PICK p \in {"idle", "fetch"} : run'[w] = Between(run[w].task, p)
      BY <1>3, PointsOf
    <2>2. run'[w].task = run[w].task /\ run'[w].pc = p
      BY <2>1 DEF Between, Locals
    <2> QED BY <1>1, <2>2, Moves
  <1>4. CASE run' = [run EXCEPT ![w] = Resting]
    <2>1. run'[w] = Resting
      BY <1>4, PointsOf
    <2>2. run'[w].pc = "idle"
      BY <2>1 DEF Resting, Between, Locals
    <2> QED BY <1>1, <2>2, Moves
  <1> QED BY <1>2, <1>3, <1>4

\* The write: its documents had no live copy, and no other backfill writes.
LEMMA WriteSole ==
  ASSUME TypeOK, TypeOK', Sole, NEW w \in Workers, WriteChunk(w)
  PROVE  Sole'
  <1> USE DEF queueVars
  <1>1. /\ run[w].pc = "write" /\ claim' = claim /\ left' = left
        /\ run[w].task = "backfill"
    BY DEF WriteChunk, Sole
  <1>2. CASE \E p \in {"mark", "broken"} : run' = [run EXCEPT ![w].pc = p] /\ copies' = copies
    <2>1. Fewer
      BY <1>2 DEF Fewer, LiveCopies
    <2>2. \E p \in Points \ {"plan", "write"} : run' = [run EXCEPT ![w].pc = p]
      BY <1>2 DEF Points
    <2> QED BY <1>1, <2>1, <2>2, StepSole DEF Sole
  <1>3. ASSUME NEW chunk \in Chunks(run[w].todo), NEW f \in Written(w, chunk),
               NEW p \in {"dream", "write"},
               copies' = [d \in Messages \X CopyIds |->
                            IF d[1] \in chunk /\ f[d[1]] = d[2] THEN "live"
                            ELSE copies[d]],
               run' = [run EXCEPT ![w] = Locals(run[w].task, run[w].row, p,
                                           run[w].todo \ chunk, run[w].restore)]
        PROVE  Sole'
    <2>1. chunk \subseteq run[w].todo /\ run[w].todo \subseteq Messages
      <3>1. run[w].todo \subseteq Messages
        BY SMTT(30) DEF TypeOK, Runs
      <3> QED BY <3>1 DEF Chunks
    <2>2. \A m \in Messages : m \notin chunk => LiveCopies(m)' = LiveCopies(m)
      BY <1>3 DEF LiveCopies
    <2>3. \A m \in chunk : LiveCopies(m)' \subseteq {f[m]}
      <3>1. \A m \in chunk : LiveCopies(m) = {}
        BY <1>1, <2>1 DEF Sole
      <3>2. \A m \in chunk, c \in CopyIds :
              copies'[m, c] = IF f[m] = c THEN "live" ELSE copies[m, c]
        BY <1>3, <2>1
      <3> QED BY <3>1, <3>2, ZenonT(60) DEF LiveCopies
    <2>4. \A m \in Messages : \A c, d \in LiveCopies(m)' : c = d
      BY <2>2, <2>3 DEF Sole
    <2>5. /\ \A v \in Workers \ {w} : run'[v] = run[v]
          /\ run'[w] = Locals(run[w].task, run[w].row, p, run[w].todo \ chunk, run[w].restore)
      <3>1. run' = [run EXCEPT ![w] = Locals(run[w].task, run[w].row, p,
                                        run[w].todo \ chunk, run[w].restore)]
        BY <1>3
      <3> QED BY <3>1, PointsOf
    <2>6. /\ run'[w].task = run[w].task /\ run'[w].pc = p
          /\ run'[w].todo = run[w].todo \ chunk
      BY <2>5 DEF Locals
    <2>7. ASSUME NEW v \in Workers, run'[v].pc = "write"
          PROVE  \A m \in run'[v].todo : LiveCopies(m)' = {}
      <3>1. CASE v = w
        BY <1>1, <2>1, <2>2, <2>6, <3>1 DEF Sole
      <3>2. CASE v # w
        <4>1. run[v].pc = "write"
          BY <2>5, <2>7, <3>2
        <4>2. claim["backfill"] = v /\ claim["backfill"] = w
          BY <1>1, <4>1 DEF Sole
        <4> QED BY <3>2, <4>2
      <3> QED BY <3>1, <3>2
    <2>8. \A v \in Workers : run'[v].pc # "idle" => claim'[run'[v].task] = v
      BY <1>1, <2>5, <2>6 DEF Sole
    <2>9. \A v \in Workers : run'[v].pc \in {"plan", "write"} => run'[v].task = "backfill"
      BY <1>1, <2>5, <2>6 DEF Sole
    <2> QED BY <1>1, <2>4, <2>7, <2>8, <2>9 DEF Sole
  <1>4. CASE StillMember
    <2>1. CASE \E chunk \in Chunks(run[w].todo) :
                 Swept(w, chunk) /\ run' = [run EXCEPT ![w].pc = "broken"]
                   /\ copies' = copies
      BY <1>2, <2>1
    <2>2. ASSUME NEW chunk \in Chunks(run[w].todo), NEW f \in Written(w, chunk),
                 copies' = [d \in Messages \X CopyIds |->
                              IF d[1] \in chunk /\ f[d[1]] = d[2] THEN "live"
                              ELSE copies[d]],
                 LET p == IF run[w].todo = chunk THEN "dream" ELSE "write"
                 IN  run' = [run EXCEPT ![w] = Locals(run[w].task, run[w].row, p,
                                                 run[w].todo \ chunk, run[w].restore)]
          PROVE  Sole'
      <3>1. CASE run[w].todo = chunk
        BY <1>3, <2>2, <3>1
      <3>2. CASE run[w].todo # chunk
        BY <1>3, <2>2, <3>2
      <3> QED BY <3>1, <3>2
    <2> QED BY <1>4, <2>1, <2>2 DEF WriteChunk, TypeOK
  <1>5. CASE ~StillMember
    BY <1>2, <1>5 DEF WriteChunk
  <1> QED BY <1>4, <1>5

LEMMA WorkSole ==
  ASSUME TypeOK, TypeOK', Sole, NEW w \in Workers, Work(w) \/ Mishap(w)
  PROVE  Sole'
  <1> USE DEF docVars, queueVars, sendVars, history
  <1>1. LeftOK /\ left["stall"] = 0
    BY TypeParts DEF Sole
  <1>2. (UNCHANGED copies) => Fewer
    BY DEF Fewer, LiveCopies
  <1>3. CASE FetchRow(w)
    <2>1. /\ run[w].pc = "fetch" /\ claim' = claim /\ left' = left /\ UNCHANGED copies
      BY <1>3 DEF FetchRow
    <2>2. CASE run' = [run EXCEPT ![w].pc = "release"]
      BY <1>1, <1>2, <2>1, <2>2, StepSole DEF Points
    <2>3. ASSUME NEW r,
                 LET t == run[w].task
                     p == IF t = "backfill" THEN "plan" ELSE "remove"
                 IN  run' = [run EXCEPT ![w] = Locals(t, r, p, {}, NoPlan)]
          PROVE  Sole'
      <3> DEFINE p == IF run[w].task = "backfill" THEN "plan" ELSE "remove"
      <3>1. /\ run'[w] = Locals(run[w].task, r, p, {}, NoPlan)
            /\ \A v \in Workers \ {w} : run'[v] = run[v]
        BY <2>3, PointsOf
      <3>2. run'[w].task = run[w].task /\ run'[w].pc = p
        BY <3>1 DEF Locals
      <3> QED BY <1>1, <1>2, <2>1, <3>1, <3>2, Moves
    <2> QED BY <1>3, <2>2, <2>3 DEF FetchRow
  <1>4. CASE PlanBackfill(w)
    <2>1. PICK f \in Plans : run' = [run EXCEPT ![w] =
                                 Locals(run[w].task, run[w].row, AfterPlan, Missing, f)]
      BY <1>4 DEF PlanBackfill, TypeOK
    <2>2. /\ run'[w] = Locals(run[w].task, run[w].row, AfterPlan, Missing, f)
          /\ \A v \in Workers \ {w} : run'[v] = run[v]
      BY <2>1, PointsOf
    <2>3. run'[w].task = run[w].task /\ run'[w].pc = AfterPlan /\ run'[w].todo = Missing
      BY <2>2 DEF Locals
    <2>4. \A m \in Missing : LiveCopies(m) = {}
      BY DEF Missing
    <2>5. run[w].pc = "plan" /\ claim' = claim /\ left' = left /\ UNCHANGED copies
      BY <1>4 DEF PlanBackfill
    <2>6. run[w].task = "backfill"
      BY <2>5 DEF Sole
    <2> QED BY <1>1, <1>2, <2>2, <2>3, <2>4, <2>5, <2>6, Moves
  <1>5. CASE WriteChunk(w)
    BY <1>5, WriteSole
  <1>6. CASE CheckRejoined(w) \/ RetractUnlocked(w)
    <2>1. /\ run[w].pc # "idle" /\ claim' = claim /\ left' = left
          /\ \E p \in Points \ {"plan", "write"} : run' = [run EXCEPT ![w].pc = p]
      BY <1>6 DEF CheckRejoined, RetractUnlocked, Retract, Points
    <2>2. Fewer
      <3>1. CASE Retract(w)
        BY <3>1 DEF Retract, Fewer, LiveCopies
      <3>2. CASE UNCHANGED copies
        BY <1>2, <3>2
      <3> QED BY <1>6, <3>1, <3>2 DEF CheckRejoined, RetractUnlocked
    <2> QED BY <1>1, <2>1, <2>2, StepSole
  <1>7. CASE FileDream(w) \/ WriteCompleted(w) \/ WriteFailed(w) \/ Retry(w)
             \/ HandlerRaises(w) \/ StatusLost(w)
    <2>1. /\ run[w].pc # "idle" /\ claim' = claim /\ UNCHANGED copies
          /\ \E p \in Points \ {"plan", "write"} : run' = [run EXCEPT ![w].pc = p]
      BY <1>7 DEF FileDream, WriteCompleted, WriteFailed, Retry, HandlerRaises,
                  StatusLost, AfterFailing, Step, Points
    <2>2. left' = left \/ Spend("failure")
      BY <1>7 DEF FileDream, WriteCompleted, WriteFailed, Retry, HandlerRaises, StatusLost
    <2>3. left'["stall"] = 0
      BY <1>1, <2>2, StallsAreSpent
    <2> QED BY <1>2, <2>1, <2>3, StepSole
  <1>8. CASE MarkRow(w) \/ GiveUp(w) \/ Crash(w)
    <2>1. /\ run[w].pc # "idle" /\ claim' = claim /\ UNCHANGED copies
          /\ \/ run' = [run EXCEPT ![w] = Between(run[w].task, "fetch")]
             \/ run' = [run EXCEPT ![w] = Resting]
      BY <1>8 DEF MarkRow, GiveUp, Crash
    <2>2. left' = left \/ Spend("giveUp") \/ Spend("crash")
      BY <1>8 DEF MarkRow, GiveUp, Crash
    <2>3. left'["stall"] = 0
      BY <1>1, <2>2, StallsAreSpent
    <2> QED BY <1>2, <2>1, <2>3, StepSole
  <1>9. CASE Release(w)
    <2>1. /\ run[w].pc = "release" /\ left' = left /\ UNCHANGED copies
          /\ run' = [run EXCEPT ![w] = Resting]
          /\ claim' = [claim EXCEPT ![run[w].task] = None]
      BY <1>9 DEF Release, Sole
    <2>2. /\ run'[w] = Resting /\ \A v \in Workers \ {w} : run'[v] = run[v]
      BY <2>1, PointsOf
    <2>3. run'[w].pc = "idle"
      BY <2>2 DEF Resting, Between, Locals
    <2>4. ASSUME NEW v \in Workers \ {w}, run[v].pc # "idle"
          PROVE  claim'[run[v].task] = v
      <3>1. claim[run[v].task] = v /\ claim[run[w].task] = w
        BY <2>1, <2>4 DEF Sole
      <3>2. run[v].task \in Tasks
        BY <2>4 DEF TypeOK
      <3> QED BY <2>1, <2>4, <3>1, <3>2 DEF TypeOK
    <2>5. \A v \in Workers : run'[v].pc # "idle" => claim'[run'[v].task] = v
      BY <2>2, <2>3, <2>4
    <2>6. \A v \in Workers : run'[v].pc \in {"plan", "write"} => run'[v].task = "backfill"
      BY <2>2, <2>3 DEF Sole
    <2>7. \A v \in Workers : run'[v].pc = "write" =>
            \A m \in run'[v].todo : LiveCopies(m)' = {}
      <3>1. \A m \in Messages : LiveCopies(m)' = LiveCopies(m)
        BY <2>1 DEF LiveCopies
      <3>2. \A v \in Workers : run'[v].todo \subseteq Messages
        BY SMTT(30) DEF TypeOK, Runs
      <3>3. \A v \in Workers : run'[v].pc = "write" => run'[v] = run[v]
        BY <2>2, <2>3
      <3> QED BY <3>1, <3>2, <3>3 DEF Sole
    <2>8. \A m \in Messages : \A c, d \in LiveCopies(m)' : c = d
      BY <2>1 DEF Sole, LiveCopies
    <2> QED BY <1>1, <2>1, <2>5, <2>6, <2>7, <2>8 DEF Sole
  <1> QED
    BY <1>3, <1>4, <1>5, <1>6, <1>7, <1>8, <1>9 DEF Work, Mishap

LEMMA SoleStep ==
  ASSUME TypeOK, TypeOK', Sole, [Next]_vars
  PROVE  Sole'
  <1> USE DEF docVars, queueVars, sendVars, history
  <1>1. LeftOK /\ left["stall"] = 0
    BY TypeParts DEF Sole
  <1>2. ASSUME NEW t \in Tasks, NEW w \in Workers, ClaimTask(w, t)
        PROVE  Sole'
    <2>1. /\ run[w].pc = "idle" /\ claim[t] = None /\ left' = left /\ UNCHANGED copies
          /\ run' = [run EXCEPT ![w] = Between(t, "fetch")]
          /\ claim' = [claim EXCEPT ![t] = w]
      BY <1>2 DEF ClaimTask
    <2>2. /\ run'[w] = Between(t, "fetch") /\ \A v \in Workers \ {w} : run'[v] = run[v]
      BY <2>1, PointsOf
    <2>3. run'[w].pc = "fetch" /\ run'[w].task = t
      BY <2>2 DEF Between, Locals
    <2>4. ASSUME NEW v \in Workers \ {w}, run[v].pc # "idle"
          PROVE  claim'[run[v].task] = v
      <3>1. claim[run[v].task] = v
        BY <2>4 DEF Sole
      <3>2. run[v].task \in Tasks
        BY <2>4 DEF TypeOK
      <3>3. run[v].task # t
        BY <2>1, <3>1, ScopeAssumption
      <3> QED BY <2>1, <3>1, <3>2, <3>3 DEF TypeOK
    <2>5. \A v \in Workers : run'[v].pc # "idle" => claim'[run'[v].task] = v
      <3>1. claim'[t] = w
        BY <2>1 DEF TypeOK
      <3> QED BY <2>2, <2>3, <2>4, <3>1
    <2>6. \A v \in Workers : run'[v].pc \in {"plan", "write"} => run'[v].task = "backfill"
      BY <2>2, <2>3 DEF Sole
    <2>7. \A v \in Workers : run'[v].pc = "write" =>
            \A m \in run'[v].todo : LiveCopies(m)' = {}
      <3>1. \A m \in Messages : LiveCopies(m)' = LiveCopies(m)
        BY <2>1 DEF LiveCopies
      <3>2. \A v \in Workers : run'[v].todo \subseteq Messages
        BY SMTT(30) DEF TypeOK, Runs
      <3>3. \A v \in Workers : run'[v].pc = "write" => run'[v] = run[v]
        BY <2>2, <2>3
      <3> QED BY <3>1, <3>2, <3>3 DEF Sole
    <2>8. \A m \in Messages : \A c, d \in LiveCopies(m)' : c = d
      BY <2>1, ZenonT(60) DEF Sole, LiveCopies
    <2> QED BY <1>1, <2>1, <2>5, <2>6, <2>7, <2>8 DEF Sole
  <1>3. ASSUME NEW t \in Tasks, ExpireClaim(t)
        PROVE  Sole'
    <2>1. /\ claim' = [claim EXCEPT ![t] = None] /\ run' = run /\ UNCHANGED copies
          /\ IF Alive(t) THEN Spend("stall") ELSE left' = left
      BY <1>3 DEF ExpireClaim
    <2>2. ~Alive(t) /\ left' = left
      BY <1>1, <2>1, StallsAreSpent
    <2>3. \A w \in Workers : run[w].pc # "idle" => run[w].task # t
      BY <2>2 DEF Sole, Alive
    <2>4. \A w \in Workers : run'[w].pc # "idle" => claim'[run'[w].task] = w
      BY <2>1, <2>3 DEF Sole, TypeOK
    <2> QED BY <2>1, <2>2, <2>4, ZenonT(60) DEF Sole, LiveCopies
  <1>4. CASE run' = run /\ claim' = claim /\ Fewer /\ left'["stall"] = 0
    <2>1. CASE Workers = {}
      BY <1>4, <2>1 DEF Sole, Fewer
    <2>2. ASSUME NEW w \in Workers PROVE Sole'
      BY <1>4, Moves DEF Sole
    <2> QED BY <2>1, <2>2
  <1>5. CASE Ingest \/ DropBatch
    <2>1. run' = run /\ claim' = claim /\ UNCHANGED copies
      BY <1>5 DEF Ingest, Send, File, FetchBatch, SaveSelf, SaveScope, DropBatch
    <2>2. left' = left \/ Spend("failure") \/ Spend("crash")
      BY <1>5 DEF Ingest, Send, File, FetchBatch, SaveSelf, SaveScope, DropBatch
    <2>3. left'["stall"] = 0
      BY <1>1, <2>2, StallsAreSpent
    <2> QED BY <1>4, <2>1, <2>3 DEF Fewer, LiveCopies
  <1>6. ASSUME NEW c \in Callers, Change(c) \/ Request(c) \/ Abandon(c)
        PROVE  Sole'
    <2>1. run' = run /\ claim' = claim /\ UNCHANGED copies
      BY <1>6 DEF Change, AddSession, RemoveSession, RemoveSessions, Request,
                  LookForMessages, CheckTask, InsertBackfill, InsertRemoval, Abandon
    <2>2. left' = left \/ Spend("change") \/ Spend("abandon")
      BY <1>6 DEF Change, AddSession, RemoveSession, RemoveSessions, Request,
                  LookForMessages, CheckTask, InsertBackfill, InsertRemoval, Abandon
    <2>3. left'["stall"] = 0
      BY <1>1, <2>2, StallsAreSpent
    <2> QED BY <1>4, <2>1, <2>3 DEF Fewer, LiveCopies
  <1>7. ASSUME NEW m \in Messages, NEW c \in CopyIds, Sweep(m, c)
        PROVE  Sole'
    <2>1. /\ copies' = [copies EXCEPT ![<<m, c>>] = "none"]
          /\ run' = run /\ claim' = claim /\ left' = left
      BY <1>7 DEF Sweep
    <2>2. \A d \in Messages \X CopyIds : copies'[d] = "live" => copies[d] = "live"
      BY <2>1 DEF TypeOK
    <2> QED BY <1>1, <1>4, <2>1, <2>2 DEF Fewer, LiveCopies
  <1>8. CASE DreamBegins \/ DreamEnds \/ UNCHANGED vars
    BY <1>1, <1>4, <1>8 DEF DreamBegins, DreamEnds, vars, Fewer, LiveCopies
  <1>9. ASSUME NEW w \in Workers, Work(w) \/ Mishap(w)
        PROVE  Sole'
    BY <1>9, WorkSole
  <1> QED BY <1>2, <1>3, <1>5, <1>6, <1>7, <1>8, <1>9 DEF Next

\* While no handler outlasts its claim, no document has two live copies, for any
\* number of requests, workers, crashes, failures and retries: _run_backfill looks
\* for live copies once and writes in chunks much later.
THEOREM OneLiveCopyHolds == Budget["stall"] = 0 => (Spec => []OneLiveCopy)
  <1>1. Budget["stall"] = 0 /\ Init => Sole
    <2>1. Resting.pc = "idle"
      BY DEF Resting, Between, Locals
    <2> QED BY <2>1 DEF Init, Sole, LiveCopies
  <1>2. TypeOK /\ TypeOK' /\ Sole /\ [Next]_vars => Sole'
    BY SoleStep
  <1>3. Sole => OneLiveCopy
    <2>1. ASSUME NEW m \in Messages, \A c, d \in LiveCopies(m) : c = d
          PROVE  Cardinality(LiveCopies(m)) <= 1
      <3>1. CASE LiveCopies(m) = {}
        BY <3>1, FS_EmptySet
      <3>2. ASSUME NEW c \in LiveCopies(m) PROVE Cardinality(LiveCopies(m)) = 1
        <4>1. LiveCopies(m) = {c}
          BY <2>1, <3>2
        <4> QED BY <4>1, FS_Singleton
      <3> QED BY <3>1, <3>2
    <2> QED BY <2>1 DEF Sole, OneLiveCopy
  <1> QED BY <1>1, <1>2, <1>3, TypeCorrect, PTL DEF Spec

-----------------------------------------------------------------------------
(* What keeps a task due that the membership calls for. *)

\* A handler's points belong to its task.
Posts ==
  \A w \in Workers : /\ run[w].pc \in {"plan", "write"} => run[w].task = "backfill"
                     /\ run[w].pc = "remove" => run[w].task = "removal"

\* What was derived before anything else stays the sender's, and the deriver
\* does not take it up again.
Grounded ==
  \A m \in History : /\ message[m] = "derived" /\ m \notin batch
                     /\ m \in sources

\* What a step of a worker may set its locals to.
Moved(w) ==
  \/ \E p \in Points \ {"plan", "write", "remove"} : run' = [run EXCEPT ![w].pc = p]
  \/ \E t \in Tasks \cup {None}, p \in {"idle", "fetch"} :
       run' = [run EXCEPT ![w] = Between(t, p)]

LEMMA StepPosts ==
  ASSUME TypeOK, Posts, NEW w \in Workers, Moved(w)
  PROVE  Posts'
  <1>1. \A v \in Workers \ {w} : run'[v] = run[v]
    BY PointsOf DEF Moved
  <1>2. run'[w].pc \notin {"plan", "write", "remove"}
    <2>1. ASSUME NEW p \in Points \ {"plan", "write", "remove"},
                 run' = [run EXCEPT ![w].pc = p]
          PROVE  run'[w].pc = p
      BY <2>1, PointsOf
    <2>2. ASSUME NEW t, NEW p, run' = [run EXCEPT ![w] = Between(t, p)]
          PROVE  run'[w].pc = p
      <3>1. run'[w] = Between(t, p)
        BY <2>2, PointsOf
      <3> QED BY <3>1 DEF Between, Locals
    <2> QED BY <2>1, <2>2 DEF Moved
  <1> QED BY <1>1, <1>2 DEF Posts

LEMMA WorkPosts ==
  ASSUME TypeOK, JoinedInv, Posts, NEW w \in Workers,
         Work(w) \/ Mishap(w) \/ \E t \in Tasks : ClaimTask(w, t)
  PROVE  Posts'
  <1>1. run[w].task \in Tasks \cup {None} /\ run[w].pc # "delete"
    BY SMTT(30) DEF TypeOK, Runs, JoinedInv
  <1>2. CASE \E t \in Tasks : ClaimTask(w, t)
    BY <1>2, StepPosts DEF ClaimTask, Moved
  <1>3. CASE FetchRow(w)
    <2>1. CASE run' = [run EXCEPT ![w].pc = "release"]
      BY <2>1, StepPosts DEF Moved, Points
    <2>2. ASSUME NEW r,
                 LET t == run[w].task
                     p == IF t = "backfill" THEN "plan" ELSE "remove"
                 IN  run' = [run EXCEPT ![w] = Locals(t, r, p, {}, NoPlan)]
          PROVE  Posts'
      <3> DEFINE p == IF run[w].task = "backfill" THEN "plan" ELSE "remove"
      <3>1. /\ run'[w] = Locals(run[w].task, r, p, {}, NoPlan)
            /\ \A v \in Workers \ {w} : run'[v] = run[v]
        BY <2>2, PointsOf
      <3>2. run'[w].task = run[w].task /\ run'[w].pc = p
        BY <3>1 DEF Locals
      <3>3. run[w].task \in Tasks
        BY <1>3 DEF FetchRow, TypeOK
      <3> QED BY <3>1, <3>2, <3>3 DEF Posts
    <2> QED BY <1>3, <2>1, <2>2 DEF FetchRow
  <1>4. CASE PlanBackfill(w)
    <2>1. PICK f \in Plans : run' = [run EXCEPT ![w] =
                                 Locals(run[w].task, run[w].row, AfterPlan, Missing, f)]
      BY <1>4 DEF PlanBackfill, TypeOK
    <2>2. /\ run'[w] = Locals(run[w].task, run[w].row, AfterPlan, Missing, f)
          /\ \A v \in Workers \ {w} : run'[v] = run[v]
      BY <2>1, PointsOf
    <2>3. run'[w].task = run[w].task /\ run'[w].pc \in {"status", "write"}
      BY <2>2 DEF Locals, AfterPlan
    <2> QED BY <1>4, <2>2, <2>3 DEF PlanBackfill, Posts
  <1>5. CASE WriteChunk(w)
    <2>1. CASE \E p \in {"mark", "broken"} : run' = [run EXCEPT ![w].pc = p]
      BY <2>1, StepPosts DEF Moved, Points
    <2>2. ASSUME NEW docs, NEW p \in {"dream", "write"},
                 run' = [run EXCEPT ![w] = Locals(run[w].task, run[w].row, p,
                                             docs, run[w].restore)]
          PROVE  Posts'
      <3>1. /\ run'[w] = Locals(run[w].task, run[w].row, p, docs, run[w].restore)
            /\ \A v \in Workers \ {w} : run'[v] = run[v]
        BY <2>2, PointsOf
      <3>2. run'[w].task = run[w].task /\ run'[w].pc = p
        BY <3>1 DEF Locals
      <3> QED BY <1>5, <3>1, <3>2 DEF WriteChunk, Posts
    <2> QED BY <1>5, <2>1, <2>2 DEF WriteChunk, TypeOK
  <1>6. CASE CheckRejoined(w)
    BY <1>6, StepPosts DEF CheckRejoined, Retract, Moved, Points
  <1>7. CASE RetractUnlocked(w)
    BY <1>1, <1>7 DEF RetractUnlocked
  <1>8. CASE FileDream(w) \/ WriteCompleted(w) \/ WriteFailed(w) \/ Retry(w)
             \/ HandlerRaises(w) \/ StatusLost(w)
    <2>1. \E p \in Points \ {"plan", "write", "remove"} : run' = [run EXCEPT ![w].pc = p]
      BY <1>8 DEF FileDream, WriteCompleted, WriteFailed, Retry, HandlerRaises,
                  StatusLost, AfterFailing, Step, Points
    <2> QED BY <2>1, StepPosts DEF Moved
  <1>9. CASE MarkRow(w) \/ GiveUp(w) \/ Release(w) \/ Crash(w)
    BY <1>1, <1>9, StepPosts DEF MarkRow, GiveUp, Release, Crash, Resting, Moved
  <1> QED
    BY <1>2, <1>3, <1>4, <1>5, <1>6, <1>7, <1>8, <1>9 DEF Work, Mishap

\* The steps that are no worker's touch no worker.
LEMMA OthersRunNothing ==
  ASSUME [Next]_vars,
         ~\E w \in Workers : Work(w) \/ Mishap(w) \/ \E t \in Tasks : ClaimTask(w, t)
  PROVE  run' = run
  <1> USE DEF docVars, queueVars, sendVars, history
  <1>1. CASE Ingest \/ DropBatch
    BY <1>1 DEF Ingest, Send, File, FetchBatch, SaveSelf, SaveScope, DropBatch
  <1>2. ASSUME NEW c \in Callers, Change(c) \/ Request(c) \/ Abandon(c)
        PROVE  run' = run
    BY <1>2 DEF Change, AddSession, RemoveSession, RemoveSessions, Request,
                LookForMessages, CheckTask, InsertBackfill, InsertRemoval, Abandon
  <1>3. CASE \/ \E t \in Tasks : ExpireClaim(t)
             \/ \E m \in Messages, c \in CopyIds : Sweep(m, c)
             \/ DreamBegins \/ DreamEnds \/ UNCHANGED vars
    BY <1>3 DEF ExpireClaim, Sweep, DreamBegins, DreamEnds, vars
  <1> QED BY <1>1, <1>2, <1>3 DEF Next

LEMMA PostsStep ==
  ASSUME TypeOK, JoinedInv, Posts, [Next]_vars
  PROVE  Posts'
  <1>1. CASE run' = run
    BY <1>1 DEF Posts
  <1> QED BY <1>1, OthersRunNothing, WorkPosts

\* Only the deriver touches the messages it has in hand and their documents.
LEMMA OthersIngestNothing ==
  ASSUME [Next]_vars, ~(Ingest \/ DropBatch)
  PROVE  UNCHANGED <<message, batch, sources>>
  <1> USE DEF docVars, queueVars, sendVars, history
  <1>1. ASSUME NEW c \in Callers, Change(c) \/ Request(c) \/ Abandon(c)
        PROVE  UNCHANGED <<message, batch, sources>>
    BY <1>1 DEF Change, AddSession, RemoveSession, RemoveSessions, Request,
                LookForMessages, CheckTask, InsertBackfill, InsertRemoval, Abandon
  <1>2. ASSUME NEW w \in Workers, Work(w) \/ Mishap(w) \/ \E t \in Tasks : ClaimTask(w, t)
        PROVE  UNCHANGED <<message, batch, sources>>
    <2>1. CASE \E t \in Tasks : ClaimTask(w, t)
      BY <2>1 DEF ClaimTask
    <2>2. CASE FetchRow(w) \/ PlanBackfill(w) \/ FileDream(w) \/ WriteCompleted(w)
      BY <2>2 DEF FetchRow, PlanBackfill, FileDream, WriteCompleted
    <2>3. CASE MarkRow(w) \/ WriteFailed(w) \/ Retry(w) \/ GiveUp(w) \/ Release(w)
      BY <2>3 DEF MarkRow, WriteFailed, Retry, GiveUp, Release
    <2>4. CASE Mishap(w)
      BY <2>4 DEF Mishap, HandlerRaises, StatusLost, Crash
    <2>5. CASE WriteChunk(w) \/ CheckRejoined(w) \/ RetractUnlocked(w)
      BY <2>5 DEF WriteChunk, CheckRejoined, RetractUnlocked
    <2> QED BY <1>2, <2>1, <2>2, <2>3, <2>4, <2>5 DEF Work
  <1>3. CASE \/ \E t \in Tasks : ExpireClaim(t)
             \/ \E m \in Messages, c \in CopyIds : Sweep(m, c)
             \/ DreamBegins \/ DreamEnds \/ UNCHANGED vars
    BY <1>3 DEF ExpireClaim, Sweep, DreamBegins, DreamEnds, vars
  <1> QED BY <1>1, <1>2, <1>3 DEF Next

LEMMA GroundedStep ==
  ASSUME TypeOK, Grounded, [Next]_vars
  PROVE  Grounded'
  <1> USE DEF docVars, queueVars, sendVars, history
  <1>1. CASE ~(Ingest \/ DropBatch)
    BY <1>1, OthersIngestNothing DEF Grounded
  <1>2. ASSUME NEW m \in Messages, Send(m) \/ File(m) PROVE Grounded'
    BY <1>2 DEF Send, File, Grounded, TypeOK
  <1>3. CASE FetchBatch
    BY <1>3 DEF FetchBatch, Filed, Grounded
  <1>4. CASE SaveSelf
    BY <1>4 DEF SaveSelf, Grounded
  <1>5. CASE SaveScope
    <2>1. \A m \in History : message'[m] = "derived"
      BY <1>5, ScopeAssumption DEF SaveScope, Grounded
    <2> QED BY <1>5, <2>1 DEF SaveScope, Grounded
  <1>6. CASE DropBatch
    BY <1>6 DEF DropBatch, Grounded
  <1> QED BY <1>1, <1>2, <1>3, <1>4, <1>5, <1>6 DEF Ingest

\* A worker that has a row in hand will still do what the row is for.
Will(w) == /\ run[w].pc \notin {"dream", "status", "mark"}
           /\ run[w].pc = "write" => Lacking \subseteq run[w].todo

\* The task stays due in a step of one worker, or of none, unless the step takes a
\* pending row past its work.
LEMMA DueWorker ==
  ASSUME NEW t \in Tasks, NEW w \in Workers, Due(t), call' = call,
         Lacking' \subseteq Lacking,
         \A v \in Workers \ {w} : run'[v] = run[v],
         \A r \in rows[t] : Pending(t, r) =>
           /\ r \in rows'[t]
           /\ run'[w].task = t /\ run'[w].row = r => Will(w)'
  PROVE  Due(t)'
  <1>1. CASE Asked(t)
    BY <1>1 DEF Asked, Due
  <1>2. ASSUME NEW r \in rows[t], Pending(t, r)
        PROVE  Due(t)'
    <2>1. r \in rows'[t]
      BY <1>2
    <2>2. ASSUME NEW v \in Workers, run'[v].task = t, run'[v].row = r
          PROVE  Will(v)'
      <3>1. CASE v = w
        BY <1>2, <2>2, <3>1
      <3>2. CASE v # w
        BY <1>2, <2>2, <3>2 DEF Pending, Will
      <3> QED BY <3>1, <3>2
    <2>3. Pending(t, r)'
      BY <2>2 DEF Pending, Will
    <2> QED BY <2>1, <2>3 DEF Due
  <1> QED BY <1>1, <1>2 DEF Due

\* Or in a step that leaves the workers and the rows alone.
LEMMA DueRequest ==
  ASSUME NEW t \in Tasks, Due(t), run' = run, Lacking' \subseteq Lacking,
         Asked(t) => Asked(t)', rows[t] \subseteq rows'[t]
  PROVE  Due(t)'
  BY DEF Due, Pending

\* A fresh row is in nobody's hand.
LEMMA FreshIsDue ==
  ASSUME NEW t \in Tasks, NEW r, FreshRow(r), r \in rows'[t], run' = run
  PROVE  Due(t)'
  BY DEF FreshRow, Due, Pending

LEMMA SameLacking ==
  ASSUME \A m \in Messages : LiveCopies(m)' = LiveCopies(m)
  PROVE  Lacking' = Lacking
  BY ScopeAssumption DEF Lacking

LEMMA SameCalled ==
  ASSUME \A m \in Messages : LiveCopies(m)' = LiveCopies(m), member' = member,
         NEW t \in Tasks
  PROVE  Called(t)' = Called(t)
  BY SameLacking DEF Called, Member

\* What a step keeps due that is called for after it.
Stays(t) == (Called(t) => Due(t)) /\ Called(t)' => Due(t)' \/ Forgone(t)

LEMMA ChangeStays ==
  ASSUME TypeOK, NEW c \in Callers, Change(c), NEW t \in Tasks
  PROVE  Stays(t)
  <1> USE DEF docVars, queueVars, sendVars, history, Member
  <1>1. CASE AddSession(c)
    <2>1. call'[c] = "added" /\ member' = "in"
      BY <1>1 DEF AddSession, At, TypeOK
    <2>2. Asked("backfill")'
      BY <2>1 DEF Asked
    <2>3. CASE t = "removal"
      BY <2>1, <2>3 DEF Called, Stays
    <2> QED BY <2>2, <2>3 DEF Due, Stays
  <1>2. CASE RemoveSession(c)
    <2>1. call'[c] = "fileRemoval" /\ member' # "in"
      BY <1>2 DEF RemoveSession, At, TypeOK
    <2>2. Asked("removal")'
      BY <2>1 DEF Asked
    <2>3. CASE t = "backfill"
      BY <2>1, <2>3 DEF Called, Stays
    <2> QED BY <2>2, <2>3 DEF Due, Stays
  <1>3. CASE RemoveSessions(c)
    <2>1. member' = "out" /\ run' = run /\ UNCHANGED copies
      BY <1>3 DEF RemoveSessions
    <2>2. CASE t = "backfill"
      BY <2>1, <2>2 DEF Called, Stays
    <2>3. CASE t = "removal"
      <3>1. CASE ~Covered("removal")
        <4>1. PICK r \in RowIds :
                FreshRow(r) /\ rows' = [rows EXCEPT !["removal"] = @ \cup {r}]
          BY <1>3, <3>1 DEF RemoveSessions
        <4>2. r \in rows'["removal"]
          BY <4>1 DEF TypeOK
        <4> QED BY <2>1, <2>3, <4>1, <4>2, FreshIsDue DEF Stays
      <3>2. ASSUME NEW r \in rows[t], Pending(t, r), rows' = rows
            PROVE  Due(t)'
        <4>1. Lacking' = Lacking
          BY <2>1, SameLacking DEF LiveCopies
        <4> QED BY <2>1, <3>2, <4>1 DEF Due, Pending
      <3>3. CASE Covered("removal") /\ \A r \in rows[t] : ~Pending(t, r)
        BY <1>3, <2>3, <3>3 DEF LeavesOut, Forgone, Stays
      <3> QED BY <1>3, <2>3, <3>1, <3>2, <3>3 DEF RemoveSessions, Stays
    <2> QED BY <2>2, <2>3
  <1> QED BY <1>1, <1>2, <1>3 DEF Change

LEMMA RequestStays ==
  ASSUME TypeOK, Grounded, NEW c \in Callers, Request(c) \/ Abandon(c),
         NEW t \in Tasks
  PROVE  Stays(t)
  <1> USE DEF docVars, queueVars, sendVars, history
  <1>1. /\ run' = run /\ UNCHANGED <<member, copies>>
        /\ \A d \in Callers \ {c} : call'[d] = call[d]
    BY DEF Request, LookForMessages, CheckTask, InsertBackfill, InsertRemoval, Abandon,
           At, TypeOK
  <1>2. Lacking' = Lacking /\ Called(t)' = Called(t)
    BY <1>1, SameLacking, SameCalled DEF LiveCopies
  <1>3. SUFFICES ASSUME Called(t), Due(t) PROVE Due(t)' \/ Forgone(t)
    BY <1>2 DEF Stays
  <1> DEFINE Asking == IF t = "backfill" THEN {"added", "fileBackfill", "insertBackfill"}
                       ELSE {"fileRemoval", "insertRemoval"}
  <1>4. ASSUME call[c] \in Asking => call'[c] \in Asking
        PROVE  Asked(t) => Asked(t)'
    BY <1>1, <1>4 DEF Asked
  <1>5. CASE Abandon(c)
    BY <1>5 DEF Forgone
  <1>6. CASE LookForMessages(c)
    <2>1. t = "backfill" => \E m \in Messages : message[m] # "none"
      <3>1. t = "backfill" => \E m \in History : TRUE
        BY <1>3 DEF Called, Lacking
      <3> QED BY <3>1, ScopeAssumption DEF Grounded
    <2>2. call[c] = "added" /\ (t = "backfill" => call'[c] = "fileBackfill")
      BY <1>6, <2>1 DEF LookForMessages, At, TypeOK
    <2>3. Asked(t) => Asked(t)'
      BY <1>4, <2>2
    <2> QED BY <1>1, <1>2, <1>3, <1>6, <2>3, DueRequest DEF LookForMessages
  <1>7. CASE CheckTask(c)
    <2>1. CASE Covered(t) /\ call[c] = IF t = "backfill" THEN "fileBackfill" ELSE "fileRemoval"
      <3>1. ASSUME NEW r \in rows[t], Pending(t, r)
            PROVE  Due(t)'
        BY <1>1, <1>2, <1>7, <3>1 DEF CheckTask, Due, Pending
      <3>2. CASE \A r \in rows[t] : ~Pending(t, r)
        BY <1>7, <2>1, <3>2 DEF LeavesOut, Forgone
      <3> QED BY <3>1, <3>2
    <2>2. CASE ~Covered(t) \/ call[c] # IF t = "backfill" THEN "fileBackfill" ELSE "fileRemoval"
      <3>1. call[c] \in Asking => call'[c] \in Asking
        BY <1>7, <2>2 DEF CheckTask, At, TypeOK
      <3>2. Asked(t) => Asked(t)'
        BY <1>4, <3>1
      <3> QED BY <1>1, <1>2, <1>3, <1>7, <3>2, DueRequest DEF CheckTask
    <2> QED BY <2>1, <2>2
  <1>8. ASSUME NEW u \in Tasks, NEW r \in RowIds, FreshRow(r),
               rows' = [rows EXCEPT ![u] = @ \cup {r}],
               call[c] = IF u = "backfill" THEN "insertBackfill" ELSE "insertRemoval"
        PROVE  Due(t)'
    <2>1. CASE u = t
      <3>1. r \in rows'[t]
        BY <1>8, <2>1 DEF TypeOK
      <3> QED BY <1>1, <1>8, <3>1, FreshIsDue
    <2>2. CASE u # t
      <3>1. call[c] \notin Asking
        BY <1>8, <2>2
      <3>2. rows'[t] = rows[t]
        BY <1>8, <2>2 DEF TypeOK
      <3>3. Asked(t) => Asked(t)'
        BY <1>4, <3>1
      <3> QED BY <1>1, <1>2, <1>3, <3>2, <3>3, DueRequest
    <2> QED BY <2>1, <2>2
  <1>9. CASE InsertBackfill(c)
    <2>1. \E r \in RowIds : FreshRow(r) /\ rows' = [rows EXCEPT !["backfill"] = @ \cup {r}]
      BY <1>9 DEF InsertBackfill
    <2>2. call[c] = "insertBackfill"
      BY <1>9 DEF InsertBackfill, At
    <2> QED BY <1>8, <2>1, <2>2
  <1>10. CASE InsertRemoval(c)
    <2>1. \E r \in RowIds : FreshRow(r) /\ rows' = [rows EXCEPT !["removal"] = @ \cup {r}]
      BY <1>10 DEF InsertRemoval
    <2>2. call[c] = "insertRemoval"
      BY <1>10 DEF InsertRemoval, At
    <2> QED BY <1>8, <2>1, <2>2
  <1> QED BY <1>5, <1>6, <1>7, <1>9, <1>10 DEF Request

\* A worker that goes on, and leaves the documents alone.
LEMMA StepStays ==
  ASSUME TypeOK, NEW w \in Workers, NEW t \in Tasks,
         UNCHANGED <<member, copies, rows, call>>,
         \/ \E p \in Points \ {"write"} :
              /\ run' = [run EXCEPT ![w].pc = p]
              /\ p \in {"dream", "status", "mark"}
                   => run[w].pc \in {"dream", "status", "mark"}
         \/ \E u \in Tasks \cup {None}, p \in {"idle", "fetch"} :
              run' = [run EXCEPT ![w] = Between(u, p)]
  PROVE  Stays(t)
  <1>1. Lacking' = Lacking /\ Called(t)' = Called(t)
    BY SameLacking, SameCalled DEF LiveCopies
  <1>2. SUFFICES ASSUME Due(t) PROVE Due(t)'
    BY <1>1 DEF Stays
  <1>3. \A v \in Workers \ {w} : run'[v] = run[v]
    BY PointsOf
  <1>4. ASSUME NEW r \in rows[t], Pending(t, r), run'[w].task = t, run'[w].row = r
        PROVE  Will(w)'
    <2>1. ASSUME NEW p \in Points \ {"write"}, run' = [run EXCEPT ![w].pc = p],
                 p \in {"dream", "status", "mark"}
                   => run[w].pc \in {"dream", "status", "mark"}
          PROVE  Will(w)'
      <3>1. run'[w].pc = p /\ run'[w].task = run[w].task /\ run'[w].row = run[w].row
        BY <2>1, SMTT(30) DEF TypeOK, Runs
      <3> QED BY <1>4, <2>1, <3>1 DEF Pending, Will
    <2>2. ASSUME NEW u, NEW p \in {"idle", "fetch"}, run' = [run EXCEPT ![w] = Between(u, p)]
          PROVE  Will(w)'
      <3>1. run'[w] = Between(u, p)
        BY <2>2, PointsOf
      <3>2. run'[w].pc = p
        BY <3>1 DEF Between, Locals
      <3> QED BY <3>2 DEF Will
    <2> QED BY <2>1, <2>2
  <1> QED BY <1>1, <1>2, <1>3, <1>4, DueWorker

\* A row that is marked is not pending: its handler is past its work.
LEMMA MarkStays ==
  ASSUME TypeOK, NEW w \in Workers, NEW t \in Tasks, MarkRow(w) \/ GiveUp(w)
  PROVE  Stays(t)
  <1> USE DEF docVars, queueVars, sendVars, history
  <1>1. /\ UNCHANGED <<member, copies, call>>
        /\ run' = [run EXCEPT ![w] = Between(run[w].task, "fetch")]
        /\ rows' = [rows EXCEPT ![run[w].task] = @ \ {run[w].row}]
    BY DEF MarkRow, GiveUp
  <1>2. CASE GiveUp(w) /\ run[w].task = t
    BY <1>2 DEF Forgone, Stays
  <1>3. CASE MarkRow(w) \/ run[w].task # t
    <2>1. Lacking' = Lacking /\ Called(t)' = Called(t)
      BY <1>1, SameLacking, SameCalled DEF LiveCopies
    <2>2. /\ \A v \in Workers \ {w} : run'[v] = run[v]
          /\ run'[w] = Between(run[w].task, "fetch")
      BY <1>1, PointsOf
    <2>3. run'[w].pc = "fetch"
      BY <2>2 DEF Between, Locals
    <2>4. ASSUME NEW r \in rows[t], Pending(t, r)
          PROVE  r \in rows'[t]
      <3>1. CASE run[w].task # t
        BY <1>1, <3>1 DEF TypeOK
      <3>2. CASE run[w].task = t /\ MarkRow(w)
        <4>1. r # run[w].row
          BY <2>4, <3>2 DEF MarkRow, Pending
        <4> QED BY <1>1, <4>1 DEF TypeOK
      <3> QED BY <1>3, <3>1, <3>2
    <2>5. ASSUME Due(t) PROVE Due(t)'
      BY <1>1, <2>1, <2>2, <2>3, <2>4, <2>5, DueWorker DEF Will
    <2> QED BY <2>1, <2>5 DEF Stays
  <1> QED BY <1>2, <1>3

LEMMA PlanStays ==
  ASSUME TypeOK, Posts, Grounded, NEW w \in Workers, NEW t \in Tasks, PlanBackfill(w)
  PROVE  Stays(t)
  <1>1. /\ UNCHANGED <<member, copies, rows, call>> /\ run[w].task = "backfill"
    BY DEF PlanBackfill, Posts, docVars, queueVars
  <1>2. PICK f \in Plans :
          run' = [run EXCEPT ![w] = Locals(run[w].task, run[w].row, AfterPlan, Missing, f)]
    BY DEF PlanBackfill, TypeOK
  <1>3. /\ run'[w] = Locals(run[w].task, run[w].row, AfterPlan, Missing, f)
        /\ \A v \in Workers \ {w} : run'[v] = run[v]
    BY <1>2, PointsOf
  <1>4. /\ run'[w].task = run[w].task /\ run'[w].pc = AfterPlan
        /\ run'[w].todo = Missing
    BY <1>3 DEF Locals
  <1>5. Lacking \subseteq Missing
    BY DEF Lacking, Missing, Grounded
  <1>6. Lacking' = Lacking /\ Called(t)' = Called(t)
    BY <1>1, SameLacking, SameCalled DEF LiveCopies
  <1>7. CASE t = "backfill" /\ Missing = {}
    BY <1>5, <1>6, <1>7 DEF Called, Stays
  <1>8. CASE t # "backfill" \/ Missing # {}
    <2>1. run'[w].task = t => Will(w)'
      BY <1>1, <1>4, <1>5, <1>6, <1>8 DEF Will, AfterPlan
    <2>2. ASSUME Due(t) PROVE Due(t)'
      BY <1>1, <1>3, <1>6, <2>1, <2>2, DueWorker
    <2> QED BY <1>6, <2>2 DEF Stays
  <1> QED BY <1>7, <1>8

LEMMA FetchStays ==
  ASSUME TypeOK, NEW w \in Workers, NEW t \in Tasks, FetchRow(w)
  PROVE  Stays(t)
  <1>1. UNCHANGED <<member, copies, rows, call>>
    BY DEF FetchRow, docVars, queueVars
  <1>2. CASE run' = [run EXCEPT ![w].pc = "release"]
    <2>1. "release" \in Points \ {"write"}
      BY DEF Points
    <2> QED BY <1>1, <1>2, <2>1, StepStays
  <1>3. ASSUME NEW r, NEW p \in {"plan", "remove"},
               run' = [run EXCEPT ![w] = Locals(run[w].task, r, p, {}, NoPlan)]
        PROVE  Stays(t)
    <2>1. /\ run'[w] = Locals(run[w].task, r, p, {}, NoPlan)
          /\ \A v \in Workers \ {w} : run'[v] = run[v]
      BY <1>3, PointsOf
    <2>2. run'[w].pc = p
      BY <2>1 DEF Locals
    <2>3. Will(w)'
      BY <2>2 DEF Will
    <2>4. Lacking' = Lacking /\ Called(t)' = Called(t)
      BY <1>1, SameLacking, SameCalled DEF LiveCopies
    <2>5. ASSUME Due(t) PROVE Due(t)'
      BY <1>1, <2>1, <2>3, <2>4, <2>5, DueWorker
    <2> QED BY <2>4, <2>5 DEF Stays
  <1> QED BY <1>2, <1>3 DEF FetchRow

\* A chunk is written for good: what it held is lacking no more.
LEMMA ChunkLacks ==
  ASSUME NEW chunk, NEW f \in [chunk -> CopyIds],
         copies' = [d \in Messages \X CopyIds |->
                      IF d[1] \in chunk /\ f[d[1]] = d[2] THEN "live" ELSE copies[d]]
  PROVE  Lacking' \subseteq Lacking \ chunk
  <1>1. \A m \in Messages, c \in CopyIds :
          copies'[m, c] = IF m \in chunk /\ f[m] = c THEN "live" ELSE copies[m, c]
    OBVIOUS
  <1>2. \A m \in Messages : /\ LiveCopies(m) \subseteq LiveCopies(m)'
                            /\ m \in chunk => f[m] \in LiveCopies(m)'
    BY <1>1 DEF LiveCopies
  <1> QED BY <1>2, ScopeAssumption DEF Lacking

LEMMA WriteStays ==
  ASSUME TypeOK, Posts, NEW w \in Workers, NEW t \in Tasks, WriteChunk(w)
  PROVE  Stays(t)
  <1> USE DEF queueVars, sendVars
  <1>1. /\ UNCHANGED <<member, rows, call>>
        /\ run[w].pc = "write" /\ run[w].task = "backfill"
    BY DEF WriteChunk, Posts
  <1>2. ASSUME NEW p \in {"mark", "broken"}, run' = [run EXCEPT ![w].pc = p],
               copies' = copies, p = "mark" => ~Member
        PROVE  Stays(t)
    <2>1. /\ run'[w].pc = p /\ run'[w].task = "backfill"
          /\ \A v \in Workers \ {w} : run'[v] = run[v]
      BY <1>1, <1>2, SMTT(30) DEF TypeOK, Runs, Points
    <2>2. Lacking' = Lacking /\ Called(t)' = Called(t)
      BY <1>1, <1>2, SameLacking, SameCalled DEF LiveCopies
    <2>3. CASE t = "backfill" /\ p = "mark"
      BY <1>2, <2>2, <2>3 DEF Called, Stays
    <2>4. CASE t # "backfill" \/ p = "broken"
      <3>1. run'[w].task = t => Will(w)'
        BY <2>1, <2>4 DEF Will
      <3>2. ASSUME Due(t) PROVE Due(t)'
        BY <1>1, <2>1, <2>2, <3>1, <3>2, DueWorker
      <3> QED BY <2>2, <3>2 DEF Stays
    <2> QED BY <1>2, <2>3, <2>4
  <1>3. ASSUME StillMember, NEW chunk \in Chunks(run[w].todo), NEW f \in Written(w, chunk),
               copies' = [d \in Messages \X CopyIds |->
                            IF d[1] \in chunk /\ f[d[1]] = d[2] THEN "live"
                            ELSE copies[d]],
               NEW p, p = IF run[w].todo = chunk THEN "dream" ELSE "write",
               run' = [run EXCEPT ![w] = Locals(run[w].task, run[w].row, p,
                                           run[w].todo \ chunk, run[w].restore)]
        PROVE  Stays(t)
    <2>1. Lacking' \subseteq Lacking \ chunk
      BY <1>3, ChunkLacks DEF Written
    <2>2. /\ run'[w] = Locals(run[w].task, run[w].row, p, run[w].todo \ chunk, run[w].restore)
          /\ \A v \in Workers \ {w} : run'[v] = run[v]
      <3>1. run' = [run EXCEPT ![w] = Locals(run[w].task, run[w].row, p,
                                        run[w].todo \ chunk, run[w].restore)]
        BY <1>3
      <3> QED BY <3>1, PointsOf
    <2>3. /\ run'[w].task = run[w].task /\ run'[w].row = run[w].row /\ run'[w].pc = p
          /\ run'[w].todo = run[w].todo \ chunk
      BY <2>2 DEF Locals
    <2>4. CASE t = "removal" \/ Lacking' = {}
      BY <1>1, <1>3, <2>4 DEF Called, Stays, StillMember, Member
    <2>5. CASE t = "backfill" /\ Lacking' # {}
      <3>1. Called(t)' => Called(t)
        BY <1>1, <2>1, <2>5 DEF Called, Member
      <3>2. ASSUME NEW r \in rows[t], Pending(t, r), run'[w].task = t, run'[w].row = r
            PROVE  Will(w)'
        <4>1. Lacking \subseteq run[w].todo
          BY <1>1, <2>3, <3>2 DEF Pending
        <4>2. Lacking' \subseteq run'[w].todo
          BY <2>1, <2>3, <4>1
        <4>3. p = "write"
          BY <1>3, <2>1, <2>5, <4>1
        <4> QED BY <2>3, <4>2, <4>3 DEF Will
      <3>3. ASSUME Due(t) PROVE Due(t)'
        BY <1>1, <2>1, <2>2, <3>2, <3>3, DueWorker
      <3> QED BY <3>1, <3>3 DEF Stays
    <2> QED BY <2>4, <2>5
  <1>4. CASE ~StillMember
    BY <1>2, <1>4 DEF WriteChunk, StillMember
  <1>5. CASE StillMember
    <2>1. CASE run' = [run EXCEPT ![w].pc = "broken"] /\ copies' = copies
      BY <1>2, <2>1
    <2>2. ASSUME NEW chunk \in Chunks(run[w].todo), NEW f \in Written(w, chunk),
                 copies' = [d \in Messages \X CopyIds |->
                              IF d[1] \in chunk /\ f[d[1]] = d[2] THEN "live"
                              ELSE copies[d]],
                 LET p == IF run[w].todo = chunk THEN "dream" ELSE "write"
                 IN  run' = [run EXCEPT ![w] = Locals(run[w].task, run[w].row, p,
                                                 run[w].todo \ chunk, run[w].restore)]
          PROVE  Stays(t)
      BY <1>3, <1>5, <2>2
    <2> QED BY <1>5, <2>1, <2>2 DEF WriteChunk, TypeOK
  <1> QED BY <1>4, <1>5

LEMMA RemovalStays ==
  ASSUME TypeOK, JoinedInv, Posts, NEW w \in Workers, NEW t \in Tasks, CheckRejoined(w)
  PROVE  Stays(t)
  <1> USE DEF queueVars, sendVars
  <1>1. /\ UNCHANGED <<member, rows, call>>
        /\ run[w].pc = "remove" /\ run[w].task = "removal"
    BY DEF CheckRejoined, Posts
  <1>2. CASE Rejoined
    <2>1. run' = [run EXCEPT ![w].pc = "mark"] /\ copies' = copies
      BY <1>2 DEF CheckRejoined
    <2>2. CASE t = "removal"
      BY <1>1, <1>2, <2>2 DEF Rejoined, Called, Stays, Member
    <2>3. CASE t = "backfill"
      <3>1. /\ run'[w].task = "removal" /\ \A v \in Workers \ {w} : run'[v] = run[v]
        BY <1>1, <2>1, SMTT(30) DEF TypeOK, Runs, Points
      <3>2. Lacking' = Lacking /\ Called(t)' = Called(t)
        BY <1>1, <2>1, SameLacking, SameCalled DEF LiveCopies
      <3>3. ASSUME Due(t) PROVE Due(t)'
        BY <1>1, <2>3, <3>1, <3>2, <3>3, DueWorker
      <3> QED BY <3>2, <3>3 DEF Stays
    <2> QED BY <2>2, <2>3
  <1>3. CASE ~Rejoined
    <2>1. Retract(w)
      BY <1>3 DEF CheckRejoined, JoinedInv
    <2>2. \A m \in Messages : LiveCopies(m)' = {}
      BY <2>1 DEF Retract, LiveCopies
    <2> QED BY <1>1, <1>3, <2>2 DEF Rejoined, Called, Stays, Member
  <1> QED BY <1>2, <1>3

LEMMA WorkStays ==
  ASSUME TypeOK, JoinedInv, Posts, Grounded, NEW w \in Workers, NEW t \in Tasks,
         Work(w) \/ Mishap(w) \/ \E u \in Tasks : ClaimTask(w, u)
  PROVE  Stays(t)
  <1> USE DEF docVars, queueVars, sendVars, history
  <1>1. run[w].task \in Tasks \cup {None} /\ run[w].pc # "delete"
    BY SMTT(30) DEF TypeOK, Runs, JoinedInv
  <1>2. CASE \/ \E u \in Tasks : ClaimTask(w, u)
             \/ Release(w) \/ Crash(w)
    <2>1. UNCHANGED <<member, copies, rows, call>>
      BY <1>2 DEF ClaimTask, Release, Crash
    <2>2. \E u \in Tasks \cup {None}, p \in {"idle", "fetch"} :
            run' = [run EXCEPT ![w] = Between(u, p)]
      BY <1>2 DEF ClaimTask, Release, Crash, Resting
    <2> QED BY <2>1, <2>2, StepStays
  <1>3. CASE FileDream(w) \/ WriteCompleted(w) \/ WriteFailed(w) \/ Retry(w)
             \/ HandlerRaises(w) \/ StatusLost(w)
    <2>1. UNCHANGED <<member, copies, rows, call>>
      BY <1>3 DEF FileDream, WriteCompleted, WriteFailed, Retry, HandlerRaises, StatusLost
    <2>2. \E p \in Points \ {"write"} :
             /\ run' = [run EXCEPT ![w].pc = p]
             /\ p \in {"dream", "status", "mark"}
                  => run[w].pc \in {"dream", "status", "mark"}
      BY <1>3 DEF FileDream, WriteCompleted, WriteFailed, Retry, HandlerRaises,
                  StatusLost, AfterFailing, Step, Points
    <2> QED BY <2>1, <2>2, StepStays
  <1>4. CASE RetractUnlocked(w)
    BY <1>1, <1>4 DEF RetractUnlocked
  <1> QED
    BY <1>2, <1>3, <1>4, FetchStays, PlanStays, WriteStays, RemovalStays, MarkStays
    DEF Work, Mishap

\* Messages, the clock, the reconciler and the dreams leave the tasks alone.
LEMMA OthersStay ==
  ASSUME TypeOK, NEW t \in Tasks,
         \/ Ingest \/ DropBatch
         \/ \E u \in Tasks : ExpireClaim(u)
         \/ \E m \in Messages, c \in CopyIds : Sweep(m, c)
         \/ DreamBegins \/ DreamEnds \/ UNCHANGED vars
  PROVE  Stays(t)
  <1> USE DEF docVars, queueVars, sendVars, history
  <1>1. UNCHANGED <<member, rows, run, call>>
    BY DEF Ingest, Send, File, FetchBatch, SaveSelf, SaveScope, DropBatch, ExpireClaim,
           Sweep, DreamBegins, DreamEnds, vars
  <1>2. \A m \in Messages : LiveCopies(m)' = LiveCopies(m)
    <2>1. CASE copies' = copies
      BY <2>1 DEF LiveCopies
    <2>2. ASSUME NEW m \in Messages, NEW c \in CopyIds, Sweep(m, c)
          PROVE  \A n \in Messages : LiveCopies(n)' = LiveCopies(n)
      <3>1. /\ copies[<<m, c>>] = "deleted"
            /\ copies' = [copies EXCEPT ![<<m, c>>] = "none"]
        BY <2>2 DEF Sweep
      <3>2. \A d \in Messages \X CopyIds : copies'[d] = "live" <=> copies[d] = "live"
        BY <3>1 DEF TypeOK
      <3> QED BY <3>2 DEF LiveCopies
    <2>3. (~\E m \in Messages, c \in CopyIds : Sweep(m, c)) => copies' = copies
      BY DEF Ingest, Send, File, FetchBatch, SaveSelf, SaveScope, DropBatch, ExpireClaim,
             DreamBegins, DreamEnds, vars
    <2> QED BY <2>1, <2>2, <2>3
  <1>3. Lacking' = Lacking /\ Called(t)' = Called(t)
    BY <1>1, <1>2, SameLacking, SameCalled
  <1>4. Asked(t)' = Asked(t)
    BY <1>1 DEF Asked
  <1> QED BY <1>1, <1>3, <1>4, DueRequest DEF Stays

\* A task that is called for stays due in every step that does not forgo it.
LEMMA DueStep ==
  ASSUME TypeOK, JoinedInv, Posts, Grounded, [Next]_vars, NEW t \in Tasks
  PROVE  Stays(t)
  BY ChangeStays, RequestStays, WorkStays, OthersStay DEF Next

\* What every reachable state of a session with a membership row satisfies.
JoinedAll == JoinedInv /\ Posts /\ Grounded

LEMMA JoinedAllInit == JoinedInit => JoinedAll
  <1>1. Resting.pc = "idle"
    BY DEF Resting, Between, Locals
  <1> QED
    BY <1>1, ScopeAssumption DEF Init, JoinedInit, JoinedAll, JoinedInv, Posts, Grounded

LEMMA JoinedAllStep == TypeOK /\ JoinedAll /\ [Next]_vars => JoinedAll'
  BY JoinedStep, PostsStep, GroundedStep DEF JoinedAll

\* A task the membership calls for stays due, for any number of messages, requests
\* and workers, of changes, stalls, crashes and failures, until it has done its
\* work, unless its request dies, leaves it out for covered or its row is given
\* up: what crud/scope.py files, deriver/enqueue.py may drop and the queue may
\* lose, against what scope_backfill.py still has to do.
THEOREM DueStaysHolds == JoinedSpec => DueStays
  <1>1. TypeOK /\ JoinedAll /\ [Next]_vars
          => [\A t \in Tasks : (Called(t) => Due(t)) /\ Called(t)'
                                  => Due(t)' \/ Forgone(t)]_vars
    BY DueStep DEF JoinedAll, Stays
  <1>2. JoinedSpec => Spec
    BY DEF JoinedSpec, JoinedInit, Spec
  <1> QED
    BY <1>1, <1>2, JoinedAllInit, JoinedAllStep, TypeCorrect, PTL DEF JoinedSpec, DueStays

AllDue == \A t \in Tasks : Called(t) => Due(t)

LEMMA DueConverges == AllDue => Converged
  <1> SUFFICES ASSUME AllDue, Reconciled PROVE InStep
    BY DEF Converged
  <1>1. \A t \in Tasks : ~Due(t)
    BY DEF Reconciled, Due, Asked
  <1>2. ~Called("backfill") /\ ~Called("removal")
    BY <1>1 DEF AllDue
  <1> QED BY <1>2 DEF Called, InStep, InScope, Lacking

LEMMA InitDue == JoinedInit => AllDue
  BY DEF JoinedInit, Init, AllDue, Called, Lacking, Member, LiveCopies

Forgoes == \E t \in Tasks : Forgone(t)

\* So where no request dies or leaves its task out and no row is given up, the
\* scope is in step with the membership whenever everything is done, however many
\* changes, stalls, crashes and failures there were.
THEOREM ConvergesUnlessForgone == JoinedSpec /\ [][~Forgoes]_vars => []Converged
  <1>1. TypeOK /\ JoinedAll /\ AllDue /\ [Next]_vars /\ [~Forgoes]_vars => AllDue'
    <2> SUFFICES ASSUME TypeOK, JoinedAll, AllDue, [Next]_vars, [~Forgoes]_vars,
                        NEW t \in Tasks, Called(t)'
                 PROVE  Due(t)'
      BY DEF AllDue
    <2>1. Stays(t)
      BY DueStep DEF JoinedAll
    <2>2. CASE ~Forgoes
      BY <2>1, <2>2 DEF Stays, AllDue, Forgoes
    <2>3. CASE UNCHANGED vars
      <3>1. UNCHANGED <<member, copies, rows, run, call>>
        BY <2>3 DEF vars
      <3>2. Lacking' = Lacking /\ Called(t)' = Called(t)
        BY <3>1, SameLacking, SameCalled DEF LiveCopies
      <3>3. Asked(t)' = Asked(t)
        BY <3>1 DEF Asked
      <3> QED BY <3>1, <3>2, <3>3, DueRequest DEF AllDue
    <2> QED BY <2>2, <2>3
  <1>2. JoinedSpec => Spec
    BY DEF JoinedSpec, JoinedInit, Spec
  <1> QED
    BY <1>1, <1>2, InitDue, DueConverges, JoinedAllInit, JoinedAllStep, TypeCorrect, PTL
    DEF JoinedSpec

-----------------------------------------------------------------------------
(* With two changes at most nothing is left out. *)

Asks(t) == IF t = "backfill" THEN {"added", "fileBackfill", "insertBackfill"}
           ELSE {"fileRemoval", "insertRemoval"}

\* A request, a row, a claim or a worker of the task.
Traces(t) == \/ \E c \in Callers : call[c] \in Asks(t)
             \/ rows[t] # {} \/ claim[t] # None
             \/ \E w \in Workers : run[w].task = t

Untouched == \A d \in Messages \X CopyIds : copies[d] = "none"

\* Before the first change there is nothing, and before the second the tasks of
\* one kind only.
FewTraces ==
  /\ left["change"] <= 2
  /\ left["change"] = 2 => Untouched /\ \A t \in Tasks : ~Traces(t)
  /\ left["change"] >= 1 =>
       /\ ~Traces("backfill") \/ ~Traces("removal")
       /\ Member \/ (Untouched /\ ~Traces("backfill"))
       /\ Untouched \/ ~Traces("removal")

LEMMA Spending ==
  ASSUME [Next]_vars
  PROVE  left' = left \/ \E e \in Events : /\ Spend(e)
                                           /\ e = "change" => \E c \in Callers : Change(c)
  <1> DEFINE Goal == left' = left \/ \E e \in Events :
                       Spend(e) /\ (e = "change" => \E c \in Callers : Change(c))
  <1>1. CASE Ingest \/ DropBatch
    <2>1. left' = left \/ Spend("failure") \/ Spend("crash")
      BY <1>1 DEF Ingest, Send, File, FetchBatch, SaveSelf, SaveScope, DropBatch
    <2> QED BY <2>1
  <1>2. ASSUME NEW c \in Callers, Change(c) PROVE Goal
    <2>1. Spend("change")
      BY <1>2 DEF Change, AddSession, RemoveSession, RemoveSessions
    <2> QED BY <1>2, <2>1
  <1>3. ASSUME NEW c \in Callers, Request(c) \/ Abandon(c) PROVE Goal
    <2>1. left' = left \/ Spend("abandon")
      BY <1>3 DEF Request, LookForMessages, CheckTask, InsertBackfill, InsertRemoval, Abandon
    <2> QED BY <2>1
  <1>4. ASSUME NEW w \in Workers, Work(w) \/ Mishap(w) \/ \E t \in Tasks : ClaimTask(w, t)
        PROVE  Goal
    <2>1. left' = left \/ Spend("giveUp") \/ Spend("failure") \/ Spend("crash")
      BY <1>4 DEF Work, Mishap, ClaimTask, FetchRow, PlanBackfill, WriteChunk, CheckRejoined,
                  RetractUnlocked, FileDream, WriteCompleted, MarkRow, WriteFailed, Retry,
                  GiveUp, Release, HandlerRaises, StatusLost, Crash
    <2> QED BY <2>1
  <1>5. CASE \/ \E t \in Tasks : ExpireClaim(t)
             \/ \E m \in Messages, c \in CopyIds : Sweep(m, c)
             \/ DreamBegins \/ DreamEnds \/ UNCHANGED vars
    <2>1. left' = left \/ Spend("stall")
      BY <1>5 DEF ExpireClaim, Sweep, DreamBegins, DreamEnds, vars
    <2> QED BY <2>1
  <1> QED BY <1>1, <1>2, <1>3, <1>4, <1>5 DEF Next

\* A change spends one; no other step does.
LEMMA ChangeSpends ==
  ASSUME LeftOK, [Next]_vars
  PROVE  /\ \/ left'["change"] = left["change"]
            \/ /\ \E c \in Callers : Change(c)
               /\ left["change"] \in Nat \ {0} /\ left'["change"] = left["change"] - 1
         /\ \A e \in {"abandon", "giveUp"} : left[e] = 0 => left'[e] = 0
  <1>1. \A e \in Events : left[e] \in Nat
    BY DEF LeftOK
  <1>2. ASSUME NEW e \in Events, Spend(e), e = "change" => \E c \in Callers : Change(c)
        PROVE  /\ \/ left'["change"] = left["change"]
                  \/ /\ \E c \in Callers : Change(c)
                     /\ left["change"] \in Nat \ {0}
                     /\ left'["change"] = left["change"] - 1
               /\ \A d \in {"abandon", "giveUp"} : left[d] = 0 => left'[d] = 0
    <2>1. /\ left'[e] = left[e] - 1 /\ left[e] > 0
          /\ \A d \in Events \ {e} : left'[d] = left[d]
      BY <1>2 DEF Spend, LeftOK
    <2>2. left[e] \in Nat \ {0}
      BY <1>1, <2>1
    <2> QED BY <1>2, <2>1, <2>2
  <1> QED BY <1>2, Spending

\* Only a change changes the membership.
LEMMA MemberKept ==
  ASSUME [Next]_vars, ~\E c \in Callers : Change(c)
  PROVE  member' = member
  BY OthersTouchNothing DEF Touching, WriteChunk, CheckRejoined, RetractUnlocked, Sweep

LEMMA ChangeShape ==
  ASSUME TypeOK, NEW c \in Callers, Change(c)
  PROVE  /\ UNCHANGED <<run, copies, claim>> /\ rows'["backfill"] = rows["backfill"]
         /\ Spend("change")
         /\ \/ member' = "in" /\ rows' = rows /\ call'[c] = "added"
            \/ member' # "in" /\ rows' = rows /\ call'[c] = "fileRemoval"
            \/ member' # "in" /\ call' = call
         /\ \A d \in Callers \ {c} : call'[d] = call[d]
  <1> USE DEF docVars, queueVars, sendVars, history, At
  <1>1. CASE AddSession(c)
    BY <1>1 DEF AddSession, TypeOK
  <1>2. CASE RemoveSession(c)
    BY <1>2 DEF RemoveSession, TypeOK, Member
  <1>3. CASE RemoveSessions(c)
    <2>1. rows'["backfill"] = rows["backfill"]
      BY <1>3 DEF RemoveSessions, TypeOK
    <2> QED BY <1>3, <2>1 DEF RemoveSessions
  <1> QED BY <1>1, <1>2, <1>3 DEF Change

\* A request other than a change goes on asking for its task, or stops.
LEMMA RequestShape ==
  ASSUME TypeOK, NEW c \in Callers, Request(c) \/ Abandon(c)
  PROVE  /\ UNCHANGED <<run, copies, claim>>
         /\ \A d \in Callers \ {c} : call'[d] = call[d]
         /\ \A t \in Tasks : call'[c] \in Asks(t) => call[c] \in Asks(t)
         /\ \A t \in Tasks : \/ rows'[t] = rows[t]
                             \/ /\ call[c] \in Asks(t) /\ call'[c] = "idle"
                                /\ rows[t] \subseteq rows'[t]
  <1> USE DEF docVars, queueVars, sendVars, history, At, Asks
  <1>1. CASE LookForMessages(c)
    BY <1>1 DEF LookForMessages, TypeOK
  <1>2. CASE CheckTask(c)
    BY <1>2 DEF CheckTask, TypeOK
  <1>3. CASE InsertBackfill(c)
    BY <1>3 DEF InsertBackfill, TypeOK
  <1>4. CASE InsertRemoval(c)
    BY <1>4 DEF InsertRemoval, TypeOK
  <1>5. CASE Abandon(c)
    BY <1>5 DEF Abandon, TypeOK
  <1> QED BY <1>1, <1>2, <1>3, <1>4, <1>5 DEF Request

\* What a step of a worker may do to its locals.
LEMMA WorkShape ==
  ASSUME TypeOK, JoinedInv, Posts, NEW w \in Workers,
         Work(w) \/ Mishap(w) \/ \E t \in Tasks : ClaimTask(w, t)
  PROVE  /\ \A v \in Workers \ {w} : run'[v] = run[v]
         /\ \/ /\ run'[w].pc \notin {"dream", "status", "mark", "write", "broken", "fatal"}
               /\ run'[w].restore \in {run[w].restore, NoPlan}
            \/ /\ run[w].pc \in {"dream", "status", "mark"}
               /\ run'[w].pc \in {"dream", "status", "mark"}
               /\ run'[w].task = run[w].task /\ run'[w].restore = run[w].restore
            \/ /\ run'[w].pc \in {"dream", "mark"} /\ run'[w].task = "removal"
               /\ run'[w].restore = run[w].restore
            \/ PlanBackfill(w) \/ WriteChunk(w)
            \/ run[w].pc = "broken"
         /\ (\E t \in Tasks : ClaimTask(w, t)) \/ run'[w].task \in {run[w].task, None}
  <1> DEFINE Goal ==
         /\ \A v \in Workers \ {w} : run'[v] = run[v]
         /\ \/ /\ run'[w].pc \notin {"dream", "status", "mark", "write", "broken", "fatal"}
               /\ run'[w].restore \in {run[w].restore, NoPlan}
            \/ /\ run[w].pc \in {"dream", "status", "mark"}
               /\ run'[w].pc \in {"dream", "status", "mark"}
               /\ run'[w].task = run[w].task /\ run'[w].restore = run[w].restore
            \/ /\ run'[w].pc \in {"dream", "mark"} /\ run'[w].task = "removal"
               /\ run'[w].restore = run[w].restore
            \/ PlanBackfill(w) \/ WriteChunk(w)
            \/ run[w].pc = "broken"
         /\ (\E t \in Tasks : ClaimTask(w, t)) \/ run'[w].task \in {run[w].task, None}
  <1>1. run[w].pc # "delete" /\ run[w].pc \in Points
    BY SMTT(30) DEF JoinedInv, TypeOK, Runs
  <1>2. ASSUME NEW p \in Points, run' = [run EXCEPT ![w].pc = p]
        PROVE  /\ \A v \in Workers \ {w} : run'[v] = run[v]
               /\ run'[w].pc = p /\ run'[w].task = run[w].task
               /\ run'[w].restore = run[w].restore
    BY <1>2, SMTT(30) DEF TypeOK, Runs
  <1>3. ASSUME NEW t, NEW r, NEW p, NEW docs, NEW f,
               run' = [run EXCEPT ![w] = Locals(t, r, p, docs, f)]
        PROVE  /\ \A v \in Workers \ {w} : run'[v] = run[v]
               /\ run'[w].pc = p /\ run'[w].task = t /\ run'[w].restore = f
    <2>1. /\ \A v \in Workers \ {w} : run'[v] = run[v]
          /\ run'[w] = Locals(t, r, p, docs, f)
      BY <1>3, PointsOf
    <2> QED BY <2>1 DEF Locals
  <1>4. CASE \E t \in Tasks : ClaimTask(w, t)
    <2>1. PICK t \in Tasks :
            run' = [run EXCEPT ![w] = Locals(t, None, "fetch", {}, NoPlan)]
      BY <1>4 DEF ClaimTask, Between
    <2>2. /\ \A v \in Workers \ {w} : run'[v] = run[v]
          /\ run'[w] = Locals(t, None, "fetch", {}, NoPlan)
      BY <2>1, PointsOf
    <2>3. run'[w].pc = "fetch" /\ run'[w].restore = NoPlan
      BY <2>2 DEF Locals
    <2> QED BY <1>4, <2>2, <2>3
  <1>5. CASE FetchRow(w)
    <2>1. CASE run' = [run EXCEPT ![w].pc = "release"]
      <3>1. "release" \in Points
        BY DEF Points
      <3> QED BY <1>2, <2>1, <3>1
    <2>2. ASSUME NEW r, NEW p \in {"plan", "remove"},
                 run' = [run EXCEPT ![w] = Locals(run[w].task, r, p, {}, NoPlan)]
          PROVE  Goal
      <3>1. /\ \A v \in Workers \ {w} : run'[v] = run[v]
            /\ run'[w] = Locals(run[w].task, r, p, {}, NoPlan)
        BY <2>2, PointsOf
      <3>2. run'[w].pc = p /\ run'[w].restore = NoPlan /\ run'[w].task = run[w].task
        BY <3>1 DEF Locals
      <3> QED BY <2>2, <3>1, <3>2
    <2> QED BY <1>5, <2>1, <2>2 DEF FetchRow
  <1>6. CASE PlanBackfill(w)
    <2>1. PICK f \in Plans : run' = [run EXCEPT ![w] =
                                 Locals(run[w].task, run[w].row, AfterPlan, Missing, f)]
      BY <1>6 DEF PlanBackfill, TypeOK
    <2>2. run'[w].task = run[w].task /\ \A v \in Workers \ {w} : run'[v] = run[v]
      BY <1>3, <2>1
    <2> QED BY <1>6, <2>2
  <1>7. CASE WriteChunk(w)
    <2>1. CASE \E p \in {"mark", "broken"} : run' = [run EXCEPT ![w].pc = p]
      <3>1. "mark" \in Points /\ "broken" \in Points
        BY DEF Points
      <3>2. run'[w].task = run[w].task /\ \A v \in Workers \ {w} : run'[v] = run[v]
        BY <1>2, <2>1, <3>1
      <3> QED BY <1>7, <3>2
    <2>2. ASSUME NEW p, NEW docs, run' = [run EXCEPT ![w] =
                                 Locals(run[w].task, run[w].row, p, docs, run[w].restore)]
          PROVE  Goal
      <3>1. run'[w].task = run[w].task /\ \A v \in Workers \ {w} : run'[v] = run[v]
        BY <1>3, <2>2
      <3> QED BY <1>7, <3>1
    <2> QED BY <1>7, <2>1, <2>2 DEF WriteChunk, TypeOK
  <1>8. CASE CheckRejoined(w)
    <2>1. /\ run[w].task = "removal"
          /\ \E p \in {"mark", "dream"} : run' = [run EXCEPT ![w].pc = p]
      BY <1>8 DEF CheckRejoined, Retract, JoinedInv, Posts
    <2>2. "mark" \in Points /\ "dream" \in Points
      BY DEF Points
    <2> QED BY <1>2, <2>1, <2>2
  <1>9. CASE RetractUnlocked(w)
    BY <1>1, <1>9 DEF RetractUnlocked
  <1>10. CASE FileDream(w) \/ WriteCompleted(w) \/ WriteFailed(w) \/ Retry(w)
              \/ HandlerRaises(w) \/ StatusLost(w)
    <2>1. \E p \in {"status", "mark", "error", "fatal", "failing", "release"} :
            /\ run' = [run EXCEPT ![w].pc = p]
            /\ p \in {"status", "mark"} => run[w].pc \in {"dream", "status"}
            /\ p = "fatal" => run[w].pc = "broken"
      BY <1>10 DEF FileDream, WriteCompleted, WriteFailed, Retry, HandlerRaises,
                   StatusLost, AfterFailing, Step
    <2>2. {"status", "mark", "error", "fatal", "failing", "release"} \subseteq Points
      BY DEF Points
    <2> QED BY <1>2, <2>1, <2>2
  <1>11. CASE MarkRow(w) \/ GiveUp(w) \/ Release(w) \/ Crash(w)
    <2>1. PICK t \in {run[w].task, None}, p \in {"idle", "fetch"} :
            run' = [run EXCEPT ![w] = Locals(t, None, p, {}, NoPlan)]
      BY <1>11 DEF MarkRow, GiveUp, Release, Crash, Resting, Between
    <2>2. /\ \A v \in Workers \ {w} : run'[v] = run[v]
          /\ run'[w].pc \in {"idle", "fetch"} /\ run'[w].restore = NoPlan
          /\ run'[w].task \in {run[w].task, None}
      BY <1>3, <2>1
    <2> QED BY <2>2
  <1> QED
    BY <1>4, <1>5, <1>6, <1>7, <1>8, <1>9, <1>10, <1>11 DEF Work, Mishap

LEMMA TracesKept ==
  ASSUME TypeOK, JoinedInv, Posts, [Next]_vars, ~\E c \in Callers : Change(c),
         NEW t \in Tasks, ~Traces(t)
  PROVE  ~Traces(t)'
  <1> USE DEF docVars, queueVars, sendVars, history
  <1>1. UNCHANGED <<call, rows, claim, run>> => ~Traces(t)'
    BY DEF Traces
  <1>2. CASE \/ Ingest \/ DropBatch
             \/ \E m \in Messages, c \in CopyIds : Sweep(m, c)
             \/ DreamBegins \/ DreamEnds \/ UNCHANGED vars
    BY <1>1, <1>2 DEF Ingest, Send, File, FetchBatch, SaveSelf, SaveScope, DropBatch,
                      Sweep, DreamBegins, DreamEnds, vars
  <1>3. ASSUME NEW u \in Tasks, ExpireClaim(u) PROVE ~Traces(t)'
    <2>1. claim' = [claim EXCEPT ![u] = None] /\ UNCHANGED <<call, rows, run>>
      BY <1>3 DEF ExpireClaim
    <2>2. claim'[t] = None
      BY <2>1 DEF Traces, TypeOK
    <2> QED BY <2>1, <2>2 DEF Traces
  <1>4. ASSUME NEW c \in Callers, Request(c) \/ Abandon(c) PROVE ~Traces(t)'
    <2>1. call[c] \notin Asks(t)
      BY DEF Traces
    <2>2. /\ UNCHANGED <<run, claim>> /\ \A d \in Callers \ {c} : call'[d] = call[d]
          /\ call'[c] \notin Asks(t) /\ rows'[t] = rows[t]
      BY <1>4, <2>1, RequestShape
    <2> QED BY <2>2 DEF Traces
  <1>5. ASSUME NEW w \in Workers, Work(w) \/ Mishap(w) \/ \E u \in Tasks : ClaimTask(w, u)
        PROVE  ~Traces(t)'
    <2>1. call' = call /\ rows'[t] \subseteq rows[t] /\ claim'[t] = None
      <3>1. CASE \E u \in Tasks : ClaimTask(w, u)
        BY <3>1 DEF ClaimTask, Traces, TypeOK
      <3>2. CASE MarkRow(w) \/ GiveUp(w)
        BY <3>2 DEF MarkRow, GiveUp, Traces, TypeOK
      <3>3. CASE Release(w)
        BY <3>3 DEF Release, Traces, TypeOK
      <3>4. CASE FetchRow(w) \/ PlanBackfill(w) \/ WriteChunk(w) \/ CheckRejoined(w)
                 \/ RetractUnlocked(w)
        BY <3>4 DEF FetchRow, PlanBackfill, WriteChunk, CheckRejoined, RetractUnlocked,
                    Traces
      <3>5. CASE FileDream(w) \/ WriteCompleted(w) \/ WriteFailed(w) \/ Retry(w) \/ Mishap(w)
        BY <3>5 DEF FileDream, WriteCompleted, WriteFailed, Retry, Mishap, HandlerRaises,
                    StatusLost, Crash, Traces
      <3> QED BY <1>5, <3>1, <3>2, <3>3, <3>4, <3>5 DEF Work
    <2>2. \A v \in Workers : run'[v].task # t
      <3>1. \A v \in Workers : run[v].task # t
        BY DEF Traces
      <3>2. None # t
        BY ScopeAssumption
      <3>3. CASE \E u \in Tasks : ClaimTask(w, u)
        <4>1. PICK u \in Tasks : ClaimTask(w, u)
          BY <3>3
        <4>2. u # t
          BY <4>1 DEF ClaimTask, Traces
        <4>3. run' = [run EXCEPT ![w] = Between(u, "fetch")]
          BY <4>1 DEF ClaimTask
        <4>4. /\ run'[w] = Between(u, "fetch") /\ \A v \in Workers \ {w} : run'[v] = run[v]
          BY <4>3, PointsOf
        <4>5. run'[w].task = u
          BY <4>4 DEF Between, Locals
        <4> QED BY <3>1, <4>2, <4>4, <4>5
      <3>4. CASE ~\E u \in Tasks : ClaimTask(w, u)
        BY <1>5, <3>1, <3>2, <3>4, WorkShape
      <3> QED BY <3>3, <3>4
    <2> QED BY <2>1, <2>2 DEF Traces
  <1> QED BY <1>2, <1>3, <1>4, <1>5 DEF Next

\* Only a backfill of a member writes the first copy.
LEMMA FirstCopy ==
  ASSUME TypeOK, Posts, [Next]_vars, Untouched, ~Untouched'
  PROVE  Member /\ Traces("backfill") /\ ~\E c \in Callers : Change(c)
  <1>1. copies' # copies
    BY DEF Untouched
  <1>2. ~\E c \in Callers : Change(c)
    BY <1>1, ChangeShape
  <1>3. ~\E m \in Messages, c \in CopyIds : Sweep(m, c)
    BY DEF Sweep, Untouched
  <1>4. ASSUME NEW w \in Workers, CheckRejoined(w) \/ RetractUnlocked(w)
        PROVE  FALSE
    <2>1. Retract(w) => Untouched'
      BY DEF Retract, Untouched
    <2> QED BY <1>1, <1>4, <2>1 DEF CheckRejoined, RetractUnlocked
  <1>5. PICK w \in Workers : WriteChunk(w)
    BY <1>1, <1>2, <1>3, <1>4, OthersTouchNothing DEF Touching
  <1>6. Member /\ run[w].task = "backfill"
    BY <1>1, <1>5 DEF WriteChunk, StillMember, Posts
  <1> QED BY <1>2, <1>6 DEF Traces

LEMMA FewTracesStep ==
  ASSUME TypeOK, JoinedInv, Posts, FewTraces, [Next]_vars
  PROVE  FewTraces'
  <1>1. LeftOK /\ left["change"] \in Nat
    BY TypeParts DEF LeftOK
  <1>2. ASSUME NEW c \in Callers, Change(c) PROVE FewTraces'
    <2>1. left["change"] \in 1..2 /\ left'["change"] = left["change"] - 1
      <3>1. Spend("change")
        BY <1>2, ChangeShape
      <3>2. left["change"] > 0 /\ left'["change"] = left["change"] - 1
        BY <3>1 DEF Spend, TypeOK
      <3> QED BY <1>1, <3>2 DEF FewTraces
    <2>2. Untouched' = Untouched
      BY <1>2, ChangeShape DEF Untouched
    <2>3. CASE left["change"] = 1
      BY <2>1, <2>3 DEF FewTraces
    <2>4. CASE left["change"] = 2
      <3>1. Untouched' /\ \A t \in Tasks : ~Traces(t)
        BY <2>2, <2>4 DEF FewTraces
      <3>2. \/ Member' /\ ~Traces("removal")'
            \/ ~Member' /\ ~Traces("backfill")'
        <4>1. /\ UNCHANGED <<run, claim>> /\ rows'["backfill"] = rows["backfill"]
              /\ \A d \in Callers \ {c} : call'[d] = call[d]
              /\ \/ member' = "in" /\ rows' = rows /\ call'[c] = "added"
                 \/ member' # "in" /\ rows' = rows /\ call'[c] = "fileRemoval"
                 \/ member' # "in" /\ call' = call
          BY <1>2, ChangeShape
        <4>2. CASE member' = "in" /\ rows' = rows /\ call'[c] = "added"
          BY <3>1, <4>1, <4>2 DEF Traces, Asks, Member
        <4>3. CASE member' # "in" /\ rows' = rows /\ call'[c] = "fileRemoval"
          BY <3>1, <4>1, <4>3 DEF Traces, Asks, Member
        <4>4. CASE member' # "in" /\ call' = call
          BY <3>1, <4>1, <4>4 DEF Traces, Asks, Member
        <4> QED BY <4>1, <4>2, <4>3, <4>4
      <3> QED BY <2>1, <2>4, <3>1, <3>2 DEF FewTraces
    <2> QED BY <2>1, <2>3, <2>4
  <1>3. CASE ~\E c \in Callers : Change(c)
    <2>1. left'["change"] = left["change"] /\ Member' = Member
      BY <1>1, <1>3, ChangeSpends, MemberKept DEF Member
    <2>2. \A t \in Tasks : ~Traces(t) => ~Traces(t)'
      BY <1>3, TracesKept
    <2>3. Untouched /\ ~Untouched' => Member /\ Traces("backfill")
      BY FirstCopy
    <2> HIDE DEF Events, Tasks
    <2>4. ~Traces("backfill") => ~Traces("backfill")'
      BY <2>2 DEF Tasks
    <2>5. ~Traces("removal") => ~Traces("removal")'
      BY <2>2 DEF Tasks
    <2>6. left["change"] = 2 => Untouched' /\ \A t \in Tasks : ~Traces(t)'
      BY <2>2, <2>3, <2>4 DEF FewTraces, Tasks
    <2>7. left["change"] >= 1 => /\ ~Traces("backfill")' \/ ~Traces("removal")'
                                 /\ Member' \/ (Untouched' /\ ~Traces("backfill")')
                                 /\ Untouched' \/ ~Traces("removal")'
      BY <2>1, <2>3, <2>4, <2>5 DEF FewTraces
    <2> QED BY <2>1, <2>6, <2>7 DEF FewTraces
  <1> QED BY <1>2, <1>3

Removing == {"fileRemoval", "insertRemoval"}
Past == {"dream", "status", "mark"}

\* What two changes at most leave a member and a session that has left with.  The
\* copies are not deleted while the session may still be a member, so that no plan
\* restores one and none is broken; a backfill has all that is lacking in hand or
\* behind it; and who asks for a removal of copies is the first and only one.
Ready ==
  /\ Member => \A d \in Messages \X CopyIds : copies[d] # "deleted"
  /\ \A w \in Workers : run[w].restore = NoPlan \/ (~Member /\ left["change"] = 0)
  /\ \A w \in Workers : run[w].pc \notin {"broken", "fatal"}
  /\ Member => \A w \in Workers : run[w].task = "backfill" =>
       /\ run[w].pc = "write" => Lacking \subseteq run[w].todo
       /\ run[w].pc \in Past => Lacking = {}
  /\ Member /\ Lacking # {} /\ claim["backfill"] # None => rows["backfill"] # {}
  /\ ~Member /\ ~Untouched => \A c \in Callers : call[c] \in Removing =>
       /\ rows["removal"] = {} /\ claim["removal"] = None
       /\ \A d \in Callers \ {c} : call[d] \notin Removing

ReadyCopies == Member => \A d \in Messages \X CopyIds : copies[d] # "deleted"
ReadyPlans == \A w \in Workers : /\ run[w].restore = NoPlan \/ (~Member /\ left["change"] = 0)
                                 /\ run[w].pc \notin {"broken", "fatal"}
ReadyTask(w) == run[w].task = "backfill" => /\ run[w].pc = "write" => Lacking \subseteq run[w].todo
                                            /\ run[w].pc \in Past => Lacking = {}
ReadyRow == Member /\ Lacking # {} /\ claim["backfill"] # None => rows["backfill"] # {}
ReadyRemoval(c) == call[c] \in Removing =>
                     /\ rows["removal"] = {} /\ claim["removal"] = None
                     /\ \A d \in Callers \ {c} : call[d] \notin Removing

LEMMA ReadyNext ==
  ASSUME ReadyCopies', ReadyPlans', ReadyRow',
         Member' => \A w \in Workers : ReadyTask(w)',
         ~Member' /\ ~Untouched' => \A c \in Callers : ReadyRemoval(c)'
  PROVE  Ready'
  BY DEF Ready, ReadyCopies, ReadyPlans, ReadyRow, ReadyTask, ReadyRemoval

\* The second change finds nothing of the other task's.
LEMMA ReadyChange ==
  ASSUME TypeOK, FewTraces, Ready, NEW c \in Callers, Change(c)
  PROVE  Ready'
  <1>1. /\ UNCHANGED <<run, copies, claim>> /\ rows'["backfill"] = rows["backfill"]
        /\ Spend("change")
        /\ \/ member' = "in" /\ rows' = rows /\ call'[c] = "added"
           \/ member' # "in" /\ rows' = rows /\ call'[c] = "fileRemoval"
           \/ member' # "in" /\ call' = call
        /\ \A d \in Callers \ {c} : call'[d] = call[d]
    BY ChangeShape
  <1>2. left["change"] > 0 /\ left["change"] \in Nat
    BY <1>1 DEF Spend, TypeOK
  <1>3. /\ Member \/ (Untouched /\ ~Traces("backfill"))
        /\ Untouched \/ ~Traces("removal")
    BY <1>2 DEF FewTraces
  <1>4. Untouched' = Untouched /\ Lacking' = Lacking
    <2>1. \A m \in Messages : LiveCopies(m)' = LiveCopies(m)
      BY <1>1 DEF LiveCopies
    <2> QED BY <1>1, <2>1, SameLacking DEF Untouched
  <1>5. ReadyCopies'
    BY <1>1, <1>3 DEF Ready, ReadyCopies, Untouched
  <1>6. ReadyPlans'
    <2>1. \A w \in Workers : run[w].restore = NoPlan
      BY <1>2 DEF Ready
    <2> QED BY <1>1, <2>1 DEF Ready, ReadyPlans
  <1>7. ReadyRow'
    BY <1>1, <1>3, <1>4 DEF Ready, ReadyRow, Traces
  <1>8. \A w \in Workers : ReadyTask(w)'
    <2>1. CASE Member
      BY <1>1, <1>4, <2>1 DEF Ready, ReadyTask
    <2>2. CASE ~Member
      BY <1>1, <1>3, <2>2 DEF ReadyTask, Traces
    <2> QED BY <2>1, <2>2
  <1>9. ~Member' /\ ~Untouched' => \A d \in Callers : ReadyRemoval(d)'
    <2> SUFFICES ASSUME ~Member', ~Untouched PROVE \A d \in Callers : ReadyRemoval(d)'
      BY <1>4
    <2>1. /\ \A d \in Callers : call[d] \notin Removing
          /\ rows["removal"] = {} /\ claim["removal"] = None
      BY <1>3 DEF Traces, Asks, Removing
    <2>2. CASE member' # "in" /\ rows' = rows /\ call'[c] = "fileRemoval"
      <3>1. \A d \in Callers : call'[d] \in Removing => d = c
        BY <1>1, <2>1
      <3> QED BY <1>1, <2>1, <2>2, <3>1 DEF ReadyRemoval
    <2>3. CASE member' # "in" /\ call' = call
      BY <2>1, <2>3 DEF ReadyRemoval
    <2>4. /\ member' # "in"
          /\ \/ rows' = rows /\ call'[c] = "fileRemoval"
             \/ call' = call
      BY <1>1 DEF Member
    <2> QED BY <2>2, <2>3, <2>4
  <1> QED BY <1>5, <1>6, <1>7, <1>8, <1>9, ReadyNext

\* The copies of a member are never deleted, so what is lacking becomes less.
LEMMA MemberCopies ==
  ASSUME TypeOK, JoinedInv, [Next]_vars, Member, Member'
  PROVE  /\ Lacking' \subseteq Lacking
         /\ \A d \in Messages \X CopyIds : copies'[d] = "deleted" => copies[d] = "deleted"
  <1>1. KeepsMemory
    BY DocumentsStep DEF DocumentsKept, JoinedInv, Unlocked
  <1>2. \A m \in Messages : LiveCopies(m) \subseteq LiveCopies(m)'
    BY <1>1 DEF KeepsMemory, LiveCopies
  <1>3. Lacking' \subseteq Lacking
    BY <1>2, ScopeAssumption DEF Lacking
  <1>4. \A d \in Messages \X CopyIds : copies'[d] = "deleted" => copies[d] = "deleted"
    <2>1. CASE ~Touching
      BY <2>1, OthersTouchNothing
    <2>2. ASSUME NEW c \in Callers, Change(c) PROVE copies' = copies
      BY <2>2, ChangeShape
    <2>3. ASSUME NEW w \in Workers, WriteChunk(w)
          PROVE  \A d \in Messages \X CopyIds : copies'[d] = "deleted" => copies[d] = "deleted"
      BY <2>3 DEF WriteChunk
    <2>4. ASSUME NEW w \in Workers, CheckRejoined(w) \/ RetractUnlocked(w)
          PROVE  copies' = copies
      BY <2>4 DEF CheckRejoined, RetractUnlocked, Rejoined, JoinedInv
    <2>5. ASSUME NEW m \in Messages, NEW c \in CopyIds, Sweep(m, c)
          PROVE  \A d \in Messages \X CopyIds : copies'[d] = "deleted" => copies[d] = "deleted"
      <3>1. copies' = [copies EXCEPT ![<<m, c>>] = "none"]
        BY <2>5 DEF Sweep
      <3> QED BY <3>1 DEF TypeOK
    <2> QED BY <2>1, <2>2, <2>3, <2>4, <2>5 DEF Touching
  <1> QED BY <1>3, <1>4

\* What a plan and a write do to the locals of a worker.
LEMMA PlanShape ==
  ASSUME TypeOK, NEW w \in Workers, PlanBackfill(w)
  PROVE  \E f \in Plans : /\ run'[w].pc = AfterPlan /\ run'[w].todo = Missing
                          /\ run'[w].restore = f
  <1>1. PICK f \in Plans : run' = [run EXCEPT ![w] =
                               Locals(run[w].task, run[w].row, AfterPlan, Missing, f)]
    BY DEF PlanBackfill, TypeOK
  <1>2. run'[w] = Locals(run[w].task, run[w].row, AfterPlan, Missing, f)
    BY <1>1, PointsOf
  <1> QED BY <1>2 DEF Locals

LEMMA WriteShape ==
  ASSUME TypeOK, NEW w \in Workers, WriteChunk(w)
  PROVE  /\ run'[w].restore = run[w].restore
         /\ \/ ~Member /\ run'[w].pc = "mark"
            \/ Member /\ run[w].restore # NoPlan /\ run'[w].pc = "broken"
            \/ /\ Member
               /\ \E chunk \in SUBSET run[w].todo :
                    /\ Lacking' \subseteq Lacking \ chunk
                    /\ run'[w].todo = run[w].todo \ chunk
                    /\ run'[w].pc = IF run[w].todo = chunk THEN "dream" ELSE "write"
  <1>1. ASSUME NEW p \in Points, run' = [run EXCEPT ![w].pc = p]
        PROVE  run'[w].pc = p /\ run'[w].restore = run[w].restore
    BY <1>1, SMTT(30) DEF TypeOK, Runs
  <1>2. "mark" \in Points /\ "broken" \in Points
    BY DEF Points
  <1>3. CASE ~StillMember
    BY <1>1, <1>2, <1>3 DEF WriteChunk, StillMember
  <1>4. ASSUME StillMember, NEW chunk \in Chunks(run[w].todo), Swept(w, chunk),
               run' = [run EXCEPT ![w].pc = "broken"]
        PROVE  /\ Member /\ run[w].restore # NoPlan /\ run'[w].pc = "broken"
               /\ run'[w].restore = run[w].restore
    <2>1. run[w].todo \subseteq Messages
      BY SMTT(30) DEF TypeOK, Runs
    <2>2. run[w].restore # NoPlan
      BY <1>4, <2>1 DEF Swept, NoPlan, Chunks
    <2> QED BY <1>1, <1>2, <1>4, <2>2 DEF StillMember
  <1>5. ASSUME StillMember, NEW chunk \in Chunks(run[w].todo), NEW f \in Written(w, chunk),
               copies' = [d \in Messages \X CopyIds |->
                            IF d[1] \in chunk /\ f[d[1]] = d[2] THEN "live"
                            ELSE copies[d]],
               LET p == IF run[w].todo = chunk THEN "dream" ELSE "write"
               IN  run' = [run EXCEPT ![w] = Locals(run[w].task, run[w].row, p,
                                               run[w].todo \ chunk, run[w].restore)]
        PROVE  /\ run'[w].restore = run[w].restore /\ Member
               /\ \E x \in SUBSET run[w].todo :
                    /\ Lacking' \subseteq Lacking \ x
                    /\ run'[w].todo = run[w].todo \ x
                    /\ run'[w].pc = IF run[w].todo = x THEN "dream" ELSE "write"
    <2> DEFINE p == IF run[w].todo = chunk THEN "dream" ELSE "write"
    <2>1. run'[w] = Locals(run[w].task, run[w].row, p, run[w].todo \ chunk, run[w].restore)
      <3>1. run' = [run EXCEPT ![w] = Locals(run[w].task, run[w].row, p,
                                        run[w].todo \ chunk, run[w].restore)]
        BY <1>5
      <3> HIDE DEF p
      <3> QED BY <3>1, PointsOf
    <2>2. /\ run'[w].restore = run[w].restore /\ run'[w].todo = run[w].todo \ chunk
          /\ run'[w].pc = p
      BY <2>1 DEF Locals
    <2>3. Lacking' \subseteq Lacking \ chunk
      BY <1>5, ChunkLacks DEF Written
    <2> QED BY <1>5, <2>2, <2>3 DEF StillMember, Chunks
  <1> QED BY <1>3, <1>4, <1>5 DEF WriteChunk, TypeOK

\* No step but a change makes a plan stale.
LEMMA PlansReady ==
  ASSUME TypeOK, JoinedInv, Posts, FewTraces, Ready, [Next]_vars,
         ~\E c \in Callers : Change(c)
  PROVE  ReadyPlans'
  <1>1. left'["change"] = left["change"] /\ Member' = Member
    BY ChangeSpends, MemberKept, TypeParts DEF Member
  <1>2. CASE run' = run
    BY <1>1, <1>2 DEF Ready, ReadyPlans
  <1>3. ASSUME NEW w \in Workers, Work(w) \/ Mishap(w) \/ \E t \in Tasks : ClaimTask(w, t)
        PROVE  ReadyPlans'
    <2>1. \A v \in Workers \ {w} : run'[v] = run[v]
      BY <1>3, WorkShape
    <2>2. SUFFICES /\ run'[w].restore = NoPlan \/ (~Member /\ left["change"] = 0)
                   /\ run'[w].pc \notin {"broken", "fatal"}
      BY <1>1, <2>1 DEF Ready, ReadyPlans
    <2>3. CASE PlanBackfill(w)
      <3>1. PICK f \in Plans : run'[w].pc = AfterPlan /\ run'[w].restore = f
        BY <2>3, PlanShape
      <3>2. ASSUME f # NoPlan PROVE ~Member /\ left["change"] = 0
        <4>1. PICK m \in Messages : f[m] # None
          BY <3>2 DEF Plans, NoPlan
        <4>2. PICK c \in CopyIds : copies[m, c] = "deleted"
          BY <4>1 DEF Plans
        <4>3. ~Member /\ ~Untouched
          <5>1. <<m, c>> \in Messages \X CopyIds /\ copies[<<m, c>>] = "deleted"
            BY <4>2
          <5> QED BY <5>1 DEF Ready, Untouched
        <4>4. left["change"] \in Nat
          BY DEF TypeOK
        <4> QED BY <4>3, <4>4 DEF FewTraces
      <3> QED BY <3>1, <3>2 DEF AfterPlan
    <2>4. CASE WriteChunk(w)
      <3>1. /\ run'[w].restore = run[w].restore
            /\ run'[w].pc = "broken" => Member /\ run[w].restore # NoPlan
            /\ run'[w].pc # "fatal"
        BY <2>4, WriteShape
      <3> QED BY <3>1 DEF Ready
    <2>5. CASE ~PlanBackfill(w) /\ ~WriteChunk(w)
      <3>1. run[w].pc # "broken"
        BY DEF Ready
      <3>2. /\ run'[w].pc \notin {"broken", "fatal"}
            /\ run'[w].restore \in {run[w].restore, NoPlan}
        BY <1>3, <2>5, <3>1, WorkShape
      <3> QED BY <3>2 DEF Ready
    <2> QED BY <2>3, <2>4, <2>5
  <1> QED BY <1>2, <1>3, OthersRunNothing

\* What is lacking stays in the hands of the backfills.
LEMMA TasksReady ==
  ASSUME TypeOK, JoinedInv, Posts, Grounded, Ready, [Next]_vars,
         ~\E c \in Callers : Change(c), Member
  PROVE  \A w \in Workers : ReadyTask(w)'
  <1>1. Member' /\ Lacking' \subseteq Lacking
    BY MemberKept, MemberCopies DEF Member
  <1>2. ASSUME NEW w \in Workers, run'[w] = run[w] PROVE ReadyTask(w)'
    BY <1>1, <1>2 DEF Ready, ReadyTask
  <1>3. ASSUME NEW w \in Workers, Work(w) \/ Mishap(w) \/ \E t \in Tasks : ClaimTask(w, t)
        PROVE  ReadyTask(w)'
    <2>1. CASE PlanBackfill(w)
      <3>1. /\ run'[w].pc = "status" => Missing = {} /\ run'[w].pc \in {"status", "write"}
            /\ run'[w].pc \in {"status", "write"} /\ run'[w].todo = Missing
        BY <2>1, PlanShape DEF AfterPlan
      <3>2. Lacking \subseteq Missing
        BY DEF Lacking, Missing, Grounded
      <3> QED BY <1>1, <3>1, <3>2 DEF ReadyTask, Past
    <2>2. CASE WriteChunk(w)
      <3>1. Lacking \subseteq run[w].todo
        BY <2>2 DEF Ready, WriteChunk, Posts
      <3>2. \/ run'[w].pc = "broken"
            \/ \E chunk \in SUBSET run[w].todo :
                 /\ Lacking' \subseteq Lacking \ chunk
                 /\ run'[w].todo = run[w].todo \ chunk
                 /\ run'[w].pc = IF run[w].todo = chunk THEN "dream" ELSE "write"
        BY <2>2, WriteShape
      <3> QED BY <3>1, <3>2 DEF ReadyTask, Past
    <2>3. CASE ~PlanBackfill(w) /\ ~WriteChunk(w)
      <3>1. run[w].pc # "broken"
        BY DEF Ready
      <3>2. \/ run'[w].pc \notin {"dream", "status", "mark", "write"}
            \/ /\ run[w].pc \in {"dream", "status", "mark"}
               /\ run'[w].pc \in {"dream", "status", "mark"}
               /\ run'[w].task = run[w].task
            \/ run'[w].task = "removal"
        BY <1>3, <2>3, <3>1, WorkShape
      <3> QED BY <1>1, <3>2 DEF Ready, ReadyTask, Past
    <2> QED BY <2>1, <2>2, <2>3
  <1>4. ASSUME NEW w \in Workers, Work(w) \/ Mishap(w) \/ \E t \in Tasks : ClaimTask(w, t)
        PROVE  \A v \in Workers : ReadyTask(v)'
    <2>1. \A v \in Workers \ {w} : run'[v] = run[v]
      BY <1>4, WorkShape
    <2> QED BY <1>2, <1>3, <1>4, <2>1
  <1> QED BY <1>2, <1>4, OthersRunNothing

\* What a step may do to the rows and the claim of a task.
LEMMA QueueShape ==
  ASSUME TypeOK, [Next]_vars, NEW t \in Tasks
  PROVE  \/ rows[t] \subseteq rows'[t] /\ claim'[t] \in {claim[t], None}
         \/ \E w \in Workers : ClaimTask(w, t)
         \/ \E w \in Workers : /\ MarkRow(w) \/ GiveUp(w)
                               /\ run[w].task = t
  <1> DEFINE Goal ==
         \/ rows[t] \subseteq rows'[t] /\ claim'[t] \in {claim[t], None}
         \/ \E w \in Workers : ClaimTask(w, t)
         \/ \E w \in Workers : /\ MarkRow(w) \/ GiveUp(w)
                               /\ run[w].task = t
  <1> USE DEF docVars, queueVars, sendVars, history
  <1>1. CASE \/ Ingest \/ DropBatch
             \/ \E m \in Messages, c \in CopyIds : Sweep(m, c)
             \/ DreamBegins \/ DreamEnds \/ UNCHANGED vars
    <2>1. rows' = rows /\ claim' = claim
      BY <1>1 DEF Ingest, Send, File, FetchBatch, SaveSelf, SaveScope, DropBatch, Sweep,
                  DreamBegins, DreamEnds, vars
    <2> QED BY <2>1
  <1>2. ASSUME NEW u \in Tasks, ExpireClaim(u) PROVE Goal
    BY <1>2 DEF ExpireClaim, TypeOK
  <1>3. ASSUME NEW c \in Callers, Change(c) PROVE Goal
    <2>1. claim' = claim /\ (rows' = rows \/ \E r \in RowIds :
                               rows' = [rows EXCEPT !["removal"] = @ \cup {r}])
      BY <1>3 DEF Change, AddSession, RemoveSession, RemoveSessions
    <2>2. rows[t] \subseteq rows'[t]
      BY <2>1 DEF TypeOK
    <2> QED BY <2>1, <2>2
  <1>4. ASSUME NEW c \in Callers, Request(c) \/ Abandon(c) PROVE Goal
    BY <1>4, RequestShape
  <1>5. ASSUME NEW w \in Workers, Work(w) \/ Mishap(w) \/ \E u \in Tasks : ClaimTask(w, u)
        PROVE  Goal
    <2>1. CASE \E u \in Tasks : ClaimTask(w, u)
      BY <2>1 DEF ClaimTask, TypeOK
    <2>2. CASE MarkRow(w) \/ GiveUp(w)
      <3>1. /\ rows' = [rows EXCEPT ![run[w].task] = @ \ {run[w].row}]
            /\ claim' = claim
        BY <2>2 DEF MarkRow, GiveUp
      <3>2. run[w].task # t => rows'[t] = rows[t]
        BY <3>1 DEF TypeOK
      <3> QED BY <2>2, <3>1, <3>2
    <2>3. CASE Release(w)
      BY <2>3 DEF Release, TypeOK
    <2>4. CASE FetchRow(w) \/ PlanBackfill(w) \/ WriteChunk(w) \/ CheckRejoined(w)
               \/ RetractUnlocked(w)
      <3>1. rows' = rows /\ claim' = claim
        BY <2>4 DEF FetchRow, PlanBackfill, WriteChunk, CheckRejoined, RetractUnlocked
      <3> QED BY <3>1
    <2>5. CASE FileDream(w) \/ WriteCompleted(w) \/ WriteFailed(w) \/ Retry(w) \/ Mishap(w)
      <3>1. rows' = rows /\ claim' = claim
        BY <2>5 DEF FileDream, WriteCompleted, WriteFailed, Retry, Mishap, HandlerRaises,
                    StatusLost, Crash
      <3> QED BY <3>1
    <2> QED BY <1>5, <2>1, <2>2, <2>3, <2>4, <2>5 DEF Work
  <1> QED BY <1>1, <1>2, <1>3, <1>4, <1>5 DEF Next

\* While something is lacking, a claimed backfill has a row.
LEMMA RowReady ==
  ASSUME TypeOK, JoinedInv, Ready, [Next]_vars, ~\E c \in Callers : Change(c),
         left["giveUp"] = 0
  PROVE  ReadyRow'
  <1> SUFFICES ASSUME Member, Lacking # {}, claim'["backfill"] # None
               PROVE  rows'["backfill"] # {}
    <2>1. Member' = Member
      BY MemberKept DEF Member
    <2>2. Member => Lacking' \subseteq Lacking
      BY <2>1, MemberCopies
    <2> QED BY <2>1, <2>2 DEF ReadyRow
  <1>1. CASE rows["backfill"] \subseteq rows'["backfill"]
             /\ claim'["backfill"] \in {claim["backfill"], None}
    BY <1>1 DEF Ready
  <1>2. ASSUME NEW w \in Workers, ClaimTask(w, "backfill") PROVE rows'["backfill"] # {}
    BY <1>2 DEF ClaimTask
  <1>3. ASSUME NEW w \in Workers, MarkRow(w), run[w].task = "backfill" PROVE FALSE
    BY <1>3 DEF MarkRow, Ready, Past
  <1>4. ASSUME NEW w \in Workers, GiveUp(w) PROVE FALSE
    BY <1>4 DEF GiveUp, Spend, Ready
  <1> QED BY <1>1, <1>2, <1>3, <1>4, QueueShape

\* The only request for a removal of copies finds the task in nobody's hands.
LEMMA RemovalReady ==
  ASSUME TypeOK, JoinedInv, Posts, Ready, [Next]_vars, ~\E c \in Callers : Change(c)
  PROVE  ~Member' /\ ~Untouched' => \A c \in Callers : ReadyRemoval(c)'
  <1> USE DEF docVars, queueVars, sendVars, history
  <1>1. Member' = Member
    BY MemberKept DEF Member
  <1> SUFFICES ASSUME ~Member, ~Untouched'
               PROVE  \A c \in Callers : ReadyRemoval(c)'
    BY <1>1
  <1>2. ~Untouched
    BY FirstCopy
  <1>3. \A c \in Callers : ReadyRemoval(c)
    BY <1>2 DEF Ready, ReadyRemoval
  <1>4. UNCHANGED <<call, rows, claim>> => \A c \in Callers : ReadyRemoval(c)'
    BY <1>3 DEF ReadyRemoval
  <1>5. CASE \/ Ingest \/ DropBatch
             \/ \E m \in Messages, c \in CopyIds : Sweep(m, c)
             \/ DreamBegins \/ DreamEnds \/ UNCHANGED vars
    BY <1>4, <1>5 DEF Ingest, Send, File, FetchBatch, SaveSelf, SaveScope, DropBatch,
                      Sweep, DreamBegins, DreamEnds, vars
  <1>6. ASSUME NEW c \in Callers, Request(c) \/ Abandon(c)
        PROVE  \A d \in Callers : ReadyRemoval(d)'
    <2>1. /\ claim' = claim /\ \A d \in Callers \ {c} : call'[d] = call[d]
          /\ call'[c] \in Asks("removal") => call[c] \in Asks("removal")
          /\ \/ rows'["removal"] = rows["removal"]
             \/ call[c] \in Asks("removal") /\ call'[c] = "idle"
      BY <1>6, RequestShape
    <2>2. Asks("removal") = Removing /\ "idle" \notin Removing
      BY DEF Asks, Removing
    <2>3. \A d \in Callers : call'[d] \in Removing => call[d] \in Removing
      BY <2>1, <2>2
    <2>4. ASSUME NEW d \in Callers, call'[d] \in Removing
          PROVE  /\ rows'["removal"] = {} /\ claim'["removal"] = None
                 /\ \A e \in Callers \ {d} : call'[e] \notin Removing
      <3>1. /\ rows["removal"] = {} /\ claim["removal"] = None
            /\ \A e \in Callers \ {d} : call[e] \notin Removing
        BY <1>3, <2>3, <2>4 DEF ReadyRemoval
      <3>2. rows'["removal"] = rows["removal"]
        BY <2>1, <2>2, <2>4, <3>1
      <3> QED BY <2>1, <2>3, <3>1, <3>2
    <2> QED BY <2>4 DEF ReadyRemoval
  <1>7. ASSUME rows'["removal"] \subseteq rows["removal"], call' = call,
               claim'["removal"] \in {claim["removal"], None}
                 \/ rows["removal"] # {}
        PROVE  \A c \in Callers : ReadyRemoval(c)'
    BY <1>3, <1>7 DEF ReadyRemoval
  <1>8. ASSUME NEW u \in Tasks, ExpireClaim(u) PROVE \A c \in Callers : ReadyRemoval(c)'
    BY <1>7, <1>8 DEF ExpireClaim, TypeOK
  <1>9. ASSUME NEW w \in Workers, Work(w) \/ Mishap(w) \/ \E t \in Tasks : ClaimTask(w, t)
        PROVE  \A c \in Callers : ReadyRemoval(c)'
    <2>1. CASE \E u \in Tasks : ClaimTask(w, u)
      BY <1>7, <2>1 DEF ClaimTask, TypeOK
    <2>2. CASE MarkRow(w) \/ GiveUp(w)
      BY <1>7, <2>2 DEF MarkRow, GiveUp, TypeOK
    <2>3. CASE Release(w)
      BY <1>7, <2>3 DEF Release, TypeOK
    <2>4. CASE FetchRow(w) \/ PlanBackfill(w) \/ WriteChunk(w) \/ CheckRejoined(w)
               \/ RetractUnlocked(w)
      BY <1>4, <2>4 DEF FetchRow, PlanBackfill, WriteChunk, CheckRejoined, RetractUnlocked
    <2>5. CASE FileDream(w) \/ WriteCompleted(w) \/ WriteFailed(w) \/ Retry(w) \/ Mishap(w)
      BY <1>4, <2>5 DEF FileDream, WriteCompleted, WriteFailed, Retry, Mishap,
                        HandlerRaises, StatusLost, Crash
    <2> QED BY <1>9, <2>1, <2>2, <2>3, <2>4, <2>5 DEF Work
  <1> QED BY <1>5, <1>6, <1>8, <1>9 DEF Next

Reliable == left["abandon"] = 0 /\ left["giveUp"] = 0

TwoInv == FewTraces /\ Ready /\ Reliable

LEMMA TwoInvStep ==
  ASSUME TypeOK, JoinedAll, TwoInv, [Next]_vars
  PROVE  TwoInv'
  <1>1. FewTraces'
    BY FewTracesStep DEF JoinedAll, TwoInv
  <1>2. Reliable'
    BY ChangeSpends, TypeParts DEF TwoInv, Reliable
  <1>3. Ready'
    <2>1. CASE \E c \in Callers : Change(c)
      BY <2>1, ReadyChange DEF TwoInv
    <2>2. CASE ~\E c \in Callers : Change(c)
      <3>1. Member' = Member
        BY <2>2, MemberKept DEF Member
      <3>2. ReadyCopies'
        BY <3>1, MemberCopies DEF JoinedAll, TwoInv, Ready, ReadyCopies
      <3>3. ReadyPlans'
        BY <2>2, PlansReady DEF JoinedAll, TwoInv
      <3>4. ReadyRow'
        BY <2>2, RowReady DEF JoinedAll, TwoInv, Reliable
      <3>5. Member' => \A w \in Workers : ReadyTask(w)'
        BY <2>2, <3>1, TasksReady DEF JoinedAll, TwoInv
      <3>6. ~Member' /\ ~Untouched' => \A c \in Callers : ReadyRemoval(c)'
        BY <2>2, RemovalReady DEF JoinedAll, TwoInv
      <3> QED BY <3>2, <3>3, <3>4, <3>5, <3>6, ReadyNext
    <2> QED BY <2>1, <2>2
  <1> QED BY <1>1, <1>2, <1>3 DEF TwoInv

LEMMA TwoInvInit ==
  ASSUME Budget["change"] <= 2, Budget["abandon"] = 0, Budget["giveUp"] = 0, JoinedInit
  PROVE  TwoInv
  <1>1. Resting.pc = "idle" /\ Resting.restore = NoPlan /\ Resting.task = None
    BY DEF Resting, Between, Locals
  <1>2. Untouched /\ \A t \in Tasks : ~Traces(t)
    BY <1>1, ScopeAssumption DEF JoinedInit, Init, Untouched, Traces, Asks
  <1>3. FewTraces
    <2>1. ~Traces("backfill") /\ ~Traces("removal")
      BY <1>2
    <2> QED BY <1>2, <2>1 DEF JoinedInit, Init, FewTraces
  <1>4. Ready
    <2>1. \A w \in Workers : run[w] = Resting
      BY DEF JoinedInit, Init
    <2>2. /\ \A w \in Workers : run[w].restore = NoPlan
          /\ \A w \in Workers : run[w].pc = "idle" /\ run[w].task = None
      BY <1>1, <2>1
    <2>3. claim["backfill"] = None /\ "backfill" # None
      BY ScopeAssumption DEF JoinedInit, Init
    <2>4. \A d \in Messages \X CopyIds : copies[d] # "deleted"
      BY <1>2 DEF Untouched
    <2> QED BY <1>2, <2>2, <2>3, <2>4 DEF Ready
  <1> QED BY <1>3, <1>4 DEF TwoInv, Reliable, JoinedInit, Init

\* With two changes at most no task that is called for is left out.
LEMMA NothingForgone ==
  ASSUME TypeOK, TwoInv, [Next]_vars, NEW t \in Tasks, Called(t)', Forgone(t)
  PROVE  FALSE
  <1>1. \A c \in Callers : ~Abandon(c)
    BY DEF TwoInv, Reliable, Abandon, Spend
  <1>2. \A w \in Workers : ~GiveUp(w)
    BY DEF TwoInv, Reliable, GiveUp, Spend, Ready
  <1>3. PICK c \in Callers : LeavesOut(c, t)
    BY <1>1, <1>2 DEF Forgone
  <1>4. CASE RemoveSessions(c) /\ t = "removal"
    <2>1. copies' = copies /\ left["change"] >= 1
      BY <1>4 DEF RemoveSessions, docVars, Spend, TypeOK
    <2>2. Traces("removal")
      BY <1>3, <1>4 DEF LeavesOut, Covered, Traces
    <2>3. Untouched
      BY <2>1, <2>2 DEF TwoInv, FewTraces
    <2> QED BY <1>4, <2>1, <2>3 DEF Called, LiveCopies, Untouched
  <1>5. CASE CheckTask(c)
    <2>1. Called(t)
      <3>1. UNCHANGED <<member, copies>>
        BY <1>5 DEF CheckTask, docVars
      <3> QED BY <3>1, SameCalled DEF LiveCopies
    <2>2. CASE t = "backfill"
      <3>1. rows["backfill"] # {}
        BY <1>3, <2>1, <2>2 DEF LeavesOut, Covered, Called, TwoInv, Ready
      <3>2. \A r \in rows["backfill"] : Pending("backfill", r)
        BY <2>1, <2>2 DEF Called, TwoInv, Ready, Pending, Past
      <3> QED BY <1>3, <2>2, <3>1, <3>2 DEF LeavesOut
    <2>3. CASE t = "removal"
      <3>1. ~Member /\ ~Untouched
        <4>1. PICK m \in Messages, k \in CopyIds : copies[m, k] = "live"
          BY <2>1, <2>3 DEF Called, LiveCopies
        <4>2. <<m, k>> \in Messages \X CopyIds /\ copies[<<m, k>>] = "live"
          BY <4>1
        <4> QED BY <2>1, <2>3, <4>2 DEF Called, Untouched
      <3>2. call[c] = "fileRemoval"
        BY <1>3, <1>4, <1>5, <2>3 DEF LeavesOut, RemoveSessions, CheckTask, At
      <3>3. rows["removal"] = {} /\ claim["removal"] = None
        BY <3>1, <3>2 DEF TwoInv, Ready, Removing
      <3> QED BY <1>3, <2>3, <3>3 DEF LeavesOut, Covered
    <2> QED BY <2>2, <2>3
  <1> QED BY <1>3, <1>4, <1>5 DEF LeavesOut

\* Once every request and task is done, the scope's collection is in step with the
\* membership, where a session is added and removed twice at most, no request dies
\* before it files its task and no task is given up, for any number of messages,
\* documents, requests and workers, and of stalls, crashes and failures.  With
\* three changes it is false: a request may take a task for covered that is past
\* its work.
THEOREM ConvergedHolds ==
  Budget["change"] <= 2 /\ Budget["abandon"] = 0 /\ Budget["giveUp"] = 0
    => (JoinedSpec => []Converged)
  <1>1. Budget["change"] <= 2 /\ Budget["abandon"] = 0 /\ Budget["giveUp"] = 0
          /\ JoinedInit => TwoInv
    BY TwoInvInit
  <1>2. TypeOK /\ JoinedAll /\ TwoInv /\ AllDue /\ [Next]_vars => TwoInv' /\ AllDue'
    <2> SUFFICES ASSUME TypeOK, JoinedAll, TwoInv, AllDue, [Next]_vars
                 PROVE  TwoInv' /\ AllDue'
      OBVIOUS
    <2>1. ASSUME NEW t \in Tasks, Called(t)' PROVE Due(t)'
      <3>1. Stays(t)
        BY DueStep DEF JoinedAll
      <3>2. ~Forgone(t)
        BY <2>1, NothingForgone
      <3> QED BY <2>1, <3>1, <3>2 DEF Stays, AllDue
    <2> QED BY <2>1, TwoInvStep DEF AllDue
  <1>3. JoinedSpec => Spec
    BY DEF JoinedSpec, JoinedInit, Spec
  <1> QED
    BY <1>1, <1>2, <1>3, InitDue, DueConverges, JoinedAllInit, JoinedAllStep,
       TypeCorrect, PTL DEF JoinedSpec
===============================================================================
