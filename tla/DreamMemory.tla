----------------------------- MODULE DreamMemory -----------------------------
(***************************************************************************)
(* The omni dreams of one observer/observed pair: how a dream is filed by  *)
(* the API's poll (backlog.py, dreamer/dream_due.py), what it does         *)
(* (dreamer/orchestrator.py), and what it carries to the next dream: the   *)
(* cursor of the work list and the working notes                           *)
(* (dreamer/working_memory.py).                                            *)
(*                                                                         *)
(* Explicit conclusions are numbered in the order of created_at, the start *)
(* of their transaction: last_dream_at and the cursor's position are the   *)
(* number of the last conclusion that they do not precede.  The queue is   *)
(* one row and one claim; DeriverQueue says how claims are lost.           *)
(***************************************************************************)
EXTENDS Integers, FiniteSets

CONSTANTS
  Runners,    \* worker tasks that may take up the pair's dream
  None,       \* no claim, no position, no earlier dream, no working state
  MaxDocs,    \* conclusions that may be saved
  Page,       \* BRIEF_MAX_NEW_CONCLUSIONS
  MaxHolds,   \* MAX_CURSOR_HOLDS
  Threshold,  \* DOCUMENT_THRESHOLD
  Lifetime,   \* PENDING_TTL_DREAMS
  NoteCap,    \* entries of one specialist that fit its share of the notes
  DreamCap,   \* the count of dreams stops here
  Budget      \* bound on requests, removals and mishaps

Events == {"request", "edit", "removal", "toggle", "fault", "outage", "skip", "crash", "stall"}
Bounds == Events \cup {"any"}   \* of each, and of all but edits together
Specialists == {"deduction", "induction"}
Modes == {"brief", "notes", "off"}   \* BRIEF_ENABLED, and whether notes are on

ASSUME DreamAssumption ==
  /\ None \notin Runners \cup Nat
  /\ MaxDocs \in Nat /\ Page \in Nat \ {0} /\ MaxHolds \in Nat \ {0}
  /\ Threshold \in Nat \ {0} /\ Lifetime \in Nat \ {0}
  /\ NoteCap \in Nat /\ DreamCap \in Nat
  /\ Budget \in [Bounds -> Nat]

VARIABLES
  begun,    \* conclusions whose transaction has begun: 1..begun
  docs,     \* those committed at some time
  gone,     \* those soft-deleted since
  purged,   \* those whose row was then deleted
  guard,    \* the collection's dream metadata: when, count and backlog
  cursor,   \* the stored cursor (base is history: where its list began)
  notes,    \* the stored entries
  epoch,    \* how often the notes were reset
  row,      \* an unprocessed queue row of the dream exists
  claim,    \* the runner whose claim row exists
  attempt,  \* the newest queue row: the last conclusion before it, and whether
            \* a dream completed after it
  run,      \* locals of each runner
  mode,     \* settings of the deployment
  left,     \* requests, removals and mishaps still allowed
  worked,   \* history: conclusions each specialist was shown and succeeded with
  forced,   \* history: conclusions of a dream that failed and moved on
  behind    \* history: conclusions uncommitted when a list went past them

docVars    == <<begun, docs, gone, purged>>
memoryVars == <<guard, cursor, notes, epoch>>
queueVars  == <<row, claim, attempt>>
history    == <<worked, forced, behind>>
vars == <<docVars, memoryVars, queueVars, run, mode, left, history>>

Spend(e) ==
  /\ left[e] > 0 /\ left["any"] > 0
  /\ left' = [left EXCEPT ![e] = @ - 1, !["any"] = IF e = "edit" THEN @ ELSE @ - 1]

Live == docs \ gone
InFlight == (1..begun) \ docs
Greatest(S) == CHOOSE x \in S : \A y \in S : y <= x
Least(S) == CHOOSE x \in S : \A y \in S : x <= y

\* The first n of a set of conclusions, oldest first.
Oldest(S, n) == {x \in S : Cardinality({y \in S : y < x}) < n}

NewCursor == [pos |-> None, holds |-> 0, dreams |-> 0, base |-> 0]

Resting == [pc |-> "idle", who |-> "deduction", st |-> None, ok |-> {}, edit |-> {}]

Remembers == mode # "off"   \* working_memory_enabled

-----------------------------------------------------------------------------
(* Conclusions. *)

Begin ==
  /\ begun < MaxDocs /\ begun' = begun + 1
  /\ UNCHANGED <<docs, gone, purged, memoryVars, queueVars, run, mode, left, history>>

Save(d) ==
  /\ d \in InFlight
  /\ docs' = docs \cup {d}
  /\ UNCHANGED <<begun, gone, purged, memoryVars, queueVars, run, mode, left, history>>

\* A session leaves a scope: its conclusions go, and in the same commit the
\* notes are reset under a new epoch.  The cursor stays.
Remove(S) ==
  /\ S \subseteq Live
  /\ Spend("removal")
  /\ gone' = gone \cup S
  /\ notes' = {} /\ epoch' = epoch + 1
  /\ UNCHANGED <<begun, docs, purged, guard, cursor, queueVars, run, mode, history>>

\* cleanup_soft_deleted_documents deletes the rows of a batch.
Purge ==
  /\ gone # purged
  /\ purged' = gone
  /\ UNCHANGED <<begun, docs, gone, memoryVars, queueVars, run, mode, left, history>>

-----------------------------------------------------------------------------
(* Filing. *)

\* enqueue_dream: nothing while the pair's dream is claimed or pending.
Enqueue ==
  /\ claim = None /\ ~row
  /\ row' = TRUE
  /\ attempt' = [after |-> begun, dreamt |-> FALSE]
  /\ UNCHANGED <<docVars, memoryVars, claim, run, mode, history>>

\* Rows of explicit conclusions, soft-deleted ones among them.
Rows == docs \ purged
New == Cardinality(Rows) - guard.count

\* list_due_dreams once the idle timeout and the minimum hours have passed.
Due ==
  /\ New >= Threshold \/ guard.backlog > 0
  /\ Rows # {}
  /\ attempt.after # None => \/ attempt.after < Greatest(Rows)
                             \/ guard.backlog > 0 /\ attempt.dreamt

Poll == Due /\ Enqueue /\ UNCHANGED left

\* A dream scheduled by hand through the API.
Request == Spend("request") /\ Enqueue

\* cleanup_queue_items forgets the row of a dream that was processed.
CleanUp ==
  /\ ~row /\ attempt.after # None
  /\ attempt' = [after |-> None, dreamt |-> FALSE]
  /\ UNCHANGED <<docVars, memoryVars, row, claim, run, mode, left, history>>

-----------------------------------------------------------------------------
(* A dream. *)

At(r, p) == run[r].pc = p
Goes(r, p) == run' = [run EXCEPT ![r].pc = p]

Start(r) ==
  /\ row /\ claim = None /\ At(r, "idle")
  /\ claim' = r
  /\ run' = [run EXCEPT ![r] = [Resting EXCEPT !.pc = "load"]]
  /\ UNCHANGED <<docVars, memoryVars, row, attempt, mode, left, history>>

\* Dreams are disabled for the session, or its configuration cannot be read.
Skip(r) ==
  /\ At(r, "load") /\ Spend("skip")
  /\ Goes(r, "mark")
  /\ UNCHANGED <<docVars, memoryVars, queueVars, mode, history>>

\* What a dream's list starts after: the position, or the last dream.
Since == IF cursor.pos # None THEN cursor.pos
         ELSE IF guard.at # None THEN guard.at ELSE 0
Matching == {d \in Live : d > Since}
Shown == IF mode = "brief" THEN Oldest(Matching, Page) ELSE {}

\* load_dream_state
State == [pos |-> cursor.pos, holds |-> cursor.holds, dreams |-> cursor.dreams,
          base |-> IF cursor.pos = None THEN Since ELSE cursor.base,
          epoch |-> epoch, brief |-> mode = "brief", shown |-> Shown,
          remaining |-> IF mode = "brief" THEN Cardinality(Matching \ Shown) ELSE 0]

Load(r) ==
  /\ At(r, "load")
  /\ run' = [run EXCEPT ![r] = [@ EXCEPT !.pc = "notes",
                                         !.st = IF Remembers THEN State ELSE None]]
  /\ behind' = IF Remembers /\ Shown # {}
               THEN behind \cup {d \in InFlight : d < Greatest(Shown)} ELSE behind
  /\ UNCHANGED <<docVars, memoryVars, queueVars, mode, left, worked, forced>>

LoadFails(r) ==
  /\ At(r, "load") /\ Remembers /\ Spend("fault")
  /\ Goes(r, "notes")
  /\ UNCHANGED <<docVars, memoryVars, queueVars, mode, history>>

HasNotes(r) == run[r].st # None

\* entry_expired as of the dream that is running
Fresh(r, S) == {n \in S : run[r].st.dreams + 1 - n.born < Lifetime}

\* load_notes_for_pass: prune the notes, and write them back if that changed
\* anything.  A failure leaves the pass without notes in its prompt.
LoadNotes(r) ==
  /\ At(r, "notes")
  /\ run' = [run EXCEPT ![r] =
       IF HasNotes(r) /\ Fresh(r, notes) # notes
       THEN [@ EXCEPT !.pc = "prune", !.edit = Fresh(r, notes)]
       ELSE [@ EXCEPT !.pc = "pass"]]
  /\ UNCHANGED <<docVars, memoryVars, queueVars, mode, left, history>>

\* _store_entries: one UPDATE, while the epoch is the dream's.
\* Mutant: the epoch is not compared when the entries are written.
Stored_Anyway(r) == run[r].edit
Stored(r) == IF epoch = run[r].st.epoch THEN run[r].edit ELSE notes

StorePruned(r) ==
  /\ At(r, "prune")
  /\ notes' = Stored(r)
  /\ run' = [run EXCEPT ![r] = [@ EXCEPT !.pc = "pass", !.edit = {}]]
  /\ UNCHANGED <<docVars, guard, cursor, epoch, queueVars, mode, left, history>>

\* The model adds an entry of its own or removes one (update_notes).
Own(r, S) == {n \in S : n.by = run[r].who}
NewNote(r) == [by |-> run[r].who, born |-> run[r].st.dreams + 1, epoch |-> run[r].st.epoch]
Edited(r) ==
  LET kept == Fresh(r, notes)
  IN {kept \ {n} : n \in Own(r, kept)}
     \cup IF Cardinality(Own(r, kept)) < NoteCap THEN {kept \cup {NewNote(r)}} ELSE {}

Edit(r) ==
  /\ At(r, "pass") /\ HasNotes(r) /\ Spend("edit")
  /\ epoch = run[r].st.epoch
  /\ \E S \in Edited(r) : run' = [run EXCEPT ![r] = [@ EXCEPT !.pc = "edit", !.edit = S]]
  /\ UNCHANGED <<docVars, memoryVars, queueVars, mode, history>>

StoreEdit(r) ==
  /\ At(r, "edit")
  /\ notes' = Stored(r)
  /\ run' = [run EXCEPT ![r] = [@ EXCEPT !.pc = "pass", !.edit = {}]]
  /\ UNCHANGED <<docVars, guard, cursor, epoch, queueVars, mode, left, history>>

AfterPass(r) == IF run[r].who = "deduction" THEN "notes" ELSE "guard"
Ended(r, ok) ==
  run' = [run EXCEPT ![r] = [@ EXCEPT !.pc = AfterPass(r), !.who = "induction", !.ok = ok]]

Succeed(r) ==
  /\ At(r, "pass")
  /\ Ended(r, run[r].ok \cup {run[r].who})
  /\ worked' = IF HasNotes(r)
               THEN [worked EXCEPT ![run[r].who] = @ \cup run[r].st.shown] ELSE worked
  /\ UNCHANGED <<docVars, memoryVars, queueVars, mode, left, forced, behind>>

\* An exception of a specialist is logged, and the dream goes on.  One of them
\* may fail in every dream; that both do in one dream is an outage.
Fail(r) ==
  /\ At(r, "pass")
  /\ IF run[r].who = "induction" /\ run[r].ok = {} THEN Spend("outage") ELSE UNCHANGED left
  /\ Ended(r, run[r].ok)
  /\ UNCHANGED <<docVars, memoryVars, queueVars, mode, history>>

AnyOk(r) == run[r].ok # {}
AllOk(r) == run[r].ok = Specialists

Counted(r, st) == IF AnyOk(r) /\ st.dreams < DreamCap THEN st.dreams + 1 ELSE st.dreams
HeldTooLong(r, st) == AnyOk(r) /\ st.holds + 1 >= MaxHolds
\* Mutant: one specialist's success moves the position.
Moves_Any(r, st) == st.shown # {} /\ AnyOk(r)
Moves(r, st) == st.shown # {} /\ (AllOk(r) \/ HeldTooLong(r, st))

\* plan_cursor_move: where a dream leaves the cursor.
Planned(r, st) ==
  LET c == [pos |-> st.pos, holds |-> st.holds, dreams |-> Counted(r, st), base |-> st.base]
  IN IF ~st.brief THEN [c EXCEPT !.pos = None, !.holds = 0]
     ELSE IF st.shown = {} THEN c
     ELSE IF Moves(r, st) THEN [c EXCEPT !.pos = Greatest(st.shown), !.holds = 0]
     ELSE [c EXCEPT !.holds = IF AnyOk(r) THEN @ + 1 ELSE @,
                    !.pos = IF @ = None THEN Least(st.shown) - 1 ELSE @]

\* Mutant: those that are to be shown again do not count as due.
Backlog_Unshown(r) ==
  IF ~Remembers \/ run[r].st = None THEN 0 ELSE run[r].st.remaining

\* plan_cursor_move: the conclusions still due.
Backlog(r) ==
  LET st == run[r].st
  IN IF ~Remembers \/ st = None THEN 0
     ELSE IF st.shown = {} \/ Moves(r, st) THEN st.remaining
     ELSE st.remaining + Cardinality(st.shown)

AtLeastZero(n) == IF n < 0 THEN 0 ELSE n
Baseline(r) == AtLeastZero(Cardinality(Rows) - Backlog(r))
AfterGuard(r) ==
  IF ~Remembers \/ (~AnyOk(r) /\ run[r].st = None) THEN "mark"
  ELSE IF run[r].st = None THEN "reread" ELSE "cursor"

\* The guard pair and the backlog, under the collection's row lock.
WriteGuard(r) ==
  /\ At(r, "guard")
  /\ guard' = [at |-> begun, count |-> Baseline(r),
               backlog |-> IF AnyOk(r) THEN Backlog(r) ELSE 0]
  /\ cursor' = IF ~Remembers /\ cursor.pos # None
               THEN [cursor EXCEPT !.pos = None, !.holds = 0] ELSE cursor
  /\ attempt' = [attempt EXCEPT !.dreamt = attempt.after # None]
  /\ behind' = IF cursor'.pos = None THEN behind \cup InFlight ELSE behind
  /\ Goes(r, AfterGuard(r))
  /\ UNCHANGED <<docVars, notes, epoch, row, claim, mode, left, worked, forced>>

\* advance_cursor without a state holds the position it reads now.
Reread(r) ==
  /\ At(r, "reread")
  /\ run' = [run EXCEPT ![r] = [@ EXCEPT !.pc = "cursor",
               !.st = [State EXCEPT !.brief = TRUE, !.shown = {}, !.remaining = 0,
                                    !.base = cursor.base]]]
  /\ UNCHANGED <<docVars, memoryVars, queueVars, mode, left, history>>

AdvanceCursor(r) ==
  /\ At(r, "cursor")
  /\ cursor' = Planned(r, run[r].st)
  /\ forced' = IF AnyOk(r) /\ run[r].st.holds + 1 >= MaxHolds
               THEN forced \cup run[r].st.shown ELSE forced
  /\ Goes(r, "mark")
  /\ UNCHANGED <<docVars, guard, notes, epoch, queueVars, mode, left, worked, behind>>

\* An exception ends the dream, and the row is processed all the same.
WriteFails(r) ==
  /\ run[r].pc \in {"guard", "reread", "cursor"} /\ Spend("fault")
  /\ Goes(r, "mark")
  /\ UNCHANGED <<docVars, memoryVars, queueVars, mode, history>>

\* The row is marked processed and the claim, if it is still there, released.
Finish(r) ==
  /\ At(r, "mark")
  /\ row' = FALSE
  /\ claim' = IF claim = r THEN None ELSE claim
  /\ run' = [run EXCEPT ![r] = Resting]
  /\ UNCHANGED <<docVars, memoryVars, attempt, mode, left, history>>

-----------------------------------------------------------------------------
(* Mishaps. *)

Crash(r) ==
  /\ ~At(r, "idle") /\ Spend("crash")
  /\ run' = [run EXCEPT ![r] = Resting]
  /\ UNCHANGED <<docVars, memoryVars, queueVars, mode, history>>

\* A claim is stale when its runner is dead, or at work for too long.
Expire ==
  /\ claim # None
  /\ IF At(claim, "idle") THEN UNCHANGED left ELSE Spend("stall")
  /\ claim' = None
  /\ UNCHANGED <<docVars, memoryVars, row, attempt, run, mode, history>>

\* The deployment restarts with other settings.
Toggle ==
  /\ \A r \in Runners : At(r, "idle")
  /\ Spend("toggle")
  /\ \E m \in Modes \ {mode} : mode' = m
  /\ UNCHANGED <<docVars, memoryVars, queueVars, run, history>>

-----------------------------------------------------------------------------
Init ==
  /\ begun = 0 /\ docs = {} /\ gone = {} /\ purged = {}
  /\ guard = [at |-> None, count |-> 0, backlog |-> 0]
  /\ cursor = NewCursor /\ notes = {} /\ epoch = 0
  /\ row = FALSE /\ claim = None /\ attempt = [after |-> None, dreamt |-> FALSE]
  /\ run = [r \in Runners |-> Resting]
  /\ mode = "brief"
  /\ left = Budget
  /\ worked = [s \in Specialists |-> {}] /\ forced = {} /\ behind = {}

Pass(r) == LoadNotes(r) \/ StorePruned(r) \/ StoreEdit(r) \/ Succeed(r) \/ Fail(r)
Close(r) == WriteGuard(r) \/ Reread(r) \/ AdvanceCursor(r) \/ Finish(r)
Dream(r) == Load(r) \/ Pass(r) \/ Close(r)
Mishap(r) == Skip(r) \/ LoadFails(r) \/ WriteFails(r) \/ Crash(r)
File == Poll \/ Request \/ CleanUp

Next ==
  \/ Begin \/ Purge
  \/ \E d \in 1..MaxDocs : Save(d)
  \/ \E S \in SUBSET Live : Remove(S)
  \/ File
  \/ \E r \in Runners : Start(r) \/ Dream(r) \/ Edit(r) \/ Mishap(r)
  \/ Expire \/ Toggle

Spec == Init /\ [][Next]_vars

\* Transactions end, the API polls, dreams are taken up and go on, and the clock
\* frees the claims of dead runners.
FairSpec ==
  /\ Spec
  /\ \A d \in 1..MaxDocs : WF_vars(Save(d))
  /\ WF_vars(Poll)
  /\ \A r \in Runners : WF_vars(Start(r)) /\ WF_vars(Dream(r))
  /\ WF_vars(Expire /\ UNCHANGED left)

-----------------------------------------------------------------------------
(* Properties. *)

Positions == {None} \cup (-1..MaxDocs)
Entries == [by : Specialists, born : 1..DreamCap + 1, epoch : Nat]
States == [pos : Positions, holds : 0..MaxHolds - 1, dreams : 0..DreamCap, base : 0..MaxDocs,
           epoch : Nat, brief : BOOLEAN, shown : SUBSET (1..MaxDocs), remaining : 0..MaxDocs]
Points == {"idle", "load", "notes", "prune", "pass", "edit", "guard", "reread", "cursor", "mark"}
Runs == [pc : Points, who : Specialists, st : States \cup {None}, ok : SUBSET Specialists,
         edit : SUBSET Entries]

ASSUME NoneIsNoState == None \notin States

\* The collection's metadata and the dreams are well typed: the recorded count
\* is never negative, and the position never held for MAX_CURSOR_HOLDS dreams.
TypeOK ==
  /\ begun \in 0..MaxDocs
  /\ docs \subseteq 1..begun /\ gone \subseteq docs /\ purged \subseteq gone
  /\ guard \in [at : {None} \cup (0..MaxDocs), count : Nat, backlog : 0..MaxDocs]
  /\ cursor \in [pos : Positions, holds : 0..MaxHolds - 1, dreams : 0..DreamCap,
                 base : 0..MaxDocs]
  /\ notes \subseteq Entries /\ epoch \in Nat
  /\ row \in BOOLEAN /\ claim \in Runners \cup {None}
  /\ attempt \in [after : {None} \cup (0..MaxDocs), dreamt : BOOLEAN]
  /\ run \in [Runners -> Runs]
  /\ \A r \in Runners : run[r].pc \in {"prune", "edit", "cursor"} => run[r].st # None
  /\ mode \in Modes
  /\ left \in [Bounds -> Nat]
  /\ worked \in [Specialists -> SUBSET (1..MaxDocs)]
  /\ forced \subseteq 1..MaxDocs /\ behind \subseteq 1..MaxDocs

Consolidated(d) == (\A s \in Specialists : d \in worked[s]) \/ d \in forced

\* The position never passes a conclusion that both specialists did not work on,
\* short of a list that failed MAX_CURSOR_HOLDS times: whatever is saved, removed
\* or taken over while a dream runs, and wherever a dream dies.  Its list begins
\* at base, and what was uncommitted when the list was read may fall behind.
PassedWasWorked ==
  cursor.pos # None =>
    \A d \in Live \ behind : d > cursor.base /\ d <= cursor.pos => Consolidated(d)

\* No note written by a dream that began before a removal is stored after it,
\* although the dream reads and writes the notes in separate transactions.
NotesOfThisEpoch == \A n \in notes : n.epoch = epoch

OnList(d) == mode = "brief" /\ d \in Live /\ d > Since

\* Nothing but crashes goes wrong, and conclusions are saved between dreams.
Healthy ==
  /\ \A e \in Events \ {"request", "edit", "crash"} : left[e] = Budget[e]
  /\ row => InFlight = {}

\* The work list is worked off though no more conclusions are saved, and though one
\* specialist fails in every dream (with threshold 1, all conclusions are due).
ListDrains == []Healthy => <>[](\A d \in 1..MaxDocs : ~OnList(d))

\* "The position moves only through the conclusions the dream was shown": between
\* dreams, a conclusion that was not worked on is on the next list.
NoneForgotten ==
  mode = "brief" /\ ~row /\ (\A r \in Runners : At(r, "idle")) =>
    \A d \in Live \ behind : OnList(d) \/ Consolidated(d)

\* "the baseline count advances only when consolidation actually happened"
BaselineNeedsWork ==
  [][guard'.count > guard.count =>
       \E r \in Runners : run[r].pc = "guard" /\ run[r].ok # {}]_vars
=============================================================================
