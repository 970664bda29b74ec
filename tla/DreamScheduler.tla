---------------------------- MODULE DreamScheduler ----------------------------
(***************************************************************************)
(* The timers of the deriver's own dream scheduler for one observer/       *)
(* observed pair (dreamer/dream_scheduler.py), the saves of conclusions    *)
(* that set them (crud/representation.py), the filing of a dream           *)
(* (deriver/enqueue.py) and the dream that moves the baseline              *)
(* (dreamer/orchestrator.py).                                              *)
(*                                                                         *)
(* A process is one event loop: what has no await in it is one step.  When *)
(* a cancelled timer ends, its done callback and the task that waited for  *)
(* it run back to back, in that order.                                     *)
(***************************************************************************)
EXTENDS Naturals, FiniteSets

CONSTANTS
  Processes,  \* deriver processes, each with a scheduler of its own
  Tasks,      \* their tasks: each saves conclusions, or runs the dream
  Home,       \* the process of a task
  Timers,     \* asyncio tasks of _delayed_dream
  Callers,    \* requests that file a dream by hand
  None,       \* no timer, no process, no holder
  Threshold,  \* DOCUMENT_THRESHOLD
  MaxDocs,    \* explicit conclusions that may be saved
  MaxDreams,  \* dreams that may complete
  Budget      \* bound on mishaps and follow-up dreams

Events == {"crash", "failure", "disabled", "backlog"}
Bounds == Events \cup {"any"}   \* of each, and of all of them together

ASSUME SchedulerAssumption ==
  /\ Home \in [Tasks -> Processes]
  /\ None \notin Processes \cup Tasks \cup Timers
  /\ Timers \cap Callers = {}
  /\ Threshold \in Nat \ {0} /\ MaxDocs \in Nat /\ MaxDreams \in Nat
  /\ Budget \in [Bounds -> Nat]

Filers == Timers \cup Callers

VARIABLES
  docs,     \* explicit conclusions in the collection
  guard,    \* last_dream_document_count, and which dream wrote last_dream_at
  aged,     \* dreams up to this one are MIN_HOURS_BETWEEN_DREAMS ago
  rows,     \* unprocessed queue rows of the pair's dream
  claim,    \* the task whose claim row exists
  pending,  \* pending_dreams of each process
  filer,    \* control point of each timer and request
  host,     \* the process a timer runs in
  task,     \* locals of each task
  left      \* mishaps and follow-ups that may still happen

timerVars == <<pending, filer, host>>
queueVars == <<rows, claim>>
vars == <<docs, guard, aged, queueVars, timerVars, task, left>>

Spend(e) ==
  /\ left[e] > 0 /\ left["any"] > 0
  /\ left' = [left EXCEPT ![e] = @ - 1, !["any"] = @ - 1]

Resting == [pc |-> "idle", seen |-> [count |-> 0, last |-> 0], awaits |-> None, next |-> "idle"]

At(t, p) == task[t].pc = p
Goes(t, p) == task' = [task EXCEPT ![t].pc = p]

-----------------------------------------------------------------------------
(* Saving conclusions: save_representation and check_and_schedule_dream. *)

\* The collection is read before the conclusions are embedded and saved.
BeginSave(t) ==
  /\ At(t, "idle") /\ docs + Cardinality({s \in Tasks : At(s, "save")}) < MaxDocs
  /\ task' = [task EXCEPT ![t] = [Resting EXCEPT !.pc = "save", !.seen = guard]]
  /\ UNCHANGED <<docs, guard, aged, queueVars, timerVars, left>>

Save(t) ==
  /\ At(t, "save")
  /\ docs' = docs + 1
  /\ Goes(t, "check")
  /\ UNCHANGED <<guard, aged, queueVars, timerVars, left>>

\* Mutant: one conclusion more is asked for.
Reached_OffByOne(n) == n > Threshold
Reached(n) == n >= Threshold

\* The threshold and the hours since the last dream, of the collection as read.
Check(t) ==
  /\ At(t, "check")
  /\ Goes(t, IF /\ docs >= task[t].seen.count /\ Reached(docs - task[t].seen.count)
                /\ task[t].seen.last <= aged
             THEN "lookUp" ELSE "idle")
  /\ UNCHANGED <<docs, guard, aged, queueVars, timerVars, left>>

LookUp(t) ==
  /\ At(t, "lookUp")
  /\ task' = [task EXCEPT ![t].pc = IF rows = 0 THEN "schedule" ELSE "idle",
                          ![t].next = "idle"]
  /\ UNCHANGED <<docs, guard, aged, queueVars, timerVars, left>>

-----------------------------------------------------------------------------
(* Timers: schedule_dream and cancel_dream. *)

Fresh == {f \in Timers : filer[f] = "none"}

\* Process p creates a timer and puts it in the dictionary; other is the timer it
\* replaces, or None.  (Timers are alike: which is new does not matter.)
Sets(p, other) ==
  LET new == CHOOSE f \in Fresh : TRUE
  IN
  /\ Fresh # {}
  /\ pending' = [pending EXCEPT ![p] = new]
  /\ filer' = [f \in Filers |-> IF f = new THEN "asleep"
                                ELSE IF f = other THEN "none" ELSE filer[f]]
  /\ host' = [f \in Timers |-> IF f = new THEN p
                               ELSE IF f = other THEN None ELSE host[f]]

Goner(p) == pending[p] # None /\ filer[pending[p]] # "ended"

\* There is no timer, or it has ended and its callback is about to run: the await
\* of cancel_dream returns at once.
ScheduleAtOnce(t) ==
  /\ At(t, "schedule") /\ ~Goner(Home[t])
  /\ Sets(Home[t], None)
  /\ Goes(t, task[t].next)
  /\ UNCHANGED <<docs, guard, aged, queueVars, left>>

\* Mutant: the timer stays in the dictionary until its callback runs.
Popped_Not(f) == f
Popped(f) == None

\* The timer is taken out, cancelled, and awaited.
CancelFirst(t) ==
  /\ At(t, "schedule") /\ Goner(Home[t])
  /\ LET old == pending[Home[t]]
     IN /\ pending' = [pending EXCEPT ![Home[t]] = Popped(old)]
        /\ filer' = [filer EXCEPT ![old] = IF @ = "insert" THEN "cutOff" ELSE "cancelled"]
        /\ task' = [task EXCEPT ![t].pc = "await", ![t].awaits = old]
  /\ UNCHANGED <<docs, guard, aged, queueVars, host, left>>

\* The cancelled timer ends: its callback removes what the dictionary holds, and
\* the waiting task sets the next timer.  A commit under way may get through.
Unwind(t) ==
  /\ At(t, "await")
  /\ Sets(Home[t], task[t].awaits)
  /\ task' = [task EXCEPT ![t].pc = task[t].next, ![t].awaits = None]
  /\ IF filer[task[t].awaits] = "cutOff" /\ rows = 0 THEN rows' \in {0, 1} ELSE UNCHANGED rows
  /\ UNCHANGED <<docs, guard, aged, claim, left>>

Fire(f) ==
  /\ f \in Timers /\ filer[f] = "asleep"
  /\ filer' = [filer EXCEPT ![f] = "look"]
  /\ UNCHANGED <<docs, guard, aged, queueVars, pending, host, task, left>>

\* The done callback removes whatever the key names.
Callback(f) ==
  /\ f \in Timers /\ filer[f] = "ended"
  /\ pending' = [pending EXCEPT ![host[f]] = None]
  /\ filer' = [filer EXCEPT ![f] = "none"]
  /\ host' = [host EXCEPT ![f] = None]
  /\ UNCHANGED <<docs, guard, aged, queueVars, task, left>>

-----------------------------------------------------------------------------
(* Filing: execute_dream and enqueue_dream. *)

Reaches(f, p) == filer' = [filer EXCEPT ![f] = p]
Files(f, p, q) == filer[f] = p /\ Reaches(f, q)

Request(c) ==
  /\ c \in Callers /\ Files(c, "none", "look")
  /\ UNCHANGED <<docs, guard, aged, queueVars, pending, host, task, left>>

\* The configuration of the newest conclusion's session, then the claim.
SeesClaim(f) ==
  /\ filer[f] = "look"
  /\ \/ Reaches(f, IF claim = None THEN "row" ELSE "ended") /\ UNCHANGED left
     \/ Spend("disabled") /\ Reaches(f, "ended")
  /\ UNCHANGED <<docs, guard, aged, queueVars, pending, host, task>>

SeesRow(f) ==
  /\ Files(f, "row", IF rows = 0 THEN "insert" ELSE "ended")
  /\ UNCHANGED <<docs, guard, aged, queueVars, pending, host, task, left>>

\* Mutant: no unique index on the pair's unprocessed dream.
Admitted_Always == 1
\* uq_queue_dream_pending_work_unit_key
Admitted == IF rows = 0 THEN 1 ELSE 0

Insert(f) ==
  /\ Files(f, "insert", "ended")
  /\ rows' = rows + Admitted
  /\ UNCHANGED <<docs, guard, aged, claim, pending, host, task, left>>

-----------------------------------------------------------------------------
(* The dream: claimed by a task of some process, and process_dream. *)

Start(t) ==
  /\ At(t, "idle") /\ rows > 0 /\ claim = None /\ guard.last < MaxDreams
  /\ claim' = t
  /\ task' = [task EXCEPT ![t] = [Resting EXCEPT !.pc = "dream", !.next = "mark"]]
  /\ UNCHANGED <<docs, guard, aged, rows, timerVars, left>>

\* The guard pair; a follow-up dream is scheduled when conclusions are left over.
Complete(t) ==
  /\ At(t, "dream")
  /\ guard' = [count |-> docs, last |-> guard.last + 1]
  /\ \/ Goes(t, "mark") /\ UNCHANGED left
     \/ Spend("backlog") /\ Goes(t, "schedule")
  /\ UNCHANGED <<docs, aged, queueVars, timerVars>>

\* run_dream returns nothing, or raises: the guard pair stays.
DreamFails(t) ==
  /\ At(t, "dream") /\ Spend("failure")
  /\ Goes(t, "mark")
  /\ UNCHANGED <<docs, guard, aged, queueVars, timerVars>>

Mark(t) ==
  /\ At(t, "mark")
  /\ rows' = IF rows > 0 THEN rows - 1 ELSE 0
  /\ Goes(t, "release")
  /\ UNCHANGED <<docs, guard, aged, claim, timerVars, left>>

Release(t) ==
  /\ At(t, "release")
  /\ claim' = IF claim = t THEN None ELSE claim
  /\ task' = [task EXCEPT ![t] = Resting]
  /\ UNCHANGED <<docs, guard, aged, rows, timerVars, left>>

-----------------------------------------------------------------------------
(* Time and crashes. *)

HoursPass ==
  /\ aged < guard.last /\ aged' = guard.last
  /\ UNCHANGED <<docs, guard, queueVars, timerVars, task, left>>

\* A process dies and starts again; a stop cancels the named timers and exits.
Crash(p) ==
  /\ Spend("crash")
  /\ task' = [t \in Tasks |-> IF Home[t] = p THEN Resting ELSE task[t]]
  /\ pending' = [pending EXCEPT ![p] = None]
  /\ filer' = [f \in Filers |-> IF f \in Timers /\ host[f] = p THEN "none" ELSE filer[f]]
  /\ host' = [f \in Timers |-> IF host[f] = p THEN None ELSE host[f]]
  /\ UNCHANGED <<docs, guard, aged, queueVars>>

\* The claim of a dead task goes stale.
Dreaming(t) == task[t].next = "mark" \/ task[t].pc \in {"dream", "mark", "release"}
Expire ==
  /\ claim # None /\ ~Dreaming(claim)
  /\ claim' = None
  /\ UNCHANGED <<docs, guard, aged, rows, timerVars, task, left>>

-----------------------------------------------------------------------------
Init ==
  /\ docs = 0 /\ guard = [count |-> 0, last |-> 0] /\ aged = 0
  /\ rows = 0 /\ claim = None
  /\ pending = [p \in Processes |-> None]
  /\ filer = [f \in Filers |-> "none"] /\ host = [f \in Timers |-> None]
  /\ task = [t \in Tasks |-> Resting]
  /\ left = Budget

Saving(t) == Save(t) \/ Check(t) \/ LookUp(t)
Scheduling(t) == ScheduleAtOnce(t) \/ CancelFirst(t) \/ Unwind(t)
Dream(t) == Complete(t) \/ DreamFails(t) \/ Mark(t) \/ Release(t)
Proceed(t) == Saving(t) \/ Scheduling(t) \/ Dream(t)
File(f) == Fire(f) \/ SeesClaim(f) \/ SeesRow(f) \/ Insert(f) \/ Callback(f)

Next ==
  \/ \E t \in Tasks : BeginSave(t) \/ Proceed(t) \/ Start(t)
  \/ \E f \in Filers : File(f) \/ Request(f)
  \/ HoursPass \/ \E p \in Processes : Crash(p)
  \/ Expire

Spec == Init /\ [][Next]_vars

\* Event loops run, dreams are taken up, and claims of dead tasks expire.
FairSpec ==
  /\ Spec
  /\ \A t \in Tasks : WF_vars(Proceed(t)) /\ WF_vars(Start(t))
  /\ \A f \in Filers : WF_vars(File(f))
  /\ WF_vars(Expire)

-----------------------------------------------------------------------------
(* Properties. *)

Guards == [count : Nat, last : Nat]
TaskPoints == {"idle", "save", "check", "lookUp", "schedule", "await", "dream", "mark", "release"}
FilerPoints == {"none", "asleep", "look", "row", "insert", "cancelled", "cutOff", "ended"}

TaskType == [pc : TaskPoints, seen : Guards, awaits : Timers \cup {None}, next : {"idle", "mark"}]

\* The dictionaries, timers, rows and tasks are well typed.
TypeOK ==
  /\ docs \in Nat /\ guard \in Guards /\ aged \in Nat
  /\ rows \in Nat /\ claim \in Tasks \cup {None}
  /\ pending \in [Processes -> Timers \cup {None}]
  /\ filer \in [Filers -> FilerPoints]
  /\ host \in [Timers -> Processes \cup {None}]
  /\ task \in [Tasks -> TaskType]
  /\ left \in [Bounds -> Nat]

\* However many timers of however many processes fire together with requests, at
\* most one dream of the pair is unprocessed at any time: the checks before the
\* insert are each a read of their own, and only the unique index decides.
OneRow == rows <= 1

\* What a dictionary names is a timer of its process that is not cancelled, though
\* callbacks remove by key and two tasks may replace the timer at once.
NamedIsLive ==
  \A p \in Processes : pending[p] # None =>
    /\ host[pending[p]] = p
    /\ filer[pending[p]] \notin {"none", "cancelled", "cutOff"}

\* Saves put the first dream off, and timers get lost from the dictionary, but when
\* the threshold is reached a dream is filed in the end if no process dies.
FirstDreamIsFiled ==
  [](left["crash"] = Budget["crash"] /\ left["disabled"] = Budget["disabled"]) =>
    (docs >= Threshold ~> rows > 0 \/ guard.last > 0 \/ left["failure"] # Budget["failure"])

\* "Minimum hours between dreams have passed": no timer files a dream sooner.
SpacedOut == [][rows' > rows => guard.last <= aged \/ \E c \in Callers : filer[c] # "none"]_vars

\* "No dream is already scheduled for this collection": a process has one timer.
OneTimer ==
  \A p \in Processes :
    Cardinality({f \in Timers : host[f] = p /\ filer[f] \in {"asleep", "look", "row", "insert"}}) <= 1
=============================================================================
