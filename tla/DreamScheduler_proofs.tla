------------------------ MODULE DreamScheduler_proofs ------------------------
(***************************************************************************)
(* OneRow and NamedIsLive for any number of processes, tasks and timers.   *)
(* NamedIsLive is inductive with Awaiting: a cancelled timer belongs to    *)
(* one task, which waits for it in its process, so that neither a task     *)
(* that ends it nor one that cancels the next takes another's timer.       *)
(***************************************************************************)
EXTENDS DreamScheduler, TLAPS

Awaiting ==
  \A t \in Tasks : At(t, "await") =>
    /\ task[t].awaits \in Timers
    /\ host[task[t].awaits] = Home[t]
    /\ filer[task[t].awaits] \in {"cancelled", "cutOff"}
    /\ \A s \in Tasks : At(s, "await") /\ task[s].awaits = task[t].awaits => s = t

IInv == TypeOK /\ OneRow /\ NamedIsLive /\ Awaiting

USE DEF At, Goes, timerVars, queueVars

LEMMA InitIsFine == Init => IInv
<1> SUFFICES ASSUME Init PROVE IInv
  OBVIOUS
<1>1. TypeOK
  BY SchedulerAssumption DEF SchedulerAssumption, Init, TypeOK, Guards, TaskPoints, FilerPoints, TaskType, Resting
<1>2. OneRow /\ NamedIsLive /\ Awaiting
  BY DEF Init, OneRow, NamedIsLive, Awaiting, Resting
<1> QED BY <1>1, <1>2 DEF IInv

LEMMA Spending ==
  ASSUME TypeOK, NEW e \in Events, Spend(e)
  PROVE  left' \in [Bounds -> Nat]
<1>1. e # "any" /\ e \in Bounds /\ "any" \in Bounds
  BY DEF Events, Bounds
<1>2. left[e] \in Nat \ {0} /\ left["any"] \in Nat \ {0}
  BY <1>1 DEF TypeOK, Spend
<1> QED BY <1>1, <1>2 DEF TypeOK, Spend

\* A task that moves within its locals' types, and does not wait.
Moves(t) == \E r \in TaskType : r.pc # "await" /\ task' = [task EXCEPT ![t] = r]

LEMMA GoesMoves ==
  ASSUME TypeOK, NEW t \in Tasks, NEW p \in TaskPoints \ {"await"}, Goes(t, p)
  PROVE  Moves(t)
<1>1. task[t] \in TaskType
  BY DEF TypeOK
<1>2. [task[t] EXCEPT !.pc = p] \in TaskType
  BY <1>1 DEF TaskType
<1>3. task' = [task EXCEPT ![t] = [task[t] EXCEPT !.pc = p]]
  BY DEF TypeOK
<1>4. [task[t] EXCEPT !.pc = p].pc = p
  BY <1>1 DEF TaskType
<1> QED BY <1>2, <1>3, <1>4 DEF Moves

LEMMA RestingIsTyped ==
  /\ Resting \in TaskType /\ Resting.pc = "idle"
  /\ \A p \in TaskPoints, g \in Guards, n \in {"idle", "mark"} :
       /\ [Resting EXCEPT !.pc = p, !.seen = g] \in TaskType
       /\ [Resting EXCEPT !.pc = p, !.seen = g].pc = p
       /\ [Resting EXCEPT !.pc = p, !.next = n] \in TaskType
       /\ [Resting EXCEPT !.pc = p, !.next = n].pc = p
BY ZenonT(60) DEF Resting, TaskType, TaskPoints, Guards

\* Steps that leave the timers alone, and at which no task begins to wait.
LEMMA Aside ==
  ASSUME IInv, NEW t \in Tasks, Moves(t), UNCHANGED timerVars
  PROVE  /\ task' \in [Tasks -> TaskType]
         /\ UNCHANGED timerVars /\ NamedIsLive' /\ Awaiting'
<1>1. PICK r \in TaskType : r.pc # "await" /\ task' = [task EXCEPT ![t] = r]
  BY DEF Moves
<1>2. task' \in [Tasks -> TaskType]
  BY <1>1 DEF IInv, TypeOK
<1>3. NamedIsLive'
  BY DEF IInv, NamedIsLive
<1>4. Awaiting'
  <2> SUFFICES ASSUME NEW u \in Tasks, At(u, "await")'
               PROVE  /\ task'[u].awaits \in Timers
                      /\ host'[task'[u].awaits] = Home[u]
                      /\ filer'[task'[u].awaits] \in {"cancelled", "cutOff"}
                      /\ \A s \in Tasks : At(s, "await")' /\ task'[s].awaits = task'[u].awaits => s = u
    BY DEF Awaiting
  <2>1. \A s \in Tasks : At(s, "await")' => task'[s] = task[s] /\ At(s, "await")
    BY <1>1 DEF IInv, TypeOK
  <2> QED BY <2>1 DEF IInv, Awaiting
<1> QED BY <1>2, <1>3, <1>4

LEMMA SavingIsFine ==
  ASSUME IInv, NEW t \in Tasks, BeginSave(t) \/ Saving(t)
  PROVE  IInv'
<1>1. /\ UNCHANGED timerVars /\ rows' = rows /\ claim' = claim /\ left' = left /\ guard' = guard
      /\ docs' \in Nat /\ aged' = aged
  BY DEF IInv, TypeOK, BeginSave, Saving, Save, Check, LookUp
<1>2. Moves(t)
  <2>1. CASE BeginSave(t)
    <3>1. "save" \in TaskPoints \ {"await"} /\ guard \in Guards
      BY DEF IInv, TypeOK, TaskPoints
    <3> QED BY <2>1, <3>1, RestingIsTyped DEF BeginSave, Moves
  <2>2. CASE Save(t)
    <3>1. "check" \in TaskPoints \ {"await"}
      BY DEF TaskPoints
    <3> QED BY <2>2, <3>1, GoesMoves DEF Save, IInv
  <2>3. CASE Check(t)
    <3>1. {"lookUp", "idle"} \subseteq TaskPoints \ {"await"}
      BY DEF TaskPoints
    <3>2. \E p \in {"lookUp", "idle"} : Goes(t, p)
      BY <2>3 DEF Check
    <3> QED BY <3>1, <3>2, GoesMoves DEF IInv
  <2>4. CASE LookUp(t)
    <3>1. task[t] \in TaskType
      BY DEF IInv, TypeOK
    <3>2. PICK p \in {"schedule", "idle"} : task' = [task EXCEPT ![t].pc = p, ![t].next = "idle"]
      BY <2>4 DEF LookUp
    <3>3. /\ [task[t] EXCEPT !.pc = p, !.next = "idle"] \in TaskType
          /\ [task[t] EXCEPT !.pc = p, !.next = "idle"].pc # "await"
      BY <3>1 DEF TaskType, TaskPoints
    <3>4. task' = [task EXCEPT ![t] = [task[t] EXCEPT !.pc = p, !.next = "idle"]]
      BY <3>2 DEF IInv, TypeOK
    <3> QED BY <3>3, <3>4 DEF Moves
  <2> QED BY <2>1, <2>2, <2>3, <2>4 DEF Saving
<1>3. task' \in [Tasks -> TaskType] /\ NamedIsLive' /\ Awaiting'
  BY <1>1, <1>2, Aside
<1> QED BY <1>1, <1>3 DEF IInv, TypeOK, OneRow

\* The steps of a dream.
LEMMA DreamIsFine ==
  ASSUME IInv, NEW t \in Tasks, Start(t) \/ Dream(t)
  PROVE  IInv'
<1>1. UNCHANGED timerVars
  BY DEF Start, Dream, Complete, DreamFails, Mark, Release
<1>2. /\ docs' \in Nat /\ guard' \in Guards /\ aged' \in Nat
      /\ rows' \in Nat /\ rows' <= 1 /\ claim' \in Tasks \cup {None}
  <2> USE DEF IInv, TypeOK, OneRow
  <2>1. CASE Start(t)
    BY <2>1 DEF Start
  <2>2. CASE Complete(t)
    BY <2>2 DEF Complete, Guards
  <2>3. CASE DreamFails(t)
    BY <2>3 DEF DreamFails
  <2>4. CASE Mark(t)
    BY <2>4 DEF Mark
  <2>5. CASE Release(t)
    BY <2>5 DEF Release
  <2> QED BY <2>1, <2>2, <2>3, <2>4, <2>5 DEF Dream
<1>3. left' \in [Bounds -> Nat]
  <2>1. left' = left \/ \E e \in Events : Spend(e)
    BY DEF Start, Dream, Complete, DreamFails, Mark, Release, Events
  <2> QED BY <2>1, Spending DEF IInv, TypeOK
<1>4. Moves(t)
  <2>1. {"mark", "schedule", "release", "dream"} \subseteq TaskPoints \ {"await"}
    BY DEF TaskPoints
  <2>2. CASE Start(t)
    <3>1. task' = [task EXCEPT ![t] = [Resting EXCEPT !.pc = "dream", !.next = "mark"]]
      BY <2>2 DEF Start
    <3> DEFINE r == [Resting EXCEPT !.pc = "dream", !.next = "mark"]
    <3>2. r \in TaskType /\ r.pc = "dream"
      BY DEF Resting, TaskType, TaskPoints, Guards
    <3> HIDE DEF r
    <3>3. task' = [task EXCEPT ![t] = r]
      BY <3>1 DEF r
    <3> QED BY <3>2, <3>3 DEF Moves
  <2>3. CASE Release(t)
    <3>1. task' = [task EXCEPT ![t] = Resting]
      BY <2>3 DEF Release
    <3> QED BY <3>1, RestingIsTyped DEF Moves
  <2>4. CASE Complete(t) \/ DreamFails(t) \/ Mark(t)
    <3>1. \E p \in {"mark", "schedule", "release"} : Goes(t, p)
      BY <2>4 DEF Complete, DreamFails, Mark
    <3> QED BY <3>1, <2>1, GoesMoves DEF IInv
  <2> QED BY <2>2, <2>3, <2>4 DEF Dream
<1>5. task' \in [Tasks -> TaskType] /\ NamedIsLive' /\ Awaiting'
  BY <1>1, <1>4, Aside
<1> QED BY <1>1, <1>2, <1>3, <1>5 DEF IInv, TypeOK, OneRow

-----------------------------------------------------------------------------
\* A new timer is named by p alone; the one that ends, if any, is not named.
LEMMA SettingIsFine ==
  ASSUME IInv, NEW p \in Processes, NEW other \in Timers \cup {None}, Sets(p, other),
         \A q \in Processes : other # None => pending[q] # other
  PROVE  /\ pending' \in [Processes -> Timers \cup {None}]
         /\ filer' \in [Filers -> FilerPoints]
         /\ host' \in [Timers -> Processes \cup {None}]
         /\ NamedIsLive'
         /\ \A f \in Timers : filer[f] \in {"cancelled", "cutOff"} /\ f # other =>
              filer'[f] = filer[f] /\ host'[f] = host[f]
<1> DEFINE new == CHOOSE f \in Fresh : TRUE
<1>1. new \in Timers /\ filer[new] = "none" /\ new \in Filers
  <2>1. Fresh # {}
    BY DEF Sets
  <2> QED BY <2>1 DEF Fresh, Filers
<1> HIDE DEF new
<1>2. /\ pending' = [pending EXCEPT ![p] = new]
      /\ filer' = [f \in Filers |-> IF f = new THEN "asleep"
                                    ELSE IF f = other THEN "none" ELSE filer[f]]
      /\ host' = [f \in Timers |-> IF f = new THEN p ELSE IF f = other THEN None ELSE host[f]]
  BY DEF Sets, new
<1>3. pending' \in [Processes -> Timers \cup {None}]
  BY <1>1, <1>2 DEF IInv, TypeOK
<1>4. filer' \in [Filers -> FilerPoints]
  BY <1>1, <1>2 DEF IInv, TypeOK, FilerPoints
<1>5. host' \in [Timers -> Processes \cup {None}]
  BY <1>1, <1>2 DEF IInv, TypeOK
<1>6. ASSUME NEW q \in Processes, pending'[q] # None
      PROVE  /\ host'[pending'[q]] = q
             /\ filer'[pending'[q]] \notin {"none", "cancelled", "cutOff"}
  <2>1. CASE q = p
    <3>1. pending'[q] = new
      BY <1>2, <2>1 DEF IInv, TypeOK
    <3> QED BY <3>1, <1>1, <1>2, <2>1
  <2>2. CASE q # p
    <3>1. pending'[q] = pending[q] /\ pending[q] \in Timers /\ pending[q] \in Filers
      BY <1>2, <1>6, <2>2 DEF IInv, TypeOK, Filers
    <3>2. host[pending[q]] = q /\ filer[pending[q]] \notin {"none", "cancelled", "cutOff"}
      BY <3>1, <1>6 DEF IInv, NamedIsLive
    <3>3. pending[q] # new /\ pending[q] # other
      BY <3>1, <3>2, <1>1, <1>6, SchedulerAssumption DEF SchedulerAssumption
    <3> QED BY <1>2, <3>1, <3>2, <3>3
  <2> QED BY <2>1, <2>2
<1>7. NamedIsLive'
  BY <1>6 DEF NamedIsLive
<1>8. \A f \in Timers : filer[f] \in {"cancelled", "cutOff"} /\ f # other =>
        filer'[f] = filer[f] /\ host'[f] = host[f]
  BY <1>1, <1>2 DEF Filers
<1> QED BY <1>3, <1>4, <1>5, <1>7, <1>8

LEMMA ScheduleIsFine ==
  ASSUME IInv, NEW t \in Tasks, ScheduleAtOnce(t)
  PROVE  IInv'
<1>1. Home[t] \in Processes /\ Sets(Home[t], None) /\ Goes(t, task[t].next)
      /\ UNCHANGED <<docs, guard, aged, rows, claim, left>>
  BY SchedulerAssumption DEF SchedulerAssumption, ScheduleAtOnce
<1>2. /\ pending' \in [Processes -> Timers \cup {None}]
      /\ filer' \in [Filers -> FilerPoints]
      /\ host' \in [Timers -> Processes \cup {None}]
      /\ NamedIsLive'
      /\ \A f \in Timers : filer[f] \in {"cancelled", "cutOff"} =>
           filer'[f] = filer[f] /\ host'[f] = host[f]
  <2>1. \A f \in Timers : f # None
    BY SchedulerAssumption DEF SchedulerAssumption
  <2> QED BY <1>1, <2>1, SettingIsFine
<1>3. task[t] \in TaskType /\ task[t].next \in TaskPoints \ {"await"}
  BY DEF IInv, TypeOK, TaskType, TaskPoints
<1>4. PICK r \in TaskType : r.pc # "await" /\ task' = [task EXCEPT ![t] = r]
  BY <1>1, <1>3, GoesMoves DEF IInv, Moves
<1>5. task' \in [Tasks -> TaskType]
  BY <1>4 DEF IInv, TypeOK
<1>6. Awaiting'
  <2>1. \A s \in Tasks : At(s, "await")' => task'[s] = task[s] /\ At(s, "await")
    BY <1>4 DEF IInv, TypeOK
  <2> QED BY <2>1, <1>2 DEF IInv, Awaiting
<1> QED BY <1>1, <1>2, <1>5, <1>6 DEF IInv, TypeOK, OneRow

LEMMA CancelIsFine ==
  ASSUME IInv, NEW t \in Tasks, CancelFirst(t)
  PROVE  IInv'
<1> DEFINE p == Home[t]
           old == pending[p]
<1>1. p \in Processes
  BY SchedulerAssumption DEF SchedulerAssumption
<1>2. /\ old \in Timers /\ old \in Filers /\ old # None
      /\ host[old] = p /\ filer[old] \notin {"none", "cancelled", "cutOff"}
  BY <1>1 DEF CancelFirst, Goner, IInv, TypeOK, NamedIsLive, Filers
<1>3. /\ pending' = [pending EXCEPT ![p] = None]
      /\ \E q \in {"cutOff", "cancelled"} : filer' = [filer EXCEPT ![old] = q]
      /\ task' = [task EXCEPT ![t].pc = "await", ![t].awaits = old]
      /\ UNCHANGED <<docs, guard, aged, rows, claim, host, left>>
  BY DEF CancelFirst, Popped
<1> HIDE DEF p, old
<1>4. PICK q \in {"cutOff", "cancelled"} : filer' = [filer EXCEPT ![old] = q]
  BY <1>3
<1>5. TypeOK'
  <2>1. /\ task[t] \in TaskType
        /\ task' = [task EXCEPT ![t] = [task[t] EXCEPT !.pc = "await", !.awaits = old]]
    BY <1>3 DEF IInv, TypeOK
  <2>2. [task[t] EXCEPT !.pc = "await", !.awaits = old] \in TaskType
    BY <2>1, <1>2 DEF TaskType, TaskPoints
  <2>3. task' \in [Tasks -> TaskType]
    BY <2>1, <2>2 DEF IInv, TypeOK
  <2>4. filer' \in [Filers -> FilerPoints]
    BY <1>4 DEF IInv, TypeOK, FilerPoints
  <2>5. pending' \in [Processes -> Timers \cup {None}]
    BY <1>3 DEF IInv, TypeOK
  <2> QED BY <1>3, <2>3, <2>4, <2>5 DEF IInv, TypeOK
<1>6. NamedIsLive'
  <2> SUFFICES ASSUME NEW r \in Processes, pending'[r] # None
               PROVE  /\ host'[pending'[r]] = r
                      /\ filer'[pending'[r]] \notin {"none", "cancelled", "cutOff"}
    BY DEF NamedIsLive
  <2>1. r # p /\ pending'[r] = pending[r]
    BY <1>1, <1>3 DEF IInv, TypeOK
  <2>2. host[pending[r]] = r /\ filer[pending[r]] \notin {"none", "cancelled", "cutOff"}
    BY <2>1 DEF IInv, NamedIsLive
  <2>3. pending[r] # old
    BY <2>1, <2>2, <1>2
  <2>4. filer'[pending[r]] = filer[pending[r]]
    BY <2>3, <1>4 DEF IInv, TypeOK, Filers
  <2> QED BY <2>1, <2>2, <2>4, <1>3
<1>7. Awaiting'
  <2>1. /\ At(t, "await")' /\ task'[t].awaits = old
        /\ \A s \in Tasks \ {t} : task'[s] = task[s]
    BY <1>3 DEF IInv, TypeOK, TaskType
  <2>2. filer'[old] \in {"cancelled", "cutOff"} /\ host'[old] = p
    BY <1>2, <1>3, <1>4 DEF IInv, TypeOK
  <2>3. \A s \in Tasks \ {t} : At(s, "await") =>
          /\ task[s].awaits # old
          /\ filer'[task[s].awaits] = filer[task[s].awaits]
    BY <1>2, <1>4 DEF IInv, TypeOK, Awaiting, Filers
  <2>4. ASSUME NEW u \in Tasks, At(u, "await")'
        PROVE  /\ task'[u].awaits \in Timers
               /\ host'[task'[u].awaits] = Home[u]
               /\ filer'[task'[u].awaits] \in {"cancelled", "cutOff"}
               /\ \A s \in Tasks : At(s, "await")' /\ task'[s].awaits = task'[u].awaits => s = u
    <3>1. CASE u = t
      BY <3>1, <2>1, <2>2, <2>3, <1>2 DEF p
    <3>2. CASE u # t
      <4>1. task'[u] = task[u] /\ At(u, "await") /\ task[u].awaits # old
        BY <3>2, <2>1, <2>3, <2>4
      <4>2. /\ task[u].awaits \in Timers /\ host[task[u].awaits] = Home[u]
            /\ filer[task[u].awaits] \in {"cancelled", "cutOff"}
            /\ \A s \in Tasks : At(s, "await") /\ task[s].awaits = task[u].awaits => s = u
        BY <4>1 DEF IInv, Awaiting
      <4>3. filer'[task[u].awaits] = filer[task[u].awaits]
        BY <2>3, <3>2, <4>1
      <4>4. \A s \in Tasks : At(s, "await")' /\ task'[s].awaits = task[u].awaits => s = u
        BY <2>1, <4>1, <4>2
      <4> QED BY <4>1, <4>2, <4>3, <4>4, <1>3
    <3> QED BY <3>1, <3>2
  <2> QED BY <2>4 DEF Awaiting
<1> QED BY <1>3, <1>5, <1>6, <1>7 DEF IInv, OneRow

LEMMA UnwindIsFine ==
  ASSUME IInv, NEW t \in Tasks, Unwind(t)
  PROVE  IInv'
<1> DEFINE other == task[t].awaits
<1>1. /\ Home[t] \in Processes /\ other \in Timers /\ At(t, "await")
      /\ filer[other] \in {"cancelled", "cutOff"}
      /\ \A s \in Tasks : At(s, "await") /\ task[s].awaits = other => s = t
  BY SchedulerAssumption DEF SchedulerAssumption, Unwind, IInv, Awaiting
<1>2. /\ Sets(Home[t], other)
      /\ task' = [task EXCEPT ![t].pc = task[t].next, ![t].awaits = None]
      /\ rows' = rows \/ rows' \in {0, 1}
      /\ UNCHANGED <<docs, guard, aged, claim, left>>
  BY DEF Unwind
<1> HIDE DEF other
<1>3. \A q \in Processes : pending[q] # other
  <2>1. other # None
    BY <1>1, SchedulerAssumption DEF SchedulerAssumption
  <2> QED BY <2>1, <1>1 DEF IInv, NamedIsLive
<1>4. /\ pending' \in [Processes -> Timers \cup {None}]
      /\ filer' \in [Filers -> FilerPoints]
      /\ host' \in [Timers -> Processes \cup {None}]
      /\ NamedIsLive'
      /\ \A f \in Timers : filer[f] \in {"cancelled", "cutOff"} /\ f # other =>
           filer'[f] = filer[f] /\ host'[f] = host[f]
  BY <1>1, <1>2, <1>3, SettingIsFine
<1>5. task' \in [Tasks -> TaskType] /\ \A s \in Tasks : At(s, "await")' => s # t /\ task'[s] = task[s]
  <2>1. task[t] \in TaskType
    BY DEF IInv, TypeOK
  <2> DEFINE r == [task[t] EXCEPT !.pc = task[t].next, !.awaits = None]
  <2>2. r \in TaskType /\ r.pc # "await"
    BY <2>1 DEF TaskType, TaskPoints
  <2>3. task' = [task EXCEPT ![t] = r]
    BY <1>2 DEF IInv, TypeOK
  <2> HIDE DEF r
  <2> QED BY <2>2, <2>3 DEF IInv, TypeOK
<1>6. Awaiting'
  BY <1>1, <1>4, <1>5 DEF IInv, Awaiting
<1>7. rows' \in Nat /\ rows' <= 1
  BY <1>2 DEF IInv, TypeOK, OneRow
<1> QED BY <1>2, <1>4, <1>5, <1>6, <1>7 DEF IInv, TypeOK, OneRow

-----------------------------------------------------------------------------
\* A timer or a request goes from one point to another, none of them cancelled.
LEMMA ReachesIsFine ==
  ASSUME IInv, NEW f \in Filers, NEW p \in FilerPoints \ {"none", "cancelled", "cutOff"}, Reaches(f, p),
         filer[f] \notin {"cancelled", "cutOff"}, f \in Timers => filer[f] # "none",
         UNCHANGED <<pending, host, task>>
  PROVE  filer' \in [Filers -> FilerPoints] /\ NamedIsLive' /\ Awaiting'
<1>1. filer' = [filer EXCEPT ![f] = p]
  BY DEF Reaches
<1>2. filer' \in [Filers -> FilerPoints]
  BY <1>1 DEF IInv, TypeOK
<1>3. NamedIsLive'
  BY <1>1 DEF IInv, TypeOK, NamedIsLive, Filers
<1>4. Awaiting'
  BY <1>1 DEF IInv, TypeOK, Awaiting, Filers
<1> QED BY <1>2, <1>3, <1>4

LEMMA FilingIsFine ==
  ASSUME IInv, NEW f \in Filers, Request(f) \/ File(f)
  PROVE  IInv'
<1> USE DEF FilerPoints
<1>1. /\ UNCHANGED <<docs, guard, aged, claim, task>>
      /\ rows' \in Nat /\ rows' <= 1
  BY DEF IInv, TypeOK, OneRow, Request, File, Fire, SeesClaim, SeesRow, Insert, Callback, Admitted
<1>2. left' \in [Bounds -> Nat]
  <2>1. left' = left \/ \E e \in Events : Spend(e)
    BY DEF Request, File, Fire, SeesClaim, SeesRow, Insert, Callback, Events
  <2> QED BY <2>1, Spending DEF IInv, TypeOK
<1>3. CASE ~ Callback(f)
  <2>1. UNCHANGED <<pending, host>>
    BY <1>3 DEF Request, File, Fire, SeesClaim, SeesRow, Insert
  <2>2. \E p \in FilerPoints \ {"none", "cancelled", "cutOff"} : Reaches(f, p)
    BY <1>3 DEF Request, File, Fire, SeesClaim, SeesRow, Insert, Files, Reaches
  <2>3. filer[f] \notin {"cancelled", "cutOff"} /\ (f \in Timers => filer[f] # "none")
    BY <1>3, SchedulerAssumption
       DEF SchedulerAssumption, Request, File, Fire, SeesClaim, SeesRow, Insert, Files
  <2>4. filer' \in [Filers -> FilerPoints] /\ NamedIsLive' /\ Awaiting'
    BY <1>1, <2>1, <2>2, <2>3, ReachesIsFine
  <2> QED BY <1>1, <1>2, <2>1, <2>4 DEF IInv, TypeOK, OneRow
<1>4. CASE Callback(f)
  <2>1. /\ f \in Timers /\ filer[f] = "ended"
        /\ pending' = [pending EXCEPT ![host[f]] = None]
        /\ filer' = [filer EXCEPT ![f] = "none"]
        /\ host' = [host EXCEPT ![f] = None]
    BY <1>4 DEF Callback
  <2>2. /\ pending' \in [Processes -> Timers \cup {None}]
        /\ filer' \in [Filers -> FilerPoints]
        /\ host' \in [Timers -> Processes \cup {None}]
    BY <2>1 DEF IInv, TypeOK
  <2>3. NamedIsLive'
    <3> SUFFICES ASSUME NEW q \in Processes, pending'[q] # None
                 PROVE  /\ host'[pending'[q]] = q
                        /\ filer'[pending'[q]] \notin {"none", "cancelled", "cutOff"}
      BY DEF NamedIsLive
    <3>1. q # host[f] /\ pending'[q] = pending[q] /\ pending[q] \in Timers
      BY <2>1 DEF IInv, TypeOK
    <3>2. host[pending[q]] = q /\ filer[pending[q]] \notin {"none", "cancelled", "cutOff"}
      BY <3>1 DEF IInv, NamedIsLive
    <3>3. pending[q] # f
      BY <3>1, <3>2
    <3> QED BY <2>1, <3>1, <3>2, <3>3 DEF IInv, TypeOK, Filers
  <2>4. Awaiting'
    BY <1>1, <2>1 DEF IInv, TypeOK, Awaiting, Filers
  <2> QED BY <1>1, <1>2, <2>2, <2>3, <2>4 DEF IInv, TypeOK, OneRow
<1> QED BY <1>3, <1>4

LEMMA CrashIsFine ==
  ASSUME IInv, NEW p \in Processes, Crash(p)
  PROVE  IInv'
<1>1. /\ task' = [t \in Tasks |-> IF Home[t] = p THEN Resting ELSE task[t]]
      /\ pending' = [pending EXCEPT ![p] = None]
      /\ filer' = [f \in Filers |-> IF f \in Timers /\ host[f] = p THEN "none" ELSE filer[f]]
      /\ host' = [f \in Timers |-> IF host[f] = p THEN None ELSE host[f]]
      /\ UNCHANGED <<docs, guard, aged, rows, claim>>
  BY DEF Crash
<1>2. left' \in [Bounds -> Nat]
  <2>1. "crash" \in Events /\ Spend("crash")
    BY DEF Crash, Events
  <2> QED BY <2>1, Spending DEF IInv
<1>3. task' \in [Tasks -> TaskType]
  BY <1>1, RestingIsTyped DEF IInv, TypeOK
<1>4. TypeOK'
  BY <1>1, <1>2, <1>3 DEF IInv, TypeOK, FilerPoints
<1>5. NamedIsLive'
  <2> SUFFICES ASSUME NEW q \in Processes, pending'[q] # None
               PROVE  /\ host'[pending'[q]] = q
                      /\ filer'[pending'[q]] \notin {"none", "cancelled", "cutOff"}
    BY DEF NamedIsLive
  <2>1. q # p /\ pending'[q] = pending[q] /\ pending[q] \in Timers /\ pending[q] \in Filers
    BY <1>1 DEF IInv, TypeOK, Filers
  <2>2. host[pending[q]] = q /\ filer[pending[q]] \notin {"none", "cancelled", "cutOff"}
    BY <2>1 DEF IInv, NamedIsLive
  <2> QED BY <1>1, <2>1, <2>2
<1>6. Awaiting'
  <2> SUFFICES ASSUME NEW u \in Tasks, At(u, "await")'
               PROVE  /\ task'[u].awaits \in Timers
                      /\ host'[task'[u].awaits] = Home[u]
                      /\ filer'[task'[u].awaits] \in {"cancelled", "cutOff"}
                      /\ \A s \in Tasks : At(s, "await")' /\ task'[s].awaits = task'[u].awaits => s = u
    BY DEF Awaiting
  <2>1. \A s \in Tasks : At(s, "await")' => task'[s] = task[s] /\ At(s, "await") /\ Home[s] # p
    BY <1>1, RestingIsTyped
  <2>2. /\ task[u].awaits \in Timers /\ task[u].awaits \in Filers
        /\ host[task[u].awaits] = Home[u]
        /\ filer[task[u].awaits] \in {"cancelled", "cutOff"}
        /\ \A s \in Tasks : At(s, "await") /\ task[s].awaits = task[u].awaits => s = u
    BY <2>1 DEF IInv, Awaiting, Filers
  <2> QED BY <1>1, <2>1, <2>2
<1> QED BY <1>1, <1>4, <1>5, <1>6 DEF IInv, OneRow

LEMMA StepIsFine == IInv /\ [Next]_vars => IInv'
<1> SUFFICES ASSUME IInv, [Next]_vars PROVE IInv'
  OBVIOUS
<1>1. ASSUME NEW t \in Tasks, BeginSave(t) \/ Proceed(t) \/ Start(t) PROVE IInv'
  <2>1. CASE BeginSave(t) \/ Saving(t)
    BY <2>1, SavingIsFine
  <2>2. CASE Start(t) \/ Dream(t)
    BY <2>2, DreamIsFine
  <2>3. CASE ScheduleAtOnce(t)
    BY <2>3, ScheduleIsFine
  <2>4. CASE CancelFirst(t)
    BY <2>4, CancelIsFine
  <2>5. CASE Unwind(t)
    BY <2>5, UnwindIsFine
  <2> QED BY <1>1, <2>1, <2>2, <2>3, <2>4, <2>5 DEF Proceed, Scheduling
<1>2. ASSUME NEW f \in Filers, File(f) \/ Request(f) PROVE IInv'
  BY <1>2, FilingIsFine
<1>3. CASE HoursPass
  BY <1>3 DEF HoursPass, IInv, TypeOK, Guards, OneRow, NamedIsLive, Awaiting
<1>4. ASSUME NEW p \in Processes, Crash(p) PROVE IInv'
  BY <1>4, CrashIsFine
<1>5. CASE Expire
  BY <1>5 DEF Expire, IInv, TypeOK, OneRow, NamedIsLive, Awaiting
<1>6. CASE UNCHANGED vars
  BY <1>6 DEF vars, IInv, TypeOK, OneRow, NamedIsLive, Awaiting
<1> QED BY <1>1, <1>2, <1>3, <1>4, <1>5, <1>6 DEF Next

\* The inductive invariant.
THEOREM InvariantHolds == Spec => []IInv
BY InitIsFine, StepIsFine, PTL DEF Spec

\* At most one dream of the pair is unprocessed, whoever files it.
THEOREM OneRowHolds == Spec => []OneRow
<1>1. IInv => OneRow
  BY DEF IInv
<1> QED BY <1>1, InvariantHolds, PTL

\* A dictionary names live timers of its own process, whichever task cancels,
\* waits or schedules, and whichever process dies.
THEOREM NamedIsLiveHolds == Spec => []NamedIsLive
<1>1. IInv => NamedIsLive
  BY DEF IInv
<1> QED BY <1>1, InvariantHolds, PTL
=============================================================================
