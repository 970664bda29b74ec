-------------------------- MODULE DreamMemory_proofs --------------------------
(***************************************************************************)
(* TypeOK, PassedWasWorked and NotesOfThisEpoch of DreamMemory, for any    *)
(* number of runners, conclusions, dreams and mishaps.                     *)
(***************************************************************************)
EXTENDS DreamMemory, FiniteSetTheorems, WellFoundedInduction, TLAPS

-----------------------------------------------------------------------------
(* The inductive invariant. *)

\* TypeOK, in parts.
DataTyped ==
  /\ begun \in 0..MaxDocs
  /\ docs \subseteq 1..begun /\ gone \subseteq docs /\ purged \subseteq gone

MemoryTyped ==
  /\ guard \in [at : {None} \cup (0..MaxDocs), count : Nat, backlog : 0..MaxDocs]
  /\ cursor \in [pos : Positions, holds : 0..MaxHolds - 1, dreams : 0..DreamCap,
                 base : 0..MaxDocs]
  /\ notes \subseteq Entries /\ epoch \in Nat

QueueTyped ==
  /\ row \in BOOLEAN /\ claim \in Runners \cup {None}
  /\ attempt \in [after : {None} \cup (0..MaxDocs), dreamt : BOOLEAN]
  /\ mode \in Modes
  /\ left \in [Bounds -> Nat]

RunsTyped ==
  /\ run \in [Runners -> Runs]
  /\ \A r \in Runners : run[r].pc \in {"prune", "edit", "cursor"} => run[r].st # None

HistoryTyped ==
  /\ worked \in [Specialists -> SUBSET (1..MaxDocs)]
  /\ forced \subseteq 1..MaxDocs /\ behind \subseteq 1..MaxDocs

Types == DataTyped /\ MemoryTyped /\ QueueTyped /\ RunsTyped /\ HistoryTyped

\* The conclusions that a list may not leave out.
Counting == (1..begun) \ (gone \cup behind)

\* Both specialists have worked on every conclusion from b on to p, whether its
\* transaction has ended or not.
Passed(b, p) == \A d \in Counting : b < d /\ d <= p => Consolidated(d)

CursorSafe == cursor.pos # None => cursor.pos \in 0..begun /\ Passed(cursor.base, cursor.pos)

\* What a list started after.
From(st) == IF st.pos = None THEN st.base ELSE st.pos

\* What a dream loaded stays true: its position, that its list has no gap, and
\* that the specialists that succeeded worked on all of the list.
Snapshot(st, ok) ==
  /\ st.pos # None => st.pos \in 0..begun /\ Passed(st.base, st.pos)
  /\ st.shown \subseteq 1..begun
  /\ \A x \in st.shown : \A d \in Counting : From(st) < d /\ d <= x => d \in st.shown
  /\ \A s \in ok : st.shown \subseteq worked[s]

Snapshots ==
  \A r \in Runners :
    /\ run[r].pc \in {"idle", "load"} => run[r].ok = {}
    /\ run[r].st # None => Snapshot(run[r].st, run[r].ok)

\* The notes to be stored are of the dream's epoch, if that is still the epoch.
Epochs ==
  /\ NotesOfThisEpoch
  /\ \A r \in Runners : run[r].pc \notin {"prune", "edit"} => run[r].edit = {}
  /\ \A r \in Runners : run[r].st # None =>
       /\ run[r].st.epoch <= epoch
       /\ run[r].st.epoch = epoch =>
            \A n \in run[r].edit : n.epoch = epoch

\* A list and what it left are of different conclusions.
Fits ==
  \A r \in Runners : run[r].st # None =>
    run[r].st.remaining + Cardinality(run[r].st.shown) <= MaxDocs

IInv == Types /\ CursorSafe /\ Snapshots /\ Epochs /\ Fits

LEMMA TypesAreTypeOK == Types <=> TypeOK
BY DEF Types, TypeOK, DataTyped, MemoryTyped, QueueTyped, RunsTyped, HistoryTyped

-----------------------------------------------------------------------------
(* Finite sets of numbers. *)

LEMMA LeastExists ==
  ASSUME NEW S \in SUBSET Nat, S # {}
  PROVE  \E x \in S : \A y \in S : x <= y
<1>1. PICK x \in S : \A y \in S : ~ (<<y, x>> \in OpToRel(<, Nat))
  BY NatLessThanWellFounded, WFMin
<1>2. \A y \in S : ~ (y < x)
  BY <1>1 DEF OpToRel
<1> QED BY <1>2

LEMMA LeastParts ==
  ASSUME NEW S \in SUBSET Nat, S # {}
  PROVE  Least(S) \in S /\ \A y \in S : Least(S) <= y
<1>1. \E x \in S : \A y \in S : x <= y
  BY LeastExists
<1> QED BY <1>1 DEF Least

LEMMA GreatestParts ==
  ASSUME NEW n \in Nat, NEW S \in SUBSET (0..n), S # {}
  PROVE  Greatest(S) \in S /\ \A y \in S : y <= Greatest(S)
<1> DEFINE T == {n - x : x \in S}
<1>1. T \in SUBSET Nat /\ T # {}
  <2>1. \A x \in S : n - x \in Nat
    OBVIOUS
  <2> QED BY <2>1
<1>2. PICK t \in T : \A u \in T : t <= u
  <2> HIDE DEF T
  <2> QED BY <1>1, LeastExists
<1>3. PICK x \in S : t = n - x
  BY <1>2
<1>4. \A y \in S : y <= x
  <2> SUFFICES ASSUME NEW y \in S PROVE y <= x
    OBVIOUS
  <2>1. n - x <= n - y
    BY <1>2, <1>3
  <2> QED BY <2>1
<1>5. \E z \in S : \A y \in S : y <= z
  BY <1>4
<1> QED BY <1>5 DEF Greatest

LEMMA CountParts ==
  ASSUME NEW n \in Nat, NEW S \in SUBSET (1..n), NEW T \in SUBSET S
  PROVE  /\ IsFiniteSet(S) /\ Cardinality(S) \in 0..n
         /\ Cardinality(T) \in Nat /\ Cardinality(T) <= Cardinality(S)
         /\ Cardinality(S \ T) \in Nat
         /\ Cardinality(S \ T) + Cardinality(T) = Cardinality(S)
<1>1. IsFiniteSet(1..n) /\ Cardinality(1..n) = n
  BY FS_Interval
<1>2. IsFiniteSet(S) /\ Cardinality(S) <= n
  BY <1>1, FS_Subset
<1>3. IsFiniteSet(T) /\ Cardinality(T) <= Cardinality(S)
  BY <1>2, FS_Subset
<1>4. IsFiniteSet(S \ T) /\ Cardinality(S \ T) = Cardinality(S) - Cardinality(S \cap T)
  BY <1>2, FS_Difference
<1>5. S \cap T = T
  OBVIOUS
<1>6. Cardinality(S) \in Nat /\ Cardinality(T) \in Nat /\ Cardinality(S \ T) \in Nat
  BY <1>2, <1>3, <1>4, FS_CardinalityType
<1>7. Cardinality(S \ T) = Cardinality(S) - Cardinality(T)
  BY <1>4, <1>5
<1>8. Cardinality(S \ T) + Cardinality(T) = Cardinality(S)
  BY <1>6, <1>7
<1>9. Cardinality(S) \in 0..n
  BY <1>2, <1>6
<1> QED BY <1>2, <1>3, <1>6, <1>8, <1>9

\* The first k of a set have no gap.
LEMMA OldestClosed ==
  ASSUME NEW n \in Nat, NEW S \in SUBSET (1..n), NEW k \in Nat,
         NEW x \in Oldest(S, k), NEW y \in S, y <= x
  PROVE  y \in Oldest(S, k)
<1> DEFINE A == {z \in S : z < x}
           B == {z \in S : z < y}
<1>1. x \in S /\ Cardinality(A) < k
  BY DEF Oldest
<1>2. A \in SUBSET (1..n) /\ B \in SUBSET A
  <2>1. \A z \in S : z < y => z < x
    BY <1>1
  <2> QED BY <2>1
<1>3. Cardinality(B) < k
  <2> HIDE DEF A, B
  <2>1. Cardinality(A) \in Nat /\ Cardinality(B) \in Nat /\ Cardinality(B) <= Cardinality(A)
    BY <1>2, CountParts
  <2> QED BY <1>1, <2>1
<1> QED BY <1>3 DEF Oldest

-----------------------------------------------------------------------------
(* What every step leaves true. *)

Grows ==
  /\ begun' \in {begun, begun + 1}
  /\ gone \subseteq gone' /\ behind \subseteq behind' /\ forced \subseteq forced'
  /\ \A s \in Specialists : worked[s] \subseteq worked'[s]

PassedNext(b, p) == \A d \in Counting' : b < d /\ d <= p => Consolidated(d)'

SnapshotNext(st, ok) ==
  /\ st.pos # None => st.pos \in 0..begun' /\ PassedNext(st.base, st.pos)
  /\ st.shown \subseteq 1..begun'
  /\ \A x \in st.shown : \A d \in Counting' : From(st) < d /\ d <= x => d \in st.shown
  /\ \A s \in ok : st.shown \subseteq worked'[s]

LEMMA CountingNext ==
  ASSUME DataTyped, Grows
  PROVE  /\ begun \in Nat /\ begun' \in Nat /\ begun <= begun'
         /\ \A d \in Counting' : d \in Nat /\ (d <= begun => d \in Counting)
         /\ \A d : Consolidated(d) => Consolidated(d)'
<1>1. begun \in Nat /\ begun' \in Nat /\ begun <= begun'
  BY DreamAssumption DEF DreamAssumption, DataTyped, Grows
<1>2. \A d \in Counting' : d \in Nat /\ (d <= begun => d \in Counting)
  BY <1>1 DEF Counting, Grows
<1>3. ASSUME NEW d, Consolidated(d) PROVE Consolidated(d)'
  BY <1>3 DEF Consolidated, Grows
<1> QED BY <1>1, <1>2, <1>3

LEMMA PassedFrame ==
  ASSUME DataTyped, Grows, NEW b, NEW p \in 0..begun, Passed(b, p)
  PROVE  PassedNext(b, p)
<1> SUFFICES ASSUME NEW d \in Counting', b < d, d <= p PROVE Consolidated(d)'
  BY DEF PassedNext
<1>1. d \in Counting
  BY CountingNext
<1> QED BY <1>1, CountingNext DEF Passed

LEMMA SnapshotFrame ==
  ASSUME DataTyped, Grows, NEW st, NEW ok \in SUBSET Specialists, Snapshot(st, ok)
  PROVE  SnapshotNext(st, ok)
<1>1. st.pos # None => st.pos \in 0..begun' /\ PassedNext(st.base, st.pos)
  BY CountingNext, PassedFrame DEF Snapshot
<1>2. st.shown \subseteq 1..begun'
  BY CountingNext DEF Snapshot
<1>3. ASSUME NEW x \in st.shown, NEW d \in Counting', From(st) < d, d <= x
      PROVE  d \in st.shown
  <2>1. x \in 1..begun
    BY DEF Snapshot
  <2>2. d \in Counting
    BY <1>3, <2>1, CountingNext
  <2> QED BY <1>3, <2>2 DEF Snapshot
<1>4. \A s \in ok : st.shown \subseteq worked'[s]
  BY DEF Snapshot, Grows
<1> QED BY <1>1, <1>2, <1>3, <1>4 DEF SnapshotNext

LEMMA SnapshotsNext ==
  ASSUME \A q \in Runners :
           /\ run'[q].pc \in {"idle", "load"} => run'[q].ok = {}
           /\ run'[q].st # None => SnapshotNext(run'[q].st, run'[q].ok)
  PROVE  Snapshots'
BY DEF Snapshots, Snapshot, SnapshotNext, Passed, PassedNext, From

\* Runners that keep what they loaded, or drop it.
LEMMA KeepsSnapshots ==
  ASSUME IInv, Grows, NEW Q \in SUBSET Runners,
         \A q \in Q : \/ run'[q].st = None
                      \/ run'[q].st = run[q].st /\ run'[q].ok = run[q].ok
  PROVE  \A q \in Q : run'[q].st # None =>
           /\ SnapshotNext(run'[q].st, run'[q].ok)
           /\ run'[q].st.remaining + Cardinality(run'[q].st.shown) <= MaxDocs
<1> SUFFICES ASSUME NEW q \in Q, run'[q].st # None
             PROVE  /\ SnapshotNext(run'[q].st, run'[q].ok)
                    /\ run'[q].st.remaining + Cardinality(run'[q].st.shown) <= MaxDocs
  OBVIOUS
<1>1. run'[q].st = run[q].st /\ run'[q].ok = run[q].ok
  OBVIOUS
<1>2. run[q].ok \in SUBSET Specialists
  BY DEF IInv, Types, RunsTyped, Runs
<1>3. Snapshot(run[q].st, run[q].ok)
  BY <1>1 DEF IInv, Snapshots
<1>4. SnapshotNext(run[q].st, run[q].ok)
  BY <1>2, <1>3, SnapshotFrame DEF IInv, Types
<1>5. run[q].st.remaining + Cardinality(run[q].st.shown) <= MaxDocs
  BY <1>1 DEF IInv, Fits
<1> QED BY <1>1, <1>4, <1>5

\* A step that leaves all of them so.
LEMMA AllKeep ==
  ASSUME IInv, Grows,
         \A q \in Runners :
           /\ \/ run'[q].st = None
              \/ run'[q].st = run[q].st /\ run'[q].ok = run[q].ok
           /\ run'[q].pc \in {"idle", "load"} => run'[q].ok = {}
  PROVE  Snapshots' /\ Fits'
<1>1. \A q \in Runners : run'[q].st # None =>
           /\ SnapshotNext(run'[q].st, run'[q].ok)
           /\ run'[q].st.remaining + Cardinality(run'[q].st.shown) <= MaxDocs
  BY KeepsSnapshots
<1> QED BY <1>1, SnapshotsNext DEF Fits

LEMMA CursorKeeps ==
  ASSUME IInv, Grows, cursor' = cursor \/ cursor'.pos = None
  PROVE  CursorSafe'
<1> SUFFICES ASSUME cursor' = cursor, cursor.pos # None
             PROVE  cursor.pos \in 0..begun' /\ PassedNext(cursor.base, cursor.pos)
  BY DEF CursorSafe, Passed, PassedNext
<1>1. cursor.pos \in 0..begun /\ Passed(cursor.base, cursor.pos)
  BY DEF IInv, CursorSafe
<1>2. PassedNext(cursor.base, cursor.pos)
  BY <1>1, PassedFrame DEF IInv, Types
<1> QED BY <1>1, <1>2, CountingNext DEF IInv, Types

LEMMA EpochsKeep ==
  ASSUME IInv, epoch' = epoch, notes' \subseteq notes,
         \A q \in Runners : \/ run'[q] = run[q]
                            \/ /\ run'[q].st \in {run[q].st, None}
                               /\ run'[q].edit = {}
  PROVE  Epochs'
BY DEF IInv, Epochs, NotesOfThisEpoch

-----------------------------------------------------------------------------
(* The locals of a runner. *)

LEMMA RunParts ==
  ASSUME RunsTyped, NEW r \in Runners
  PROVE  /\ run[r] = [pc |-> run[r].pc, who |-> run[r].who, st |-> run[r].st,
                      ok |-> run[r].ok, edit |-> run[r].edit]
         /\ run[r].pc \in Points /\ run[r].who \in Specialists
         /\ run[r].st \in States \cup {None}
         /\ run[r].ok \in SUBSET Specialists /\ run[r].edit \in SUBSET Entries
BY DEF RunsTyped, Runs

\* What a runner's step may make of its locals.
LEMMA Becomes ==
  ASSUME RunsTyped, NEW r \in Runners, NEW c \in Runs,
         c.pc \in {"prune", "edit", "cursor"} => c.st # None,
         run' = [run EXCEPT ![r] = c]
  PROVE  RunsTyped' /\ run'[r] = c /\ \A q \in Runners \ {r} : run'[q] = run[q]
<1>1. run' \in [Runners -> Runs] /\ run'[r] = c /\ \A q \in Runners \ {r} : run'[q] = run[q]
  BY DEF RunsTyped
<1> QED BY <1>1 DEF RunsTyped

LEMMA GoesParts ==
  ASSUME RunsTyped, NEW r \in Runners, NEW p \in Points, Goes(r, p),
         p \in {"prune", "edit", "cursor"} => run[r].st # None
  PROVE  /\ RunsTyped'
         /\ run'[r].pc = p /\ run'[r].who = run[r].who /\ run'[r].st = run[r].st
         /\ run'[r].ok = run[r].ok /\ run'[r].edit = run[r].edit
         /\ \A q \in Runners \ {r} : run'[q] = run[q]
<1> DEFINE c == [pc |-> p, who |-> run[r].who, st |-> run[r].st,
                 ok |-> run[r].ok, edit |-> run[r].edit]
<1>1. run' = [run EXCEPT ![r] = [run[r] EXCEPT !.pc = p]]
  BY DEF Goes
<1>2. [run[r] EXCEPT !.pc = p] = c
  <2> DEFINE d == run[r]
  <2>1. d = [pc |-> d.pc, who |-> d.who, st |-> d.st, ok |-> d.ok, edit |-> d.edit]
    BY RunParts
  <2> HIDE DEF d
  <2>2. [d EXCEPT !.pc = p]
          = [pc |-> p, who |-> d.who, st |-> d.st, ok |-> d.ok, edit |-> d.edit]
    BY <2>1
  <2> QED BY <2>2 DEF d
<1>3. run' = [run EXCEPT ![r] = c]
  BY <1>1, <1>2
<1>4. /\ run[r].who \in Specialists /\ run[r].st \in States \cup {None}
      /\ run[r].ok \in SUBSET Specialists /\ run[r].edit \in SUBSET Entries
  BY RunParts
<1>5. /\ c \in Runs /\ c.pc = p /\ c.who = run[r].who /\ c.st = run[r].st
      /\ c.ok = run[r].ok /\ c.edit = run[r].edit
  BY <1>4 DEF Runs
<1> HIDE DEF c
<1> QED BY <1>3, <1>5, Becomes


-----------------------------------------------------------------------------
(* Types that a step leaves alone. *)

LEMMA SpendParts ==
  ASSUME IInv, NEW e \in Events, Spend(e)
  PROVE  left' \in [Bounds -> Nat]
BY DEF IInv, Types, QueueTyped, Spend, Events, Bounds

LEMMA DataFrame ==
  ASSUME IInv, UNCHANGED docVars PROVE DataTyped'
BY DEF IInv, Types, DataTyped, docVars

LEMMA MemoryFrame ==
  ASSUME IInv, UNCHANGED memoryVars PROVE MemoryTyped'
BY DEF IInv, Types, MemoryTyped, memoryVars

LEMMA QueueFrame ==
  ASSUME IInv, UNCHANGED <<queueVars, mode>>, left' \in [Bounds -> Nat] PROVE QueueTyped'
BY DEF IInv, Types, QueueTyped, queueVars

LEMMA RunsFrame ==
  ASSUME IInv, UNCHANGED run PROVE RunsTyped'
BY DEF IInv, Types, RunsTyped

LEMMA HistoryFrame ==
  ASSUME IInv, UNCHANGED history PROVE HistoryTyped'
BY DEF IInv, Types, HistoryTyped, history

LEMMA LeftParts == IInv => left \in [Bounds -> Nat]
BY DEF IInv, Types, QueueTyped

LEMMA GrowsFrame ==
  ASSUME UNCHANGED <<begun, gone, history>> PROVE Grows
BY DEF Grows, history

\* A step that changes no locals, or resets one runner, or moves it on without
\* another look at what it loaded.
LEMMA MovesOn ==
  ASSUME IInv, Grows, Types', NEW R \in SUBSET Runners,
         \A q \in Runners \ R : run'[q] = run[q],
         \A r \in R :
           /\ \/ run'[r].st = None
              \/ run'[r].st = run[r].st /\ run'[r].ok = run[r].ok
           /\ run'[r].edit = {}
           /\ run'[r].pc \in {"idle", "load"} => run'[r].ok = {},
         cursor' = cursor \/ cursor'.pos = None,
         epoch' = epoch, notes' \subseteq notes
  PROVE  IInv'
<1>1. \A q \in Runners :
        /\ \/ run'[q].st = None
           \/ run'[q].st = run[q].st /\ run'[q].ok = run[q].ok
        /\ run'[q] = run[q] \/ run'[q].edit = {}
        /\ run'[q].pc \in {"idle", "load"} => run'[q].ok = {}
  BY DEF IInv, Snapshots
<1>2. Snapshots' /\ Fits'
  BY <1>1, AllKeep
<1>3. CursorSafe'
  BY CursorKeeps
<1>4. Epochs'
  BY <1>1, EpochsKeep
<1> QED BY <1>2, <1>3, <1>4 DEF IInv

\* The same for a step that leaves all locals alone.
LEMMA RunUnchanged ==
  ASSUME IInv, Grows, Types', UNCHANGED <<run, cursor, epoch>>, notes' \subseteq notes
  PROVE  IInv'
<1> DEFINE R == {}
<1>1. R \in SUBSET Runners /\ \A q \in Runners \ R : run'[q] = run[q]
  OBVIOUS
<1> QED BY <1>1, MovesOn, Zenon

-----------------------------------------------------------------------------
(* The updates that the actions make. *)

\* A runner that starts, or ends its dream.
LEMMA RestParts ==
  ASSUME RunsTyped, NEW r \in Runners, NEW p \in {"idle", "load"},
         run' = [run EXCEPT ![r] = [Resting EXCEPT !.pc = p]]
  PROVE  /\ RunsTyped' /\ run'[r].pc = p
         /\ run'[r].st = None /\ run'[r].ok = {} /\ run'[r].edit = {}
         /\ \A q \in Runners \ {r} : run'[q] = run[q]
<1>1. [Resting EXCEPT !.pc = p]
        = [pc |-> p, who |-> "deduction", st |-> None, ok |-> {}, edit |-> {}]
  BY DEF Resting
<1> DEFINE c == [pc |-> p, who |-> "deduction", st |-> None, ok |-> {}, edit |-> {}]
<1>2. c \in Runs
  BY DEF Runs, Points, Specialists
<1>3. /\ c.pc = p /\ c.st = None /\ c.ok = {} /\ c.edit = {}
      /\ c.pc \notin {"prune", "edit", "cursor"}
  OBVIOUS
<1>4. run' = [run EXCEPT ![r] = c]
  BY <1>1
<1> HIDE DEF c
<1> QED BY <1>2, <1>3, <1>4, Becomes, ZenonT(60)

-----------------------------------------------------------------------------
(* Conclusions, filing, and mishaps. *)

LEMMA BeginIsFine ==
  ASSUME IInv, Begin PROVE IInv'
<1>1. /\ begun < MaxDocs /\ begun' = begun + 1
      /\ UNCHANGED <<docs, gone, purged, memoryVars, queueVars, run, mode, left, history>>
  BY DEF Begin
<1>2. DataTyped'
  BY <1>1, DreamAssumption DEF IInv, Types, DataTyped, DreamAssumption
<1>3. Grows
  BY <1>1 DEF Grows, history
<1>4. Types'
  BY <1>1, <1>2, MemoryFrame, QueueFrame, RunsFrame, HistoryFrame, LeftParts DEF Types
<1> QED BY <1>1, <1>3, <1>4, RunUnchanged DEF memoryVars

LEMMA SaveIsFine ==
  ASSUME NEW d \in 1..MaxDocs, IInv, Save(d) PROVE IInv'
<1>1. /\ d \in 1..begun /\ docs' = docs \cup {d}
      /\ UNCHANGED <<begun, gone, purged, memoryVars, queueVars, run, mode, left, history>>
  BY DEF Save, InFlight
<1>2. DataTyped'
  BY <1>1 DEF IInv, Types, DataTyped
<1>3. Types'
  BY <1>1, <1>2, MemoryFrame, QueueFrame, RunsFrame, HistoryFrame, LeftParts DEF Types
<1> QED BY <1>1, <1>3, GrowsFrame, RunUnchanged DEF memoryVars

LEMMA PurgeIsFine ==
  ASSUME IInv, Purge PROVE IInv'
<1>1. /\ purged' = gone
      /\ UNCHANGED <<begun, docs, gone, memoryVars, queueVars, run, mode, left, history>>
  BY DEF Purge
<1>2. DataTyped'
  BY <1>1 DEF IInv, Types, DataTyped
<1>3. Types'
  BY <1>1, <1>2, MemoryFrame, QueueFrame, RunsFrame, HistoryFrame, LeftParts DEF Types
<1> QED BY <1>1, <1>3, GrowsFrame, RunUnchanged DEF memoryVars

\* A removal leaves no note, and every dream that is running with an old epoch.
LEMMA RemoveIsFine ==
  ASSUME NEW S \in SUBSET Live, IInv, Remove(S) PROVE IInv'
<1>1. /\ S \subseteq docs /\ gone' = gone \cup S /\ notes' = {} /\ epoch' = epoch + 1
      /\ left' \in [Bounds -> Nat]
      /\ UNCHANGED <<begun, docs, purged, guard, cursor, queueVars, run, mode, history>>
  BY SpendParts DEF Remove, Live, Events
<1>2. DataTyped' /\ MemoryTyped'
  BY <1>1 DEF IInv, Types, DataTyped, MemoryTyped
<1>3. Types'
  BY <1>1, <1>2, QueueFrame, RunsFrame, HistoryFrame DEF Types
<1>4. Grows
  BY <1>1 DEF Grows, history
<1>5. Snapshots' /\ Fits'
  <2>1. \A q \in Runners :
          /\ run'[q].st = run[q].st /\ run'[q].ok = run[q].ok
          /\ run'[q].pc \in {"idle", "load"} => run'[q].ok = {}
    BY <1>1 DEF IInv, Snapshots
  <2> QED BY <1>4, <2>1, AllKeep
<1>6. CursorSafe'
  BY <1>1, <1>4, CursorKeeps
<1>7. Epochs'
  <2>1. epoch \in Nat /\ \A r \in Runners : run[r].st # None => run[r].st.epoch \in Nat
    BY RunParts DEF IInv, Types, MemoryTyped, States
  <2>2. \A r \in Runners : run[r].st # None => run[r].st.epoch <= epoch
    BY DEF IInv, Epochs
  <2>3. \A r \in Runners : run[r].st # None =>
          run[r].st.epoch <= epoch + 1 /\ run[r].st.epoch # epoch + 1
    BY <2>1, <2>2
  <2>4. \A r \in Runners : run[r].pc \notin {"prune", "edit"} => run[r].edit = {}
    BY DEF IInv, Epochs
  <2> QED BY <1>1, <2>3, <2>4 DEF Epochs, NotesOfThisEpoch
<1> QED BY <1>3, <1>5, <1>6, <1>7 DEF IInv

LEMMA FileIsFine ==
  ASSUME IInv, File PROVE IInv'
<1>1. UNCHANGED <<docVars, memoryVars, run, history>>
  BY DEF File, Poll, Request, Enqueue, CleanUp
<1>2. QueueTyped'
  <2>1. CASE (Poll \/ Request) /\ left' \in [Bounds -> Nat]
    <3>1. /\ row' = TRUE /\ UNCHANGED <<claim, mode>>
          /\ attempt' = [after |-> begun, dreamt |-> FALSE]
      BY <2>1 DEF Poll, Request, Enqueue
    <3>2. begun \in 0..MaxDocs
      BY DEF IInv, Types, DataTyped
    <3> QED BY <2>1, <3>1, <3>2 DEF IInv, Types, QueueTyped
  <2>2. CASE CleanUp
    <3>1. /\ attempt' = [after |-> None, dreamt |-> FALSE]
          /\ UNCHANGED <<row, claim, mode, left>>
      BY <2>2 DEF CleanUp
    <3> QED BY <3>1 DEF IInv, Types, QueueTyped
  <2>3. Poll => left' \in [Bounds -> Nat]
    BY LeftParts DEF Poll
  <2>4. Request => left' \in [Bounds -> Nat]
    BY SpendParts DEF Request, Events
  <2> QED BY <2>1, <2>2, <2>3, <2>4 DEF File
<1>3. Types'
  BY <1>1, <1>2, DataFrame, MemoryFrame, RunsFrame, HistoryFrame DEF Types
<1> QED BY <1>1, <1>3, GrowsFrame, RunUnchanged DEF docVars, memoryVars

LEMMA ExpireIsFine ==
  ASSUME IInv, Expire PROVE IInv'
<1>1. /\ claim' = None /\ UNCHANGED <<docVars, memoryVars, row, attempt, run, mode, history>>
      /\ UNCHANGED left \/ Spend("stall")
  BY DEF Expire
<1>2. left' \in [Bounds -> Nat]
  BY <1>1, LeftParts, SpendParts DEF Events
<1>3. QueueTyped'
  BY <1>1, <1>2 DEF IInv, Types, QueueTyped
<1>4. Types'
  BY <1>1, <1>3, DataFrame, MemoryFrame, RunsFrame, HistoryFrame DEF Types
<1> QED BY <1>1, <1>4, GrowsFrame, RunUnchanged DEF docVars, memoryVars

LEMMA ToggleIsFine ==
  ASSUME IInv, Toggle PROVE IInv'
<1>1. /\ mode' \in Modes /\ Spend("toggle")
      /\ UNCHANGED <<docVars, memoryVars, queueVars, run, history>>
  BY DEF Toggle
<1>2. QueueTyped'
  BY <1>1, SpendParts DEF IInv, Types, QueueTyped, queueVars, Events
<1>3. Types'
  BY <1>1, <1>2, DataFrame, MemoryFrame, RunsFrame, HistoryFrame DEF Types
<1> QED BY <1>1, <1>3, GrowsFrame, RunUnchanged DEF docVars, memoryVars

-----------------------------------------------------------------------------
(* A dream: steps that take no other look. *)

\* Only r moves, and keeps or drops what it loaded.
LEMMA OneMovesOn ==
  ASSUME IInv, Grows, Types', NEW r \in Runners,
         \A q \in Runners \ {r} : run'[q] = run[q],
         \/ run'[r].st = None
         \/ run'[r].st = run[r].st /\ run'[r].ok = run[r].ok,
         run'[r].edit = {},
         run'[r].pc \in {"idle", "load"} => run'[r].ok = {},
         cursor' = cursor \/ cursor'.pos = None,
         epoch' = epoch, notes' \subseteq notes
  PROVE  IInv'
<1> DEFINE R == {r}
<1>1. R \in SUBSET Runners /\ \A q \in Runners \ R : run'[q] = run[q]
  OBVIOUS
<1>2. \A q \in R :
        /\ \/ run'[q].st = None
           \/ run'[q].st = run[q].st /\ run'[q].ok = run[q].ok
        /\ run'[q].edit = {}
        /\ run'[q].pc \in {"idle", "load"} => run'[q].ok = {}
  OBVIOUS
<1> HIDE DEF R
<1> QED BY <1>1, <1>2, MovesOn

LEMMA StartIsFine ==
  ASSUME NEW r \in Runners, IInv, Start(r) PROVE IInv'
<1>1. /\ claim' = r /\ run' = [run EXCEPT ![r] = [Resting EXCEPT !.pc = "load"]]
      /\ UNCHANGED <<docVars, memoryVars, row, attempt, mode, left, history>>
  BY DEF Start
<1>2. /\ RunsTyped' /\ run'[r].st = None /\ run'[r].ok = {} /\ run'[r].edit = {}
      /\ \A q \in Runners \ {r} : run'[q] = run[q]
  BY <1>1, RestParts DEF IInv, Types
<1>3. QueueTyped'
  BY <1>1 DEF IInv, Types, QueueTyped
<1>4. Types'
  BY <1>1, <1>2, <1>3, DataFrame, MemoryFrame, HistoryFrame DEF Types
<1> QED BY <1>1, <1>2, <1>4, GrowsFrame, OneMovesOn DEF docVars, memoryVars

LEMMA FinishIsFine ==
  ASSUME NEW r \in Runners, IInv, Finish(r) PROVE IInv'
<1>1. /\ row' = FALSE /\ claim' \in {claim, None} /\ run' = [run EXCEPT ![r] = Resting]
      /\ UNCHANGED <<docVars, memoryVars, attempt, mode, left, history>>
  BY DEF Finish
<1>2. Resting = [Resting EXCEPT !.pc = "idle"]
  BY DEF Resting
<1>3. /\ RunsTyped' /\ run'[r].st = None /\ run'[r].ok = {} /\ run'[r].edit = {}
      /\ \A q \in Runners \ {r} : run'[q] = run[q]
  BY <1>1, <1>2, RestParts DEF IInv, Types
<1>4. QueueTyped'
  BY <1>1 DEF IInv, Types, QueueTyped
<1>5. Types'
  BY <1>1, <1>3, <1>4, DataFrame, MemoryFrame, HistoryFrame DEF Types
<1> QED BY <1>1, <1>3, <1>5, GrowsFrame, OneMovesOn DEF docVars, memoryVars

LEMMA CrashIsFine ==
  ASSUME NEW r \in Runners, IInv, Crash(r) PROVE IInv'
<1>1. /\ run' = [run EXCEPT ![r] = Resting] /\ Spend("crash")
      /\ UNCHANGED <<docVars, memoryVars, queueVars, mode, history>>
  BY DEF Crash
<1>2. Resting = [Resting EXCEPT !.pc = "idle"]
  BY DEF Resting
<1>3. /\ RunsTyped' /\ run'[r].st = None /\ run'[r].ok = {} /\ run'[r].edit = {}
      /\ \A q \in Runners \ {r} : run'[q] = run[q]
  BY <1>1, <1>2, RestParts DEF IInv, Types
<1>4. Types'
  BY <1>1, <1>3, SpendParts, DataFrame, MemoryFrame, QueueFrame, HistoryFrame DEF Types, Events
<1> QED BY <1>1, <1>3, <1>4, GrowsFrame, OneMovesOn DEF docVars, memoryVars

\* Skip, LoadFails and WriteFails
LEMMA GoesIsFine ==
  ASSUME NEW r \in Runners, NEW p \in {"notes", "mark"}, IInv, Goes(r, p),
         run[r].pc \notin {"prune", "edit"},
         left' \in [Bounds -> Nat],
         UNCHANGED <<docVars, memoryVars, queueVars, mode, history>>
  PROVE  IInv'
<1>1. p \in Points /\ p \notin {"prune", "edit", "cursor", "idle", "load"}
  BY DEF Points
<1>2. /\ RunsTyped' /\ run'[r].pc = p
      /\ run'[r].st = run[r].st /\ run'[r].ok = run[r].ok /\ run'[r].edit = run[r].edit
      /\ \A q \in Runners \ {r} : run'[q] = run[q]
  BY <1>1, GoesParts DEF IInv, Types
<1>3. Types'
  BY <1>2, DataFrame, MemoryFrame, QueueFrame, HistoryFrame DEF Types
<1>4. run'[r].edit = {}
  BY <1>2 DEF IInv, Epochs
<1> QED BY <1>1, <1>2, <1>3, <1>4, GrowsFrame, OneMovesOn DEF docVars, memoryVars

LEMMA FaultsAreFine ==
  ASSUME NEW r \in Runners, IInv, Skip(r) \/ LoadFails(r) \/ WriteFails(r) PROVE IInv'
<1>1. CASE Skip(r)
  BY <1>1, SpendParts, GoesIsFine DEF Skip, At, Events
<1>2. CASE LoadFails(r)
  BY <1>2, SpendParts, GoesIsFine DEF LoadFails, At, Events
<1>3. CASE WriteFails(r)
  BY <1>3, SpendParts, GoesIsFine DEF WriteFails, Events
<1> QED BY <1>1, <1>2, <1>3

LEMMA EndIsFine ==
  ASSUME NEW r \in Runners, IInv, Succeed(r) \/ Fail(r) PROVE IInv'
<1>0. Types /\ RunsTyped /\ HistoryTyped
  BY DEF IInv, Types
<1>1. /\ UNCHANGED <<docVars, memoryVars, queueVars, mode, forced, behind>>
      /\ Ended(r, run[r].ok) \/ (Succeed(r) /\ Ended(r, run[r].ok \cup {run[r].who}))
      /\ left' \in [Bounds -> Nat]
  BY LeftParts, SpendParts DEF Succeed, Fail, history, Events
<1>2. PICK k2 \in SUBSET Specialists :
        /\ Ended(r, k2) /\ run[r].ok \subseteq k2
        /\ k2 = run[r].ok \/ (Succeed(r) /\ k2 = run[r].ok \cup {run[r].who})
  <2>1. run[r].ok \in SUBSET Specialists /\ run[r].who \in Specialists
    BY <1>0, RunParts
  <2> QED BY <1>1, <2>1
<1>3. PICK p \in {"notes", "guard"} :
        run' = [run EXCEPT ![r] = [run[r] EXCEPT !.pc = p, !.who = "induction", !.ok = k2]]
  BY <1>2 DEF Ended, AfterPass
<1>4. /\ RunsTyped' /\ run'[r].pc = p /\ run'[r].st = run[r].st
      /\ run'[r].ok = k2 /\ run'[r].edit = run[r].edit
      /\ \A q \in Runners \ {r} : run'[q] = run[q]
  <2> DEFINE d == run[r]
             a == [pc |-> p, who |-> d.who, st |-> d.st, ok |-> d.ok, edit |-> d.edit]
             b == [pc |-> p, who |-> "induction", st |-> d.st, ok |-> d.ok, edit |-> d.edit]
             c == [pc |-> p, who |-> "induction", st |-> d.st, ok |-> k2, edit |-> d.edit]
  <2>1. /\ d = [pc |-> d.pc, who |-> d.who, st |-> d.st, ok |-> d.ok, edit |-> d.edit]
        /\ d.st \in States \cup {None} /\ d.edit \in SUBSET Entries
        /\ run' = [run EXCEPT ![r] = [d EXCEPT !.pc = p, !.who = "induction", !.ok = k2]]
    BY <1>0, <1>3, RunParts
  <2> HIDE DEF d
  <2>2. [d EXCEPT !.pc = p] = a
    BY <2>1
  <2>3. [a EXCEPT !.who = "induction"] = b /\ [b EXCEPT !.ok = k2] = c
    OBVIOUS
  <2>4. run' = [run EXCEPT ![r] = c]
    BY <2>1, <2>2, <2>3
  <2>5. c \in Runs /\ c.pc \notin {"prune", "edit", "cursor"}
    BY <2>1 DEF Runs, Points, Specialists
  <2>6. c.pc = p /\ c.st = run[r].st /\ c.ok = k2 /\ c.edit = run[r].edit
    BY DEF d
  <2> HIDE DEF c
  <2> QED BY <1>0, <2>4, <2>5, <2>6, Becomes
<1>5. /\ worked' \in [Specialists -> SUBSET (1..MaxDocs)]
      /\ \A s \in Specialists : worked[s] \subseteq worked'[s]
      /\ Succeed(r) /\ run[r].st # None => run[r].st.shown \subseteq worked'[run[r].who]
  <2>1. run[r].who \in Specialists /\ (run[r].st # None => run[r].st.shown \subseteq 1..MaxDocs)
    BY <1>0, RunParts DEF States
  <2>2. CASE UNCHANGED worked /\ (Succeed(r) => run[r].st = None)
    BY <1>0, <2>2 DEF HistoryTyped
  <2>3. CASE run[r].st # None
             /\ worked' = [worked EXCEPT ![run[r].who] = @ \cup run[r].st.shown]
    BY <1>0, <2>1, <2>3 DEF HistoryTyped
  <2>4. Fail(r) /\ ~ Succeed(r) => UNCHANGED worked
    BY DEF Fail, history
  <2> QED BY <2>2, <2>3, <2>4 DEF Succeed, HasNotes
<1>6. Types'
  <2>1. HistoryTyped'
    BY <1>0, <1>1, <1>5 DEF HistoryTyped
  <2> QED BY <1>1, <1>4, <2>1, DataFrame, MemoryFrame, QueueFrame DEF Types
<1>7. Grows
  BY <1>1, <1>5 DEF Grows, docVars
<1>8. Snapshots' /\ Fits'
  <2>1. \A q \in Runners \ {r} : run'[q].st # None =>
           /\ SnapshotNext(run'[q].st, run'[q].ok)
           /\ run'[q].st.remaining + Cardinality(run'[q].st.shown) <= MaxDocs
    <3>1. Runners \ {r} \in SUBSET Runners
      OBVIOUS
    <3> QED BY <1>4, <1>7, <3>1, KeepsSnapshots
  <2>2. run[r].st # None => SnapshotNext(run[r].st, k2)
    <3> SUFFICES ASSUME run[r].st # None PROVE SnapshotNext(run[r].st, k2)
      OBVIOUS
    <3>1. Snapshot(run[r].st, run[r].ok) /\ run[r].ok \in SUBSET Specialists
      BY <1>0, RunParts DEF IInv, Snapshots
    <3>2. SnapshotNext(run[r].st, run[r].ok)
      BY <1>0, <1>7, <3>1, SnapshotFrame DEF Types
    <3> QED BY <1>2, <1>5, <3>2 DEF SnapshotNext
  <2>3. run[r].st # None => run[r].st.remaining + Cardinality(run[r].st.shown) <= MaxDocs
    BY DEF IInv, Fits
  <2>4. \A q \in Runners : run'[q].pc \in {"idle", "load"} => run'[q].ok = {}
    BY <1>4 DEF IInv, Snapshots
  <2> QED BY <1>4, <2>1, <2>2, <2>3, <2>4, SnapshotsNext DEF Fits
<1>9. CursorSafe' /\ Epochs'
  <2>1. run'[r].edit = {}
    BY <1>4 DEF IInv, Epochs, Succeed, Fail, At
  <2> QED BY <1>1, <1>4, <1>7, <2>1, CursorKeeps, EpochsKeep DEF memoryVars
<1> QED BY <1>6, <1>8, <1>9 DEF IInv

-----------------------------------------------------------------------------
(* The working notes. *)

\* Only r moves, and what it means to store is of the dream's epoch.
LEMMA NotesKeep ==
  ASSUME IInv, Types', NEW r \in Runners,
         \A q \in Runners \ {r} : run'[q] = run[q],
         run'[r].st = run[r].st, run'[r].ok = run[r].ok,
         run'[r].pc \notin {"idle", "load"},
         run'[r].pc \notin {"prune", "edit"} => run'[r].edit = {},
         run[r].st # None /\ run[r].st.epoch = epoch =>
           \A n \in run'[r].edit : n.epoch = epoch,
         UNCHANGED <<begun, gone, cursor, epoch, history>>,
         \A n \in notes' : n.epoch = epoch
  PROVE  IInv'
<1>1. Grows
  BY DEF Grows, history
<1>2. \A q \in Runners :
        /\ run'[q].st = run[q].st /\ run'[q].ok = run[q].ok
        /\ run'[q].pc \in {"idle", "load"} => run'[q].ok = {}
  BY DEF IInv, Snapshots
<1>3. Snapshots' /\ Fits'
  BY <1>1, <1>2, AllKeep
<1>4. CursorSafe'
  BY <1>1, CursorKeeps
<1>5. Epochs'
  BY <1>2 DEF IInv, Epochs, NotesOfThisEpoch
<1> QED BY <1>3, <1>4, <1>5 DEF IInv

\* r takes up an edit, or puts it down.
LEMMA EditKeeps ==
  ASSUME IInv, NEW r \in Runners, NEW c \in Runs, run' = [run EXCEPT ![r] = c],
         c.pc \notin {"idle", "load", "cursor"},
         c.pc \in {"prune", "edit"} => run[r].st # None,
         c.pc \notin {"prune", "edit"} => c.edit = {},
         c.st = run[r].st, c.ok = run[r].ok,
         run[r].st # None /\ run[r].st.epoch = epoch => \A n \in c.edit : n.epoch = epoch,
         notes' \subseteq Entries, \A n \in notes' : n.epoch = epoch,
         left' \in [Bounds -> Nat],
         UNCHANGED <<docVars, guard, cursor, epoch, queueVars, mode, history>>
  PROVE  IInv'
<1>1. /\ RunsTyped' /\ run'[r] = c
      /\ \A q \in Runners \ {r} : run'[q] = run[q]
  BY Becomes DEF IInv, Types
<1>2. MemoryTyped'
  BY DEF IInv, Types, MemoryTyped
<1>3. Types'
  BY <1>1, <1>2, DataFrame, QueueFrame, HistoryFrame DEF Types
<1> QED BY <1>1, <1>3, NotesKeep DEF docVars

LEMMA FreshParts ==
  ASSUME IInv, NEW r \in Runners
  PROVE  /\ notes \subseteq Entries /\ \A n \in notes : n.epoch = epoch
         /\ Fresh(r, notes) \subseteq notes
BY DEF IInv, Types, MemoryTyped, Epochs, NotesOfThisEpoch, Fresh

LEMMA LoadNotesIsFine ==
  ASSUME NEW r \in Runners, IInv, LoadNotes(r) PROVE IInv'
<1>1. /\ left' \in [Bounds -> Nat]
      /\ UNCHANGED <<docVars, memoryVars, queueVars, mode, left, history>>
  BY LeftParts DEF LoadNotes
<1>2. CASE Goes(r, "pass")
  <2>1. "pass" \in Points
    BY DEF Points
  <2>2. /\ RunsTyped' /\ run'[r].pc = "pass"
        /\ run'[r].st = run[r].st /\ run'[r].ok = run[r].ok /\ run'[r].edit = run[r].edit
        /\ \A q \in Runners \ {r} : run'[q] = run[q]
    BY <1>2, <2>1, GoesParts DEF IInv, Types
  <2>3. Types'
    BY <1>1, <2>2, DataFrame, MemoryFrame, QueueFrame, HistoryFrame DEF Types
  <2>4. run[r].edit = {}
    BY DEF IInv, Epochs, LoadNotes, At
  <2> QED BY <1>1, <2>2, <2>3, <2>4, GrowsFrame, OneMovesOn DEF docVars, memoryVars
<1>3. CASE /\ run[r].st # None
           /\ run' = [run EXCEPT ![r] = [run[r] EXCEPT !.pc = "prune", !.edit = Fresh(r, notes)]]
  <2> DEFINE e == Fresh(r, notes)
             d == run[r]
             a == [pc |-> "prune", who |-> d.who, st |-> d.st, ok |-> d.ok, edit |-> d.edit]
             c == [pc |-> "prune", who |-> d.who, st |-> d.st, ok |-> d.ok, edit |-> e]
  <2>1. e \in SUBSET Entries /\ \A n \in e : n.epoch = epoch
    BY FreshParts
  <2>2. run' = [run EXCEPT ![r] = [d EXCEPT !.pc = "prune", !.edit = e]]
    BY <1>3
  <2> HIDE DEF e
  <2>3. /\ d = [pc |-> d.pc, who |-> d.who, st |-> d.st, ok |-> d.ok, edit |-> d.edit]
        /\ d.who \in Specialists /\ d.st \in States \cup {None}
        /\ d.ok \in SUBSET Specialists
    BY RunParts DEF IInv, Types
  <2> HIDE DEF d
  <2>4. [d EXCEPT !.pc = "prune"] = a /\ [a EXCEPT !.edit = e] = c
    BY <2>3
  <2>5. run' = [run EXCEPT ![r] = c]
    BY <2>2, <2>4
  <2>6. /\ c \in Runs /\ c.pc \notin {"idle", "load", "cursor"} 
      /\ (c.pc \notin {"prune", "edit"} => c.edit = {}) /\ c.edit = e
        /\ c.st = run[r].st /\ c.ok = run[r].ok
    BY <2>1, <2>3 DEF Runs, Points, d
  <2>7. notes' \subseteq Entries /\ \A n \in notes' : n.epoch = epoch
    BY <1>1, FreshParts DEF memoryVars
  <2> HIDE DEF c
  <2> QED BY <1>1, <1>3, <2>1, <2>5, <2>6, <2>7, EditKeeps DEF memoryVars
<1> QED BY <1>2, <1>3 DEF LoadNotes, HasNotes, Goes

\* An UPDATE writes notes of the current epoch, or none.
LEMMA StoreIsFine ==
  ASSUME NEW r \in Runners, IInv, StorePruned(r) \/ StoreEdit(r) PROVE IInv'
<1>1. /\ run[r].pc \in {"prune", "edit"} /\ notes' = Stored(r) /\ left' \in [Bounds -> Nat]
      /\ run' = [run EXCEPT ![r] = [run[r] EXCEPT !.pc = "pass", !.edit = {}]]
      /\ UNCHANGED <<docVars, guard, cursor, epoch, queueVars, mode, left, history>>
  BY LeftParts DEF StorePruned, StoreEdit, At
<1>2. run[r].st # None /\ run[r].edit \in SUBSET Entries
  BY <1>1, RunParts DEF IInv, Types, RunsTyped
<1>3. notes' \subseteq Entries /\ \A n \in notes' : n.epoch = epoch
  BY <1>1, <1>2, FreshParts DEF Stored, IInv, Epochs
<1> DEFINE e == {}
           d == run[r]
           a == [pc |-> "pass", who |-> d.who, st |-> d.st, ok |-> d.ok, edit |-> d.edit]
           c == [pc |-> "pass", who |-> d.who, st |-> d.st, ok |-> d.ok, edit |-> e]
<1>4. e \in SUBSET Entries /\ \A n \in e : n.epoch = epoch
  OBVIOUS
<1>5. run' = [run EXCEPT ![r] = [d EXCEPT !.pc = "pass", !.edit = e]]
  BY <1>1
<1> HIDE DEF e
<1>6. /\ d = [pc |-> d.pc, who |-> d.who, st |-> d.st, ok |-> d.ok, edit |-> d.edit]
      /\ d.who \in Specialists /\ d.st \in States \cup {None}
      /\ d.ok \in SUBSET Specialists
  BY RunParts DEF IInv, Types
<1> HIDE DEF d
<1>7. [d EXCEPT !.pc = "pass"] = a /\ [a EXCEPT !.edit = e] = c
  BY <1>6
<1>8. run' = [run EXCEPT ![r] = c]
  BY <1>5, <1>7
<1>9. /\ c \in Runs /\ c.pc \notin {"idle", "load", "cursor"} 
      /\ (c.pc \notin {"prune", "edit"} => c.edit = {}) /\ c.edit = e
      /\ c.st = run[r].st /\ c.ok = run[r].ok
  BY <1>4, <1>6 DEF Runs, Points, d, e
<1> HIDE DEF c
<1> QED BY <1>1, <1>2, <1>3, <1>4, <1>8, <1>9, EditKeeps

LEMMA EditIsFine ==
  ASSUME NEW r \in Runners, IInv, Edit(r) PROVE IInv'
<1>1. /\ run[r].st # None /\ epoch = run[r].st.epoch /\ left' \in [Bounds -> Nat]
      /\ UNCHANGED <<docVars, memoryVars, queueVars, mode, history>>
  BY SpendParts DEF Edit, HasNotes, Events
<1>2. PICK S \in Edited(r) :
        run' = [run EXCEPT ![r] = [run[r] EXCEPT !.pc = "edit", !.edit = S]]
  BY DEF Edit
<1>3. NewNote(r) \in Entries /\ NewNote(r).epoch = epoch
  <2> DEFINE st == run[r].st
             b == st.dreams + 1
  <2>1. run[r].who \in Specialists /\ st.dreams \in 0..DreamCap /\ st.epoch \in Nat
    BY <1>1, RunParts DEF IInv, Types, States
  <2>2. b \in 1..DreamCap + 1
    BY <2>1, DreamAssumption DEF DreamAssumption
  <2> HIDE DEF b
  <2>3. [by |-> run[r].who, born |-> b, epoch |-> st.epoch] \in Entries
    BY <2>1, <2>2 DEF Entries
  <2> QED BY <1>1, <2>3 DEF NewNote, b
<1>4. S \in SUBSET Entries /\ \A n \in S : n.epoch = epoch
  <2>1. S \subseteq Fresh(r, notes) \cup {NewNote(r)}
    BY <1>2 DEF Edited
  <2> QED BY <1>3, <2>1, FreshParts
<1> DEFINE e == S
           d == run[r]
           a == [pc |-> "edit", who |-> d.who, st |-> d.st, ok |-> d.ok, edit |-> d.edit]
           c == [pc |-> "edit", who |-> d.who, st |-> d.st, ok |-> d.ok, edit |-> e]
<1>5. e \in SUBSET Entries /\ \A n \in e : n.epoch = epoch
  BY <1>4
<1>6. run' = [run EXCEPT ![r] = [d EXCEPT !.pc = "edit", !.edit = e]]
  BY <1>2
<1> HIDE DEF e
<1>7. /\ d = [pc |-> d.pc, who |-> d.who, st |-> d.st, ok |-> d.ok, edit |-> d.edit]
      /\ d.who \in Specialists /\ d.st \in States \cup {None}
      /\ d.ok \in SUBSET Specialists
  BY RunParts DEF IInv, Types
<1> HIDE DEF d
<1>8. [d EXCEPT !.pc = "edit"] = a /\ [a EXCEPT !.edit = e] = c
  BY <1>7
<1>9. run' = [run EXCEPT ![r] = c]
  BY <1>6, <1>8
<1>10. /\ c \in Runs /\ c.pc \notin {"idle", "load", "cursor"} 
      /\ (c.pc \notin {"prune", "edit"} => c.edit = {}) /\ c.edit = e
      /\ c.st = run[r].st /\ c.ok = run[r].ok
  BY <1>5, <1>7 DEF Runs, Points, d
<1>11. notes' \subseteq Entries /\ \A n \in notes' : n.epoch = epoch
  BY <1>1, FreshParts DEF memoryVars
<1> HIDE DEF c
<1> QED BY <1>1, <1>5, <1>9, <1>10, <1>11, EditKeeps DEF memoryVars

-----------------------------------------------------------------------------
(* What a dream loads. *)

LEMMA SinceParts ==
  ASSUME IInv
  PROVE  /\ Since \in 0..MaxDocs
         /\ cursor.pos # None => Since = cursor.pos
         /\ cursor.pos \in Positions /\ cursor.holds \in 0..MaxHolds - 1
         /\ cursor.dreams \in 0..DreamCap /\ cursor.base \in 0..MaxDocs
         /\ begun \in 0..MaxDocs
<1>1. begun \in 0..MaxDocs /\ 0 \in 0..MaxDocs
  BY DreamAssumption DEF IInv, Types, DataTyped, DreamAssumption
<1>2. /\ guard.at \in {None} \cup (0..MaxDocs)
      /\ cursor.pos \in Positions /\ cursor.holds \in 0..MaxHolds - 1
      /\ cursor.dreams \in 0..DreamCap /\ cursor.base \in 0..MaxDocs
  BY DEF IInv, Types, MemoryTyped
<1>3. cursor.pos # None => cursor.pos \in 0..MaxDocs
  <2>1. cursor.pos # None => cursor.pos \in 0..begun
    BY DEF IInv, CursorSafe
  <2> QED BY <1>1, <2>1, DreamAssumption DEF DreamAssumption
<1> QED BY <1>1, <1>2, <1>3 DEF Since

LEMMA ShownParts ==
  ASSUME IInv
  PROVE  /\ Shown \in SUBSET Matching /\ Matching \in SUBSET (1..begun)
         /\ Matching \in SUBSET (1..MaxDocs) /\ Shown \in SUBSET (1..MaxDocs)
         /\ Matching \subseteq docs
         /\ Cardinality(Matching \ Shown) \in 0..MaxDocs
         /\ Cardinality(Matching \ Shown) + Cardinality(Shown) <= MaxDocs
<1>1. docs \subseteq 1..begun /\ begun \in 0..MaxDocs
  BY DEF IInv, Types, DataTyped
<1>2. Matching \in SUBSET (1..begun) /\ Matching \subseteq docs
  BY <1>1 DEF Matching, Live
<1>3. Shown \in SUBSET Matching
  BY DEF Shown, Oldest
<1>4. 1..begun \subseteq 1..MaxDocs /\ MaxDocs \in Nat
  BY <1>1, DreamAssumption DEF DreamAssumption
<1>5. Matching \in SUBSET (1..MaxDocs)
  BY <1>2, <1>4
<1> DEFINE M == Matching
           S == Shown
           R == M \ S
<1>6. M \in SUBSET (1..MaxDocs) /\ S \in SUBSET M
  BY <1>3, <1>5
<1> HIDE DEF M, S
<1>7. /\ Cardinality(M) \in 0..MaxDocs /\ Cardinality(R) \in Nat
      /\ Cardinality(R) + Cardinality(S) = Cardinality(M)
      /\ Cardinality(S) \in Nat
  BY <1>4, <1>6, CountParts
<1>8. Cardinality(R) \in 0..MaxDocs /\ Cardinality(R) + Cardinality(S) <= MaxDocs
  <2> DEFINE a == Cardinality(R)
             b == Cardinality(S)
             m == Cardinality(M)
  <2>1. m \in 0..MaxDocs /\ a \in Nat /\ b \in Nat /\ a + b = m
    BY <1>7
  <2> HIDE DEF a, b, m
  <2>2. a \in 0..MaxDocs /\ a + b <= MaxDocs
    BY <1>4, <2>1
  <2> QED BY <2>2 DEF a, b
<1>9. S \in SUBSET (1..MaxDocs)
  BY <1>6
<1> QED BY <1>2, <1>3, <1>5, <1>8, <1>9 DEF M, S

\* A state that was just loaded; with it, those it shows have no gap but what
\* is uncommitted.
LEMMA StateParts ==
  ASSUME IInv
  PROVE  /\ State \in States /\ State # None
         /\ State.pos = cursor.pos /\ State.epoch = epoch /\ State.shown = Shown
         /\ State.holds = cursor.holds /\ State.dreams = cursor.dreams
         /\ cursor.pos # None => State.base = cursor.base
         /\ From(State) = Since
         /\ State.remaining + Cardinality(State.shown) <= MaxDocs
<1> DEFINE b == IF cursor.pos = None THEN Since ELSE cursor.base
           k == IF mode = "brief" THEN Cardinality(Matching \ Shown) ELSE 0
           B == (mode = "brief")
           s == [pos |-> cursor.pos, holds |-> cursor.holds, dreams |-> cursor.dreams,
                 base |-> b, epoch |-> epoch, brief |-> B, shown |-> Shown,
                 remaining |-> k]
<1>1. /\ b \in 0..MaxDocs /\ (cursor.pos # None => b = cursor.base)
      /\ (cursor.pos = None => b = Since)
  BY SinceParts
<1>2. k \in 0..MaxDocs /\ k + Cardinality(Shown) <= MaxDocs
  <2>1. mode # "brief" => Cardinality(Shown) = 0
    BY FS_EmptySet DEF Shown
  <2>2. MaxDocs \in Nat
    BY DreamAssumption DEF DreamAssumption
  <2> QED BY <2>1, <2>2, ShownParts
<1>3. epoch \in Nat /\ B \in BOOLEAN
  BY DEF IInv, Types, MemoryTyped
<1>4. s = State
  BY DEF State
<1> HIDE DEF b, k, B
<1>5. s \in States
  BY <1>1, <1>2, <1>3, SinceParts, ShownParts DEF States
<1>6. /\ s.pos = cursor.pos /\ s.epoch = epoch /\ s.shown = Shown
      /\ s.holds = cursor.holds /\ s.dreams = cursor.dreams
      /\ s.base = b /\ s.remaining = k
  OBVIOUS
<1> HIDE DEF s
<1>7. From(s) = Since
  BY <1>1, <1>6, SinceParts DEF From
<1>8. s # None
  BY <1>5, NoneIsNoState
<1> QED BY <1>1, <1>2, <1>4, <1>5, <1>6, <1>7, <1>8

\* A conclusion that a fresh list leaves out counts no more: it is uncommitted,
\* and the list goes past it.
LEMMA ShownClosed ==
  ASSUME IInv, DataTyped', UNCHANGED docVars, NEW x \in Shown,
         {d \in InFlight : d < Greatest(Shown)} \subseteq behind',
         NEW d \in Counting', Since < d, d <= x
  PROVE  d \in Shown
<1>1. d \in 1..begun /\ d \notin gone /\ d \notin behind'
  BY DEF Counting, docVars
<1>2. x \in docs /\ x \in Nat /\ begun \in Nat /\ d \in Nat
  BY <1>1, ShownParts, SinceParts
<1>3. x <= Greatest(Shown) /\ Greatest(Shown) \in Nat
  <2>1. Shown \in SUBSET (0..MaxDocs) /\ MaxDocs \in Nat
    BY ShownParts, DreamAssumption DEF DreamAssumption
  <2>2. Greatest(Shown) \in Shown /\ \A y \in Shown : y <= Greatest(Shown)
    BY <2>1, GreatestParts
  <2>3. Greatest(Shown) \in 0..MaxDocs
    BY <2>1, <2>2
  <2> QED BY <2>1, <2>2, <2>3
<1>4. d \in docs
  <2> SUFFICES ASSUME d \notin docs PROVE FALSE
    OBVIOUS
  <2>1. d \in InFlight
    BY <1>1 DEF InFlight
  <2>2. d # x
    BY <1>2
  <2>3. d < Greatest(Shown)
    BY <1>2, <1>3, <2>2
  <2> QED BY <1>1, <2>1, <2>3
<1>5. d \in Matching
  BY <1>1, <1>4 DEF Matching, Live
<1>6. mode = "brief" /\ x \in Oldest(Matching, Page)
  BY DEF Shown
<1>7. d \in Oldest(Matching, Page)
  <2>1. MaxDocs \in Nat /\ Page \in Nat /\ Matching \in SUBSET (1..MaxDocs)
    BY ShownParts, DreamAssumption DEF DreamAssumption
  <2> QED BY <1>5, <1>6, <2>1, OldestClosed
<1> QED BY <1>6, <1>7 DEF Shown

-----------------------------------------------------------------------------
(* A dream: its list, and where it leaves the cursor. *)

\* Only r moves, and what it then has loaded is true.
LEMMA LoadedKeeps ==
  ASSUME IInv, Types', Grows, NEW r \in Runners,
         \A q \in Runners \ {r} : run'[q] = run[q],
         run'[r].pc \notin {"idle", "load"}, run'[r].edit = {},
         run'[r].st # None =>
           /\ run'[r].st.epoch = epoch
           /\ SnapshotNext(run'[r].st, run'[r].ok)
           /\ run'[r].st.remaining + Cardinality(run'[r].st.shown) <= MaxDocs,
         UNCHANGED <<cursor, notes, epoch>>
  PROVE  IInv'
<1>1. \A q \in Runners : run'[q].st # None =>
           /\ SnapshotNext(run'[q].st, run'[q].ok)
           /\ run'[q].st.remaining + Cardinality(run'[q].st.shown) <= MaxDocs
  <2> DEFINE Q == Runners \ {r}
  <2>1. Q \in SUBSET Runners /\ \A q \in Q : run'[q].st = run[q].st /\ run'[q].ok = run[q].ok
    OBVIOUS
  <2>2. \A q \in Q : run'[q].st # None =>
           /\ SnapshotNext(run'[q].st, run'[q].ok)
           /\ run'[q].st.remaining + Cardinality(run'[q].st.shown) <= MaxDocs
    <3> HIDE DEF Q
    <3> QED BY <2>1, KeepsSnapshots
  <2> QED BY <2>2
<1>2. \A q \in Runners : run'[q].pc \in {"idle", "load"} => run'[q].ok = {}
  BY DEF IInv, Snapshots
<1>3. Snapshots' /\ Fits'
  BY <1>1, <1>2, SnapshotsNext DEF Fits
<1>4. CursorSafe'
  BY CursorKeeps
<1>5. Epochs'
  <2>1. epoch \in Nat
    BY DEF IInv, Types, MemoryTyped
  <2> QED BY <2>1 DEF IInv, Epochs, NotesOfThisEpoch
<1> QED BY <1>3, <1>4, <1>5 DEF IInv

LEMMA LoadIsFine ==
  ASSUME NEW r \in Runners, IInv, Load(r) PROVE IInv'
<1> DEFINE s == IF Remembers THEN State ELSE None
           d == run[r]
           a == [pc |-> "notes", who |-> d.who, st |-> d.st, ok |-> d.ok, edit |-> d.edit]
           c == [pc |-> "notes", who |-> d.who, st |-> s, ok |-> d.ok, edit |-> d.edit]
<1>1. /\ run[r].pc = "load"
      /\ run' = [run EXCEPT ![r] = [d EXCEPT !.pc = "notes", !.st = s]]
      /\ behind' = IF Remembers /\ Shown # {}
                   THEN behind \cup {x \in InFlight : x < Greatest(Shown)} ELSE behind
      /\ UNCHANGED <<docVars, memoryVars, queueVars, mode, left, worked, forced>>
  BY DEF Load, At
<1>2. s \in States \cup {None}
  BY StateParts
<1>3. /\ d = [pc |-> d.pc, who |-> d.who, st |-> d.st, ok |-> d.ok, edit |-> d.edit]
      /\ d.who \in Specialists /\ d.st \in States \cup {None}
      /\ d.ok \in SUBSET Specialists /\ d.edit \in SUBSET Entries
      /\ d.ok = {} /\ d.edit = {}
  <2>1. d.ok = {} /\ d.edit = {}
    BY <1>1 DEF IInv, Snapshots, Epochs
  <2> QED BY <2>1, RunParts DEF IInv, Types
<1> HIDE DEF s, d
<1>4. [d EXCEPT !.pc = "notes"] = a /\ [a EXCEPT !.st = s] = c
  BY <1>3
<1>5. run' = [run EXCEPT ![r] = c]
  BY <1>1, <1>4
<1>6. /\ c \in Runs /\ c.pc \notin {"prune", "edit", "cursor", "idle", "load"}
      /\ c.st = s /\ c.ok = {} /\ c.edit = {}
  BY <1>2, <1>3 DEF Runs, Points
<1> HIDE DEF c
<1>7. RunsTyped' /\ run'[r] = c /\ \A q \in Runners \ {r} : run'[q] = run[q]
  BY <1>5, <1>6, Becomes DEF IInv, Types
<1>8. HistoryTyped'
  <2>1. InFlight \subseteq 1..MaxDocs
    BY SinceParts, DreamAssumption DEF InFlight, DreamAssumption
  <2> QED BY <1>1, <2>1 DEF IInv, Types, HistoryTyped
<1>9. Types'
  BY <1>1, <1>7, <1>8, DataFrame, MemoryFrame, QueueFrame, LeftParts DEF Types
<1>10. Grows
  BY <1>1 DEF Grows, docVars
<1>11. ASSUME s # None
       PROVE  /\ s.epoch = epoch /\ SnapshotNext(s, {})
              /\ s.remaining + Cardinality(s.shown) <= MaxDocs
  <2>1. Remembers /\ s = State
    BY <1>11 DEF s
  <2>2. State.pos # None => State.pos \in 0..begun' /\ PassedNext(State.base, State.pos)
    <3>1. cursor.pos # None => cursor.pos \in 0..begun' /\ PassedNext(cursor.base, cursor.pos)
      BY <1>1, <1>10, PassedFrame DEF docVars, IInv, CursorSafe, Types
    <3> QED BY <3>1, StateParts
  <2>3. State.shown \subseteq 1..begun'
    BY <1>1, StateParts, ShownParts DEF docVars
  <2>4. \A x \in Shown : \A y \in Counting' : Since < y /\ y <= x => y \in Shown
    <3>1. DataTyped' /\ UNCHANGED docVars
      BY <1>1, <1>9 DEF Types
    <3>2. Shown # {} => {y \in InFlight : y < Greatest(Shown)} \subseteq behind'
      BY <1>1, <2>1
    <3> QED BY <3>1, <3>2, ShownClosed
  <2>5. SnapshotNext(State, {})
    BY <2>2, <2>3, <2>4, StateParts DEF SnapshotNext
  <2> QED BY <2>1, <2>5, StateParts
<1> QED BY <1>1, <1>6, <1>7, <1>9, <1>10, <1>11, LoadedKeeps DEF memoryVars

\* advance_cursor without a state: the position as it is, and no list.
LEMMA RereadIsFine ==
  ASSUME NEW r \in Runners, IInv, Reread(r) PROVE IInv'
<1> DEFINE s == [pos |-> cursor.pos, holds |-> cursor.holds, dreams |-> cursor.dreams,
                 base |-> cursor.base, epoch |-> epoch, brief |-> TRUE, shown |-> {},
                 remaining |-> 0]
           d == run[r]
           a == [pc |-> "cursor", who |-> d.who, st |-> d.st, ok |-> d.ok, edit |-> d.edit]
           c == [pc |-> "cursor", who |-> d.who, st |-> s, ok |-> d.ok, edit |-> d.edit]
<1>1. s = [State EXCEPT !.brief = TRUE, !.shown = {}, !.remaining = 0, !.base = cursor.base]
  <2> DEFINE p == cursor.pos
             h == cursor.holds
             n == cursor.dreams
             q == cursor.base
             b == IF cursor.pos = None THEN Since ELSE cursor.base
             k == IF mode = "brief" THEN Cardinality(Matching \ Shown) ELSE 0
             B == (mode = "brief")
             T == TRUE
             Z == 0
             N == {}
             s0 == [pos |-> p, holds |-> h, dreams |-> n, base |-> b, epoch |-> epoch,
                    brief |-> B, shown |-> Shown, remaining |-> k]
             s1 == [pos |-> p, holds |-> h, dreams |-> n, base |-> b, epoch |-> epoch,
                    brief |-> T, shown |-> Shown, remaining |-> k]
             s2 == [pos |-> p, holds |-> h, dreams |-> n, base |-> b, epoch |-> epoch,
                    brief |-> T, shown |-> N, remaining |-> k]
             s3 == [pos |-> p, holds |-> h, dreams |-> n, base |-> b, epoch |-> epoch,
                    brief |-> T, shown |-> N, remaining |-> Z]
             s4 == [pos |-> p, holds |-> h, dreams |-> n, base |-> q, epoch |-> epoch,
                    brief |-> T, shown |-> N, remaining |-> Z]
  <2>1. State = s0 /\ s = s4
    BY DEF State
  <2> HIDE DEF p, h, n, q, b, k, B, T, Z, N
  <2>2. [s0 EXCEPT !.brief = T] = s1
    OBVIOUS
  <2>3. [s1 EXCEPT !.shown = N] = s2
    OBVIOUS
  <2>4. [s2 EXCEPT !.remaining = Z] = s3
    OBVIOUS
  <2>5. [s3 EXCEPT !.base = q] = s4
    OBVIOUS
  <2> HIDE DEF s0, s1, s2, s3, s4, s
  <2>6. s = [State EXCEPT !.brief = T, !.shown = N, !.remaining = Z, !.base = q]
    BY <2>1, <2>2, <2>3, <2>4, <2>5
  <2> QED BY <2>6 DEF T, Z, N, q
<1>2. /\ run[r].pc = "reread"
      /\ run' = [run EXCEPT ![r] = [d EXCEPT !.pc = "cursor", !.st = s]]
      /\ UNCHANGED <<docVars, memoryVars, queueVars, mode, left, history>>
  BY <1>1 DEF Reread, At
<1>3. s \in States /\ s # None
  <2>1. epoch \in Nat /\ MaxDocs \in Nat
    BY DreamAssumption DEF IInv, Types, MemoryTyped, DreamAssumption
  <2>2. s \in States
    BY <2>1, SinceParts DEF States
  <2> QED BY <2>2, NoneIsNoState
<1>4. /\ s.pos = cursor.pos /\ s.base = cursor.base /\ s.epoch = epoch
      /\ s.shown = {} /\ s.remaining = 0
  OBVIOUS
<1>5. /\ d = [pc |-> d.pc, who |-> d.who, st |-> d.st, ok |-> d.ok, edit |-> d.edit]
      /\ d.who \in Specialists /\ d.st \in States \cup {None}
      /\ d.ok \in SUBSET Specialists /\ d.edit \in SUBSET Entries
      /\ d.edit = {}
  <2>1. d.edit = {}
    BY <1>2 DEF IInv, Epochs
  <2> QED BY <2>1, RunParts DEF IInv, Types
<1> HIDE DEF s, d
<1>6. [d EXCEPT !.pc = "cursor"] = a /\ [a EXCEPT !.st = s] = c
  BY <1>5
<1>7. run' = [run EXCEPT ![r] = c]
  BY <1>2, <1>6
<1>8. /\ c \in Runs /\ c.pc \notin {"idle", "load"}
      /\ c.st = s /\ c.ok \in SUBSET Specialists /\ c.edit = {}
  BY <1>3, <1>5 DEF Runs, Points
<1> HIDE DEF c
<1>9. RunsTyped' /\ run'[r] = c /\ \A q \in Runners \ {r} : run'[q] = run[q]
  BY <1>3, <1>7, <1>8, Becomes DEF IInv, Types
<1>10. Types'
  BY <1>2, <1>9, DataFrame, MemoryFrame, QueueFrame, HistoryFrame, LeftParts DEF Types
<1>11. Grows
  BY <1>2, GrowsFrame DEF docVars
<1>12. SnapshotNext(s, c.ok)
  <2>1. s.pos # None => s.pos \in 0..begun' /\ PassedNext(s.base, s.pos)
    BY <1>2, <1>4, <1>11, PassedFrame DEF docVars, IInv, CursorSafe, Types
  <2> QED BY <1>4, <2>1 DEF SnapshotNext
<1>13. s.remaining + Cardinality(s.shown) <= MaxDocs
  BY <1>4, FS_EmptySet, DreamAssumption DEF DreamAssumption
<1> QED BY <1>2, <1>4, <1>8, <1>9, <1>10, <1>11, <1>12, <1>13, LoadedKeeps DEF memoryVars

\* Conclusions still due are conclusions that were saved.
LEMMA BacklogParts ==
  ASSUME IInv, NEW r \in Runners
  PROVE  Backlog(r) \in 0..MaxDocs /\ Baseline(r) \in Nat
<1> DEFINE st == run[r].st
           m == st.remaining
           k == Cardinality(st.shown)
<1>1. MaxDocs \in Nat
  BY DreamAssumption DEF DreamAssumption
<1>2. st # None => m \in 0..MaxDocs /\ k \in Nat /\ m + k <= MaxDocs
  <2> SUFFICES ASSUME st # None PROVE m \in 0..MaxDocs /\ k \in Nat /\ m + k <= MaxDocs
    OBVIOUS
  <2>1. st \in States
    BY RunParts DEF IInv, Types
  <2>2. m \in 0..MaxDocs /\ st.shown \in SUBSET (1..MaxDocs)
    BY <2>1 DEF States
  <2>3. k \in Nat
    BY <1>1, <2>2, CountParts
  <2> QED BY <2>2, <2>3 DEF IInv, Fits
<1>3. Backlog(r) \in {0, m, m + k} /\ (st = None => Backlog(r) = 0)
  BY DEF Backlog
<1>4. Backlog(r) \in 0..MaxDocs
  <2> HIDE DEF st, m, k
  <2>1. 0 \in 0..MaxDocs
    BY <1>1
  <2>2. CASE st = None
    BY <1>3, <2>1, <2>2
  <2>3. CASE st # None
    <3>1. m \in 0..MaxDocs /\ m + k \in 0..MaxDocs
      BY <1>1, <1>2, <2>3
    <3> QED BY <1>3, <2>1, <3>1
  <2> QED BY <2>2, <2>3
<1>5. Cardinality(Rows) \in Nat
  <2>1. Rows \in SUBSET (1..MaxDocs)
    BY <1>1, SinceParts DEF Rows, IInv, Types, DataTyped
  <2> QED BY <1>1, <2>1, CountParts
<1>6. Baseline(r) \in Nat
  <2> DEFINE b == Backlog(r)
             c == Cardinality(Rows)
             n == c - b
  <2>1. b \in Nat /\ c \in Nat
    BY <1>1, <1>4, <1>5
  <2> HIDE DEF b, c
  <2>2. n \in Int
    BY <2>1
  <2> HIDE DEF n
  <2>3. AtLeastZero(n) \in Nat
    BY <2>2 DEF AtLeastZero
  <2> QED BY <2>3 DEF Baseline, b, c, n
<1> QED BY <1>4, <1>6

LEMMA WriteGuardIsFine ==
  ASSUME NEW r \in Runners, IInv, WriteGuard(r) PROVE IInv'
<1>1. /\ run[r].pc = "guard"
      /\ guard' = [at |-> begun, count |-> Baseline(r),
                   backlog |-> IF AnyOk(r) THEN Backlog(r) ELSE 0]
      /\ cursor' = IF ~Remembers /\ cursor.pos # None
                   THEN [cursor EXCEPT !.pos = None, !.holds = 0] ELSE cursor
      /\ attempt' = [attempt EXCEPT !.dreamt = attempt.after # None]
      /\ behind' \in {behind, behind \cup InFlight}
      /\ Goes(r, AfterGuard(r))
      /\ UNCHANGED <<docVars, notes, epoch, row, claim, mode, left, worked, forced>>
  BY DEF WriteGuard, At
<1>2. MaxDocs \in Nat /\ MaxHolds \in Nat \ {0}
  BY DreamAssumption DEF DreamAssumption
<1>3. /\ cursor' = cursor \/ cursor'.pos = None
      /\ cursor' \in [pos : Positions, holds : 0..MaxHolds - 1, dreams : 0..DreamCap,
                      base : 0..MaxDocs]
  <2> DEFINE C == [pos : Positions, holds : 0..MaxHolds - 1, dreams : 0..DreamCap,
                   base : 0..MaxDocs]
             c == cursor
             P == [c EXCEPT !.pos = None]
             N == None
             z == 0
  <2>1. c \in C /\ N \in Positions /\ z \in 0..MaxHolds - 1
    BY <1>2 DEF IInv, Types, MemoryTyped, Positions
  <2>2. c = [pos |-> c.pos, holds |-> c.holds, dreams |-> c.dreams, base |-> c.base]
        /\ c.dreams \in 0..DreamCap /\ c.base \in 0..MaxDocs
    BY <2>1
  <2> DEFINE p1 == [pos |-> N, holds |-> c.holds, dreams |-> c.dreams, base |-> c.base]
             p2 == [pos |-> N, holds |-> z, dreams |-> c.dreams, base |-> c.base]
  <2>3. p2 \in C /\ p2.pos = N
    BY <2>1, <2>2
  <2> HIDE DEF c, z, N
  <2>4. [c EXCEPT !.pos = N] = p1
    BY <2>2
  <2>5. [p1 EXCEPT !.holds = z] = p2
    OBVIOUS
  <2>6. [c EXCEPT !.pos = N, !.holds = z] = p2
    BY <2>4, <2>5
  <2>7. cursor' = c \/ cursor' = p2
    BY <1>1, <2>6 DEF c, z, N
  <2> HIDE DEF p2, C
  <2>8. cursor' \in C /\ (cursor' = c \/ cursor'.pos = N)
    BY <2>1, <2>3, <2>7
  <2> QED BY <2>8 DEF c, N, C
<1>4. MemoryTyped'
  <2>1. begun \in 0..MaxDocs /\ 0 \in 0..MaxDocs
    BY <1>2, SinceParts
  <2>2. (IF AnyOk(r) THEN Backlog(r) ELSE 0) \in 0..MaxDocs /\ Baseline(r) \in Nat
    BY <2>1, BacklogParts
  <2>3. guard' \in [at : {None} \cup (0..MaxDocs), count : Nat, backlog : 0..MaxDocs]
    BY <1>1, <2>1, <2>2
  <2> QED BY <1>1, <1>3, <2>3 DEF IInv, Types, MemoryTyped
<1>5. QueueTyped'
  <2>1. attempt' \in [after : {None} \cup (0..MaxDocs), dreamt : BOOLEAN]
    BY <1>1 DEF IInv, Types, QueueTyped
  <2> QED BY <1>1, <2>1 DEF IInv, Types, QueueTyped
<1>6. /\ RunsTyped' /\ run'[r].pc = AfterGuard(r)
      /\ run'[r].st = run[r].st /\ run'[r].ok = run[r].ok /\ run'[r].edit = run[r].edit
      /\ \A q \in Runners \ {r} : run'[q] = run[q]
  <2>1. /\ AfterGuard(r) \in Points
        /\ AfterGuard(r) \in {"prune", "edit", "cursor"} => run[r].st # None
    BY DEF AfterGuard, Points
  <2> QED BY <1>1, <2>1, GoesParts DEF IInv, Types
<1>7. HistoryTyped' /\ Grows
  <2>1. InFlight \subseteq 1..MaxDocs
    BY <1>2, SinceParts DEF InFlight
  <2> QED BY <1>1, <2>1 DEF IInv, Types, HistoryTyped, Grows, docVars
<1>8. Types'
  BY <1>1, <1>4, <1>5, <1>6, <1>7, DataFrame DEF Types
<1>9. run'[r].edit = {} /\ run'[r].pc \notin {"idle", "load"}
  BY <1>1, <1>6 DEF IInv, Epochs, AfterGuard
<1> QED BY <1>1, <1>3, <1>6, <1>7, <1>8, <1>9, OneMovesOn

\* Where a dream leaves the cursor, case by case.
LEMMA PlannedParts ==
  ASSUME NEW r \in Runners, NEW st
  PROVE  /\ Planned(r, st).base = st.base
         /\ Planned(r, st).dreams = Counted(r, st)
         /\ ~st.brief => Planned(r, st).pos = None /\ Planned(r, st).holds = 0
         /\ st.brief /\ st.shown = {} =>
              Planned(r, st).pos = st.pos /\ Planned(r, st).holds = st.holds
         /\ st.brief /\ Moves(r, st) =>
              Planned(r, st).pos = Greatest(st.shown) /\ Planned(r, st).holds = 0
         /\ st.brief /\ st.shown # {} /\ ~Moves(r, st) =>
              /\ Planned(r, st).pos = IF st.pos = None THEN Least(st.shown) - 1 ELSE st.pos
              /\ Planned(r, st).holds = IF AnyOk(r) THEN st.holds + 1 ELSE st.holds
         /\ Planned(r, st) = [pos |-> Planned(r, st).pos, holds |-> Planned(r, st).holds,
                              dreams |-> Planned(r, st).dreams, base |-> Planned(r, st).base]
<1> DEFINE p == st.pos
           h == st.holds
           n == Counted(r, st)
           b == st.base
           c == [pos |-> p, holds |-> h, dreams |-> n, base |-> b]
           N == None
           Z == 0
           g == Greatest(st.shown)
           h2 == IF AnyOk(r) THEN h + 1 ELSE h
           p2 == IF p = None THEN Least(st.shown) - 1 ELSE p
           cN == [pos |-> N, holds |-> h, dreams |-> n, base |-> b]
           cA == [pos |-> N, holds |-> Z, dreams |-> n, base |-> b]
           cG == [pos |-> g, holds |-> h, dreams |-> n, base |-> b]
           cC == [pos |-> g, holds |-> Z, dreams |-> n, base |-> b]
           cH == [pos |-> p, holds |-> h2, dreams |-> n, base |-> b]
           cD == [pos |-> p2, holds |-> h2, dreams |-> n, base |-> b]
<1>1. Planned(r, st) = IF ~st.brief THEN [c EXCEPT !.pos = N, !.holds = Z]
                       ELSE IF st.shown = {} THEN c
                       ELSE IF Moves(r, st) THEN [c EXCEPT !.pos = g, !.holds = Z]
                       ELSE [c EXCEPT !.holds = h2, !.pos = p2]
  BY DEF Planned
<1> HIDE DEF p, h, n, b, N, Z, g, h2, p2
<1>2. [c EXCEPT !.pos = N] = cN /\ [cN EXCEPT !.holds = Z] = cA
  OBVIOUS
<1>3. [c EXCEPT !.pos = g] = cG /\ [cG EXCEPT !.holds = Z] = cC
  OBVIOUS
<1>4. [c EXCEPT !.holds = h2] = cH /\ [cH EXCEPT !.pos = p2] = cD
  OBVIOUS
<1>5. Planned(r, st) = IF ~st.brief THEN cA
                       ELSE IF st.shown = {} THEN c
                       ELSE IF Moves(r, st) THEN cC ELSE cD
  BY <1>1, <1>2, <1>3, <1>4
<1>6. Moves(r, st) => st.shown # {}
  BY DEF Moves
<1> QED BY <1>5, <1>6 DEF p, h, n, b, N, Z, g, h2, p2

LEMMA PlannedTyped ==
  ASSUME IInv, NEW r \in Runners, run[r].st # None
  PROVE  Planned(r, run[r].st) \in [pos : Positions, holds : 0..MaxHolds - 1,
                                    dreams : 0..DreamCap, base : 0..MaxDocs]
<1> DEFINE st == run[r].st
           P == Planned(r, st)
           S == st.shown
           h == st.holds
<1>1. /\ MaxDocs \in Nat /\ MaxHolds \in Nat \ {0} /\ DreamCap \in Nat
      /\ None \notin Nat
  BY DreamAssumption DEF DreamAssumption
<1>2. /\ st.pos \in Positions /\ h \in 0..MaxHolds - 1 /\ st.dreams \in 0..DreamCap
      /\ st.base \in 0..MaxDocs /\ S \in SUBSET (1..MaxDocs)
  BY RunParts DEF IInv, Types, States
<1>3. Counted(r, st) \in 0..DreamCap
  <2> DEFINE n == st.dreams
  <2>1. n \in 0..DreamCap
    BY <1>2
  <2>2. Counted(r, st) = IF AnyOk(r) /\ n < DreamCap THEN n + 1 ELSE n
    BY DEF Counted
  <2> HIDE DEF n
  <2> QED BY <1>1, <2>1, <2>2
<1>4. P.holds \in 0..MaxHolds - 1
  <2>1. 0 \in 0..MaxHolds - 1
    BY <1>1
  <2>2. S # {} /\ ~Moves(r, st) /\ AnyOk(r) => h + 1 \in 0..MaxHolds - 1
    <3>1. S # {} /\ ~Moves(r, st) /\ AnyOk(r) => ~ (h + 1 >= MaxHolds)
      BY DEF Moves, HeldTooLong
    <3> QED BY <1>1, <1>2, <3>1
  <2>3. P.holds \in {0, h} \/ (S # {} /\ ~Moves(r, st) /\ AnyOk(r) /\ P.holds = h + 1)
    BY PlannedParts
  <2> QED BY <1>2, <2>1, <2>2, <2>3
<1>5. P.pos \in Positions
  <2>1. S # {} => Greatest(S) \in 1..MaxDocs /\ Least(S) \in 1..MaxDocs
    <3> SUFFICES ASSUME S # {} PROVE Greatest(S) \in 1..MaxDocs /\ Least(S) \in 1..MaxDocs
      OBVIOUS
    <3>1. S \in SUBSET (0..MaxDocs) /\ S \in SUBSET Nat
      BY <1>2
    <3>2. Greatest(S) \in S /\ Least(S) \in S
      BY <1>1, <3>1, GreatestParts, LeastParts
    <3> QED BY <1>2, <3>2
  <2>2. S # {} => Greatest(S) \in Positions /\ Least(S) - 1 \in Positions
    <3> DEFINE g == Greatest(S)
               l == Least(S)
    <3> HIDE DEF g, l
    <3>1. S # {} => g \in 1..MaxDocs /\ l \in 1..MaxDocs
      BY <2>1 DEF g, l
    <3>2. S # {} => g \in -1..MaxDocs /\ l - 1 \in -1..MaxDocs
      BY <1>1, <3>1
    <3> QED BY <3>2 DEF g, l, Positions
  <2>3. P.pos \in {None, st.pos} \/ (S # {} /\ P.pos \in {Greatest(S), Least(S) - 1})
    BY PlannedParts DEF Moves
  <2>4. None \in Positions
    BY DEF Positions
  <2> QED BY <1>2, <2>2, <2>3, <2>4
<1>6. P.dreams = Counted(r, st) /\ P.base = st.base
  BY PlannedParts
<1>7. P = [pos |-> P.pos, holds |-> P.holds, dreams |-> P.dreams, base |-> P.base]
  BY PlannedParts
<1>8. P.dreams \in 0..DreamCap /\ P.base \in 0..MaxDocs
  BY <1>2, <1>3, <1>6
<1> HIDE DEF P, st
<1>9. P \in [pos : Positions, holds : 0..MaxHolds - 1, dreams : 0..DreamCap,
             base : 0..MaxDocs]
  BY <1>4, <1>5, <1>7, <1>8
<1> QED BY <1>9 DEF P, st

\* The position moves over a list that both specialists worked on, or that is
\* given up; where it is held, nothing is passed that the state had not passed.
LEMMA PlannedSafe ==
  ASSUME IInv, Grows, begun' = begun, NEW r \in Runners, run[r].st # None,
         HeldTooLong(r, run[r].st) => run[r].st.shown \subseteq forced',
         Planned(r, run[r].st).pos # None
  PROVE  /\ Planned(r, run[r].st).pos \in 0..begun
         /\ PassedNext(Planned(r, run[r].st).base, Planned(r, run[r].st).pos)
<1> DEFINE st == run[r].st
           P == Planned(r, st)
           S == st.shown
<1>1. MaxDocs \in Nat /\ begun \in Nat /\ begun <= MaxDocs /\ None \notin Nat
  BY SinceParts, DreamAssumption DEF DreamAssumption
<1>2. st.base \in Nat /\ run[r].ok \in SUBSET Specialists
  <2>1. st \in States /\ run[r].ok \in SUBSET Specialists
    BY RunParts DEF IInv, Types
  <2>2. st.base \in 0..MaxDocs
    BY <2>1 DEF States
  <2> QED BY <1>1, <2>1, <2>2
<1>3. /\ st.pos # None => st.pos \in 0..begun /\ PassedNext(st.base, st.pos)
      /\ S \subseteq 1..begun
      /\ \A x \in S : \A d \in Counting' : From(st) < d /\ d <= x => d \in S
      /\ \A s \in run[r].ok : S \subseteq worked'[s]
  <2>1. Snapshot(st, run[r].ok)
    BY DEF IInv, Snapshots
  <2>2. SnapshotNext(st, run[r].ok)
    BY <1>2, <2>1, SnapshotFrame DEF IInv, Types
  <2> QED BY <2>2 DEF SnapshotNext
<1>4. P.base = st.base
  BY PlannedParts
<1>5. S # {} => /\ Greatest(S) \in S /\ \A y \in S : y <= Greatest(S)
               /\ Least(S) \in S /\ \A y \in S : Least(S) <= y
  <2>1. S \in SUBSET (0..MaxDocs) /\ S \in SUBSET Nat
    BY <1>1, <1>3
  <2> QED BY <1>1, <2>1, GreatestParts, LeastParts
<1>6. \A d \in Counting' : d \in Nat
  BY CountingNext DEF IInv, Types
<1>7. CASE P.pos = st.pos
  BY <1>3, <1>4, <1>7
<1>8. CASE Moves(r, st) /\ P.pos = Greatest(S)
  <2> DEFINE g == Greatest(S)
  <2>1. g \in S /\ g \in 0..begun /\ g \in Nat
    BY <1>1, <1>3, <1>5, <1>8 DEF Moves
  <2> HIDE DEF g
  <2>2. ASSUME NEW d \in Counting', st.base < d, d <= g PROVE Consolidated(d)'
    <3>1. CASE st.pos # None /\ d <= st.pos
      BY <1>3, <2>2, <3>1 DEF PassedNext
    <3>2. CASE st.pos = None \/ st.pos < d
      <4>1. From(st) < d
        BY <2>2, <3>2 DEF From
      <4>2. d \in S
        BY <1>3, <2>1, <2>2, <4>1
      <4>3. AllOk(r) => \A s \in Specialists : d \in worked'[s]
        BY <1>3, <4>2 DEF AllOk
      <4>4. HeldTooLong(r, st) => d \in forced'
        BY <4>2
      <4> QED BY <1>8, <4>3, <4>4 DEF Moves, Consolidated
    <3>3. st.pos # None => st.pos \in Nat
      BY <1>1, <1>3
    <3> QED BY <1>6, <2>2, <3>1, <3>2, <3>3
  <2>3. PassedNext(st.base, g)
    BY <2>2 DEF PassedNext
  <2> QED BY <1>4, <1>8, <2>1, <2>3 DEF g
<1>9. CASE st.pos = None /\ S # {} /\ P.pos = Least(S) - 1
  <2> DEFINE l == Least(S)
  <2>1. l \in S /\ (\A y \in S : l <= y) /\ l \in 1..begun
    BY <1>3, <1>5, <1>9
  <2> HIDE DEF l
  <2>2. l - 1 \in 0..begun
    BY <1>1, <2>1
  <2>3. ASSUME NEW d \in Counting', st.base < d, d <= l - 1 PROVE FALSE
    <3>1. From(st) < d
      BY <1>9, <2>3 DEF From
    <3>2. d <= l /\ ~ (l <= d)
      BY <1>1, <1>6, <2>1, <2>3
    <3>3. d \in S
      BY <1>3, <2>1, <3>1, <3>2
    <3> QED BY <2>1, <3>2, <3>3
  <2>4. PassedNext(st.base, l - 1)
    BY <2>3 DEF PassedNext
  <2> QED BY <1>4, <1>9, <2>2, <2>4 DEF l
<1>10. /\ st.brief
       /\ \/ P.pos = st.pos
          \/ Moves(r, st) /\ P.pos = Greatest(S)
          \/ st.pos = None /\ S # {} /\ P.pos = Least(S) - 1
  BY PlannedParts
<1> QED BY <1>7, <1>8, <1>9, <1>10

LEMMA AdvanceCursorIsFine ==
  ASSUME NEW r \in Runners, IInv, AdvanceCursor(r) PROVE IInv'
<1>1. /\ run[r].pc = "cursor" /\ cursor' = Planned(r, run[r].st)
      /\ forced' = IF HeldTooLong(r, run[r].st) THEN forced \cup run[r].st.shown ELSE forced
      /\ Goes(r, "mark")
      /\ UNCHANGED <<docVars, guard, notes, epoch, queueVars, mode, left, worked, behind>>
  BY DEF AdvanceCursor, At, HeldTooLong
<1>2. run[r].st # None /\ run[r].st.shown \subseteq 1..MaxDocs
  <2>1. run[r].st # None /\ run[r].st \in States \cup {None}
    BY <1>1, RunParts DEF IInv, Types, RunsTyped
  <2> QED BY <2>1 DEF States
<1>3. MemoryTyped'
  BY <1>1, <1>2, PlannedTyped DEF IInv, Types, MemoryTyped
<1>4. HistoryTyped' /\ Grows /\ begun' = begun
  BY <1>1, <1>2 DEF IInv, Types, HistoryTyped, Grows, docVars
<1>5. /\ RunsTyped' /\ run'[r].pc = "mark"
      /\ run'[r].st = run[r].st /\ run'[r].ok = run[r].ok /\ run'[r].edit = run[r].edit
      /\ \A q \in Runners \ {r} : run'[q] = run[q]
  <2>1. "mark" \in Points /\ "mark" \notin {"prune", "edit", "cursor"}
    BY DEF Points
  <2> QED BY <1>1, <2>1, GoesParts DEF IInv, Types
<1>6. Types'
  BY <1>1, <1>3, <1>4, <1>5, DataFrame, QueueFrame, LeftParts DEF Types
<1>7. CursorSafe'
  <2>1. cursor'.pos # None =>
          cursor'.pos \in 0..begun' /\ PassedNext(cursor'.base, cursor'.pos)
    BY <1>1, <1>2, <1>4, PlannedSafe
  <2> QED BY <2>1 DEF CursorSafe, Passed, PassedNext
<1>8. Snapshots' /\ Fits'
  <2>1. \A q \in Runners :
          /\ run'[q].st = run[q].st /\ run'[q].ok = run[q].ok
          /\ run'[q].pc \in {"idle", "load"} => run'[q].ok = {}
    BY <1>5 DEF IInv, Snapshots
  <2> QED BY <1>4, <2>1, AllKeep
<1>9. Epochs'
  <2>1. run'[r].edit = {}
    BY <1>1, <1>5 DEF IInv, Epochs
  <2> QED BY <1>1, <1>5, <2>1, EpochsKeep
<1> QED BY <1>6, <1>7, <1>8, <1>9 DEF IInv

-----------------------------------------------------------------------------
(* The invariant. *)

LEMMA InitIsFine ==
  ASSUME Init PROVE IInv
<1>1. /\ begun = 0 /\ docs = {} /\ gone = {} /\ purged = {}
      /\ guard = [at |-> None, count |-> 0, backlog |-> 0]
      /\ cursor = NewCursor /\ notes = {} /\ epoch = 0
      /\ row = FALSE /\ claim = None /\ attempt = [after |-> None, dreamt |-> FALSE]
      /\ run = [q \in Runners |-> Resting]
      /\ mode = "brief" /\ left = Budget
      /\ worked = [s \in Specialists |-> {}] /\ forced = {} /\ behind = {}
  BY DEF Init
<1>2. /\ MaxDocs \in Nat /\ MaxHolds \in Nat \ {0} /\ DreamCap \in Nat
      /\ Budget \in [Bounds -> Nat]
  BY DreamAssumption DEF DreamAssumption
<1>3. 0 \in 0..MaxDocs /\ 0 \in 0..MaxHolds - 1 /\ 0 \in 0..DreamCap
  BY <1>2
<1>4. Resting \in Runs /\ Resting.pc = "idle" /\ Resting.st = None
      /\ Resting.ok = {} /\ Resting.edit = {}
  BY DEF Resting, Runs, Points, Specialists
<1>5. DataTyped
  BY <1>1, <1>3 DEF DataTyped
<1>6. MemoryTyped
  <2>1. NewCursor \in [pos : Positions, holds : 0..MaxHolds - 1, dreams : 0..DreamCap,
                       base : 0..MaxDocs]
    BY <1>3 DEF NewCursor, Positions
  <2> QED BY <1>1, <1>3, <2>1 DEF MemoryTyped
<1>7. QueueTyped
  BY <1>1, <1>2 DEF QueueTyped, Modes
<1>8. RunsTyped /\ HistoryTyped
  BY <1>1, <1>4 DEF RunsTyped, HistoryTyped
<1>9. CursorSafe
  BY <1>1 DEF CursorSafe, NewCursor
<1>10. Snapshots /\ Epochs /\ Fits
  BY <1>1, <1>4 DEF Snapshots, Epochs, NotesOfThisEpoch, Fits
<1> QED BY <1>5, <1>6, <1>7, <1>8, <1>9, <1>10 DEF IInv, Types

LEMMA NextIsFine ==
  ASSUME IInv, Next PROVE IInv'
<1>1. CASE Begin \/ Purge \/ File \/ Expire \/ Toggle
  BY <1>1, BeginIsFine, PurgeIsFine, FileIsFine, ExpireIsFine, ToggleIsFine
<1>2. CASE \E d \in 1..MaxDocs : Save(d)
  BY <1>2, SaveIsFine
<1>3. CASE \E S \in SUBSET Live : Remove(S)
  BY <1>3, RemoveIsFine
<1>4. ASSUME NEW r \in Runners, Start(r) \/ Dream(r) \/ Edit(r) \/ Mishap(r)
      PROVE  IInv'
  <2>1. CASE Start(r) \/ Edit(r)
    BY <2>1, StartIsFine, EditIsFine
  <2>2. CASE Load(r)
    BY <2>2, LoadIsFine
  <2>3. CASE Pass(r)
    BY <2>3, LoadNotesIsFine, StoreIsFine, EndIsFine DEF Pass
  <2>4. CASE Close(r)
    BY <2>4, WriteGuardIsFine, RereadIsFine, AdvanceCursorIsFine, FinishIsFine DEF Close
  <2>5. CASE Mishap(r)
    BY <2>5, FaultsAreFine, CrashIsFine DEF Mishap
  <2> QED BY <1>4, <2>1, <2>2, <2>3, <2>4, <2>5 DEF Dream
<1> QED BY <1>1, <1>2, <1>3, <1>4 DEF Next

LEMMA StutterIsFine ==
  ASSUME IInv, UNCHANGED vars PROVE IInv'
<1>1. UNCHANGED <<docVars, memoryVars, queueVars, mode, left, history, run>>
  BY DEF vars
<1>2. Types'
  BY <1>1, DataFrame, MemoryFrame, QueueFrame, RunsFrame, HistoryFrame, LeftParts DEF Types
<1> QED BY <1>1, <1>2, GrowsFrame, RunUnchanged DEF docVars, memoryVars

\* Every step of every dream, and every mishap, keeps the invariant.
THEOREM Inductive == Spec => []IInv
<1>1. Init => IInv
  BY InitIsFine
<1>2. IInv /\ [Next]_vars => IInv'
  BY NextIsFine, StutterIsFine
<1> QED BY <1>1, <1>2, PTL DEF Spec

-----------------------------------------------------------------------------
(* The theorems. *)

\* The collection's metadata and the dreams stay well typed: the recorded count is
\* never negative, the backlog never more than was saved, and no position is held
\* for MAX_CURSOR_HOLDS dreams.
THEOREM TypeOKHolds == Spec => []TypeOK
<1>1. IInv => TypeOK
  BY TypesAreTypeOK DEF IInv
<1> QED BY <1>1, Inductive, PTL

\* The cursor passes no conclusion that both specialists have not worked on, unless
\* its list was given up or it was uncommitted when the list was read: whatever is
\* saved, removed, taken over or lost while dreams run.
THEOREM PassedWasWorkedHolds == Spec => []PassedWasWorked
<1>1. IInv => PassedWasWorked
  <2> SUFFICES ASSUME IInv, cursor.pos # None, NEW d \in Live \ behind,
                      d > cursor.base, d <= cursor.pos
               PROVE  Consolidated(d)
    BY DEF PassedWasWorked
  <2>1. Passed(cursor.base, cursor.pos)
    BY DEF IInv, CursorSafe
  <2>2. d \in Counting
    BY DEF Counting, Live, IInv, Types, DataTyped
  <2> QED BY <2>1, <2>2, SinceParts DEF Passed
<1> QED BY <1>1, Inductive, PTL

\* No note written by a dream that began before a removal is stored after it.
THEOREM NotesOfThisEpochHolds == Spec => []NotesOfThisEpoch
<1>1. IInv => NotesOfThisEpoch
  BY DEF IInv, Epochs
<1> QED BY <1>1, Inductive, PTL
=====================================================================
