-------------------------- MODULE Conclusions_proofs --------------------------
(***************************************************************************)
(* TypeOK, OnePerKey, DerivationsCount and KeepsCitations, for any number  *)
(* of calls, batches of any length and any relation of near duplicates.    *)
(***************************************************************************)
EXTENDS Conclusions, FiniteSetTheorems, WellFoundedInduction, TLAPS

-----------------------------------------------------------------------------
(* The inductive invariant. *)

\* The positions whose candidate was read.
Candidates(w) == {j \in Positions(w) : call[w].near[j] # None}

Calls ==
  /\ batch \in [Writers -> Batches]
  /\ call = [w \in Writers |-> call[w]]
  /\ \A w \in Writers :
       /\ call[w] = [pc |-> call[w].pc, near |-> call[w].near,
                     exact |-> call[w].exact, read |-> call[w].read]
       /\ call[w].pc \in {"resolve", "match", "commit", "done"}
       /\ call[w].pc \in {"resolve", "done"} =>
            call[w].near = <<>> /\ call[w].exact = <<>> /\ call[w].read = <<>>
       /\ call[w].pc \in {"match", "commit"} =>
            /\ call[w].near \in [Positions(w) -> Ids \cup {None}]
            /\ call[w].read \in [Candidates(w) -> RowType]
       /\ call[w].pc = "match" => call[w].exact = <<>>
       /\ call[w].pc = "commit" => call[w].exact \in [Positions(w) -> Ids \cup {None}]

\* A document is there once its call has committed, with the fact of the first
\* of its key in the batch.
Rows ==
  /\ rows \in [Ids -> RowType]
  /\ \A x \in Docs : rows[x].life # "none" =>
       /\ call[x[1]].pc = "done" /\ x[2] \in Positions(x[1])
       /\ IsFirst(x[1], x[2]) /\ rows[x].fact = batch[x[1]][x[2]]
  /\ \A x \in Live : rows[x].fact \in Facts

History ==
  /\ before \in [Writers -> SUBSET Writers]
  /\ \A w \in Writers : \A v \in before[w] : call[v].pc = "done"
  /\ fallen \subseteq Docs

\* No call that w saw committed has a live document with the fact.
Clear(w, f) ==
  \A x \in Docs : x[1] \in before[w] /\ rows[x].life = "live" => rows[x].fact # f

Keys ==
  /\ \A w \in Writers : call[w].pc = "commit" =>
       \A i \in Positions(w) : call[w].exact[i] = None => Clear(w, batch[w][i])
  /\ \A x \in Docs \ fallen : rows[x].life # "none" => Clear(x[1], rows[x].fact)

Counts ==
  /\ gains \in [Ids -> Nat]
  /\ \A x \in Ids : rows[x].life = "none" => gains[x] = 0
  /\ \A x \in Live : rows[x].times >= 1 + gains[x]

IInv == Calls /\ Rows /\ History /\ Keys /\ Counts

-----------------------------------------------------------------------------
(* Documents and rows. *)

LEMMA DocParts ==
  ASSUME NEW x \in Docs
  PROVE  x[1] \in Writers /\ x[2] \in Nat \ {0} /\ x = <<x[1], x[2]>>
<1>1. PICK w \in Writers, b \in Batches : x \in {<<w, i>> : i \in 1 .. Len(b)}
  BY DEF Docs
<1>2. PICK i \in 1 .. Len(b) : x = <<w, i>>
  BY <1>1
<1>3. Len(b) \in Nat
  BY ConclusionsAssumption DEF ConclusionsAssumption
<1>4. x[1] = w /\ x[2] = i
  BY <1>2
<1> QED BY <1>2, <1>3, <1>4

LEMMA PositionParts ==
  ASSUME Calls, NEW w \in Writers
  PROVE  /\ Len(batch[w]) \in Nat
         /\ \A i \in Positions(w) :
              i \in Nat \ {0} /\ batch[w][i] \in Facts /\ <<w, i>> \in Docs
<1>1. batch[w] \in Batches /\ batch[w] \in Seq(Facts)
  BY ConclusionsAssumption DEF Calls, ConclusionsAssumption
<1>2. Len(batch[w]) \in Nat /\ \A i \in 1 .. Len(batch[w]) : batch[w][i] \in Facts
  BY <1>1
<1>3. ASSUME NEW i \in 1 .. Len(batch[w]) PROVE <<w, i>> \in Docs
  <2> DEFINE F(v, b) == {<<v, k>> : k \in 1 .. Len(b)}
             S == {F(v, b) : v \in Writers, b \in Batches}
  <2>1. <<w, i>> \in F(w, batch[w])
    OBVIOUS
  <2>2. F(w, batch[w]) \in S
    BY <1>1
  <2> HIDE DEF F, S
  <2>3. <<w, i>> \in UNION S
    BY <2>1, <2>2
  <2> QED BY <2>3 DEF F, S, Docs
<1> QED BY <1>2, <1>3 DEF Positions

\* EXCEPT on two fields of a call, and on three fields of a row.
LEMMA TwoFields ==
  ASSUME NEW c, NEW p, NEW e,
         c = [pc |-> c.pc, near |-> c.near, exact |-> c.exact, read |-> c.read]
  PROVE  [[c EXCEPT !.pc = p] EXCEPT !.exact = e]
           = [pc |-> p, near |-> c.near, exact |-> e, read |-> c.read]
<1>1. [c EXCEPT !.pc = p] = [pc |-> p, near |-> c.near, exact |-> c.exact, read |-> c.read]
  OBVIOUS
<1> DEFINE d == [pc |-> p, near |-> c.near, exact |-> c.exact, read |-> c.read]
<1>2. [d EXCEPT !.exact = e] = [pc |-> p, near |-> c.near, exact |-> e, read |-> c.read]
  OBVIOUS
<1> QED BY <1>1, <1>2

LEMMA ThreeFields ==
  ASSUME NEW r, NEW f,
         r = [life |-> r.life, fact |-> r.fact, times |-> r.times, cites |-> r.cites]
  PROVE  [[[r EXCEPT !.life = "live"] EXCEPT !.fact = f] EXCEPT !.times = 1]
           = [life |-> "live", fact |-> f, times |-> 1, cites |-> r.cites]
<1> DEFINE s == [life |-> "live", fact |-> r.fact, times |-> r.times, cites |-> r.cites]
<1> DEFINE q == [life |-> "live", fact |-> f, times |-> r.times, cites |-> r.cites]
<1>1. [r EXCEPT !.life = "live"] = s
  OBVIOUS
<1>2. [s EXCEPT !.fact = f] = q
  OBVIOUS
<1>3. [q EXCEPT !.times = 1] = [life |-> "live", fact |-> f, times |-> 1, cites |-> r.cites]
  OBVIOUS
<1> QED BY <1>1, <1>2, <1>3

LEMMA IdParts ==
  /\ None \notin Ids
  /\ \A x \in Ids : x \in Docs <=> x \notin Manual
BY NoneIsNew DEF Ids

\* What one step does to the call that takes it.
LEMMA CallsFrame ==
  ASSUME Calls, NEW w \in Writers, NEW new, batch' = batch,
         call' = [v \in Writers |-> IF v = w THEN new ELSE call[v]],
         new = [pc |-> new.pc, near |-> new.near, exact |-> new.exact, read |-> new.read],
         new.pc \in {"match", "commit", "done"},
         new.pc = "done" => new.near = <<>> /\ new.exact = <<>> /\ new.read = <<>>,
         new.pc \in {"match", "commit"} =>
            /\ new.near \in [Positions(w) -> Ids \cup {None}]
            /\ new.read \in [{j \in Positions(w) : new.near[j] # None} -> RowType],
         new.pc = "match" => new.exact = <<>>,
         new.pc = "commit" => new.exact \in [Positions(w) -> Ids \cup {None}]
  PROVE  Calls' /\ call'[w] = new /\ \A v \in Writers \ {w} : call'[v] = call[v]
<1>1. /\ call'[w] = new /\ \A v \in Writers \ {w} : call'[v] = call[v]
      /\ call' = [v \in Writers |-> call'[v]]
  BY DEF Calls
<1>2. Candidates(w)' = {j \in Positions(w) : new.near[j] # None}
  BY <1>1 DEF Candidates, Positions
<1>3. \A v \in Writers \ {w} : Candidates(v)' = Candidates(v)
  BY <1>1 DEF Candidates, Positions
<1>4. \A v \in Writers : Positions(v)' = Positions(v)
  BY DEF Positions
<1> QED BY <1>1, <1>2, <1>3, <1>4, ZenonT(60) DEF Calls

\* A step that brings no document and no exact match keeps Keys.
LEMMA KeysFrame ==
  ASSUME Keys, UNCHANGED <<batch, before, fallen>>,
         \A w \in Writers : call'[w].pc = "commit" =>
           call[w].pc = "commit" /\ call'[w].exact = call[w].exact,
         \A y \in Docs : /\ rows'[y].life = "live" => rows[y].life = "live"
                         /\ rows'[y].fact = rows[y].fact
                         /\ rows'[y].life # "none" => rows[y].life # "none"
  PROVE  Keys'
<1>1. ASSUME NEW w, NEW f, Clear(w, f) PROVE Clear(w, f)'
  <2> SUFFICES ASSUME NEW x \in Docs, x[1] \in before[w], rows'[x].life = "live"
               PROVE  rows'[x].fact # f
    BY DEF Clear
  <2>1. rows[x].life = "live" /\ rows'[x].fact = rows[x].fact
    OBVIOUS
  <2> QED BY <1>1, <2>1 DEF Clear
<1>2. ASSUME NEW w \in Writers, call'[w].pc = "commit", NEW i \in Positions(w),
             call'[w].exact[i] = None
      PROVE  Clear(w, batch[w][i])'
  BY <1>1, <1>2 DEF Keys
<1>3. ASSUME NEW x \in Docs \ fallen, rows'[x].life # "none"
      PROVE  Clear(x[1], rows[x].fact)'
  <2>1. rows[x].life # "none" /\ rows'[x].fact = rows[x].fact
    BY <1>3
  <2> QED BY <1>1, <2>1 DEF Keys
<1> QED BY <1>2, <1>3 DEF Keys, Positions

LEMMA ResolveIsFine ==
  ASSUME NEW w \in Writers, IInv, Resolve(w) PROVE IInv'
<1> DEFINE new(near) ==
      [pc |-> "match", near |-> near, exact |-> <<>>,
       read |-> [i \in {j \in Positions(w) : near[j] # None} |-> rows[near[i]]]]
<1>1. /\ call[w].pc = "resolve"
      /\ UNCHANGED <<batch, rows, before, gains, fallen>>
  BY DEF Resolve
<1>2. PICK near \in [Positions(w) -> Ids \cup {None}] :
        call' = [call EXCEPT ![w] = new(near)]
  BY ZenonT(60) DEF Resolve, Unread
<1>3. new(near).read \in [{j \in Positions(w) : near[j] # None} -> RowType]
  <2>1. \A i \in {j \in Positions(w) : near[j] # None} : rows[near[i]] \in RowType
    BY DEF IInv, Rows
  <2> QED BY <2>1
<1>4. Calls' /\ call'[w].pc = "match" /\ \A v \in Writers \ {w} : call'[v] = call[v]
  <2> DEFINE n == new(near)
  <2>1. /\ n.pc = "match" /\ n.near = near /\ n.exact = <<>>
        /\ n = [pc |-> n.pc, near |-> n.near, exact |-> n.exact, read |-> n.read]
    OBVIOUS
  <2>2. call' = [v \in Writers |-> IF v = w THEN n ELSE call[v]]
    BY <1>2 DEF IInv, Calls
  <2>3. n.read \in [{j \in Positions(w) : n.near[j] # None} -> RowType]
    BY <1>3
  <2> HIDE DEF n
  <2> QED BY <1>1, <2>1, <2>2, <2>3, CallsFrame DEF IInv
<1> HIDE DEF new
<1>5. Rows'
  BY <1>1, <1>4, DocParts DEF IInv, Rows, Live, IsFirst, Positions
<1>6. History'
  BY <1>1, <1>4 DEF IInv, History
<1>7. Keys'
  BY <1>1, <1>4, KeysFrame DEF IInv
<1>8. Counts'
  BY <1>1 DEF IInv, Counts, Live
<1> QED BY <1>4, <1>5, <1>6, <1>7, <1>8 DEF IInv

LEMMA MatchIsFine ==
  ASSUME NEW w \in Writers, IInv, Match(w) PROVE IInv'
<1>1. /\ call[w].pc = "match"
      /\ before' = [before EXCEPT ![w] = {v \in Writers : call[v].pc = "done"}]
      /\ UNCHANGED <<batch, rows, gains, fallen>>
  BY DEF Match
<1>2. PICK exact \in [Positions(w) -> Ids \cup {None}] :
        /\ \A i \in Positions(w) : exact[i] = None => LiveWith(batch[w][i]) = {}
        /\ call' = [call EXCEPT ![w].pc = "commit", ![w].exact = exact]
  <2>1. PICK exact \in [Positions(w) -> Ids \cup {None}] :
          /\ \A i \in Positions(w) :
               IF LiveWith(batch[w][i]) = {} THEN exact[i] = None
               ELSE exact[i] \in LiveWith(batch[w][i])
          /\ call' = [call EXCEPT ![w].pc = "commit", ![w].exact = exact]
    BY DEF Match
  <2>2. \A i \in Positions(w) : exact[i] = None => LiveWith(batch[w][i]) = {}
    BY <2>1, IdParts DEF LiveWith, Live
  <2> QED BY <2>1, <2>2
<1> DEFINE n == [pc |-> "commit", near |-> call[w].near, exact |-> exact, read |-> call[w].read]
<1>3. call' = [v \in Writers |-> IF v = w THEN n ELSE call[v]]
  <2>1. call[w] = [pc |-> call[w].pc, near |-> call[w].near,
                   exact |-> call[w].exact, read |-> call[w].read]
    BY DEF IInv, Calls
  <2>2. [[call[w] EXCEPT !.pc = "commit"] EXCEPT !.exact = exact] = n
    BY <2>1, TwoFields
  <2>3. call' = [call EXCEPT ![w] = [[call[w] EXCEPT !.pc = "commit"] EXCEPT !.exact = exact]]
    BY <1>2 DEF IInv, Calls
  <2> HIDE DEF n
  <2> QED BY <2>2, <2>3 DEF IInv, Calls
<1>4. /\ Calls' /\ call'[w].pc = "commit" /\ call'[w].exact = exact
      /\ \A v \in Writers \ {w} : call'[v] = call[v]
  <2>1. /\ n.pc = "commit" /\ n.near = call[w].near /\ n.exact = exact
        /\ n.read = call[w].read
        /\ n = [pc |-> n.pc, near |-> n.near, exact |-> n.exact, read |-> n.read]
    OBVIOUS
  <2>2. /\ call[w].near \in [Positions(w) -> Ids \cup {None}]
        /\ call[w].read \in [{j \in Positions(w) : call[w].near[j] # None} -> RowType]
    BY <1>1 DEF IInv, Calls, Candidates
  <2>3. call' = [v \in Writers |-> IF v = w THEN n ELSE call[v]] /\ batch' = batch
    BY <1>1, <1>3
  <2>4. n.exact \in [Positions(w) -> Ids \cup {None}]
    BY <1>2, <2>1
  <2> HIDE DEF n
  <2>5. n.near \in [Positions(w) -> Ids \cup {None}]
        /\ n.read \in [{j \in Positions(w) : n.near[j] # None} -> RowType]
    BY <2>1, <2>2
  <2>6. Calls' /\ call'[w] = n /\ \A v \in Writers \ {w} : call'[v] = call[v]
    BY <2>1, <2>3, <2>4, <2>5, CallsFrame DEF IInv
  <2> QED BY <2>1, <2>6
<1> HIDE DEF n
<1>5. Rows'
  BY <1>1, <1>4, DocParts DEF IInv, Rows, Live, IsFirst, Positions
<1>6. History'
  BY <1>1, <1>4 DEF IInv, History
<1>7. Keys'
  <2>1. \A v \in Writers \ {w} : before'[v] = before[v]
    BY <1>1 DEF IInv, History
  <2>2. \A v \in Writers \ {w} : \A f : Clear(v, f)' <=> Clear(v, f)
    BY <1>1, <2>1 DEF Clear
  <2>3. \A i \in Positions(w) : exact[i] = None => Clear(w, batch[w][i])'
    BY <1>1, <1>2 DEF Clear, LiveWith, Live, Fact, Ids
  <2>4. ASSUME NEW x \in Docs \ fallen, rows[x].life # "none"
        PROVE  Clear(x[1], rows[x].fact)'
    <3>1. x[1] \in Writers \ {w}
      BY <1>1, <2>4, DocParts DEF IInv, Rows
    <3> QED BY <2>2, <2>4, <3>1, <1>1 DEF IInv, Keys
  <2> QED BY <1>1, <1>4, <2>2, <2>3, <2>4 DEF IInv, Keys, Positions
<1>8. Counts'
  BY <1>1 DEF IInv, Counts, Live
<1> QED BY <1>4, <1>5, <1>6, <1>7, <1>8 DEF IInv

LEMMA CreateIsFine ==
  ASSUME NEW x \in Ids, IInv, CreateObservation(x) PROVE IInv'
<1>1. /\ x \in Manual /\ rows[x].life = "none"
      /\ UNCHANGED <<batch, call, before, gains, fallen>>
  BY DEF CreateObservation
<1>2. PICK f \in Facts :
        rows' = [rows EXCEPT ![x].life = "live", ![x].fact = f, ![x].times = 1]
  BY DEF CreateObservation
<1>3. /\ rows'[x] = [life |-> "live", fact |-> f, times |-> 1, cites |-> rows[x].cites]
      /\ rows[x].cites \in SUBSET Docs
      /\ \A y \in Ids \ {x} : rows'[y] = rows[y]
  <2>1. rows[x] \in RowType /\ rows \in [Ids -> RowType]
    BY DEF IInv, Rows
  <2>2. [[[rows[x] EXCEPT !.life = "live"] EXCEPT !.fact = f] EXCEPT !.times = 1]
          = [life |-> "live", fact |-> f, times |-> 1, cites |-> rows[x].cites]
    <3>1. rows[x] = [life |-> rows[x].life, fact |-> rows[x].fact,
                     times |-> rows[x].times, cites |-> rows[x].cites]
      BY <2>1 DEF RowType
    <3> QED BY <3>1, ThreeFields
  <2>3. rows' = [rows EXCEPT ![x] =
                   [[[rows[x] EXCEPT !.life = "live"] EXCEPT !.fact = f] EXCEPT !.times = 1]]
    BY <1>2, <2>1
  <2>4. rows[x].cites \in SUBSET Docs
    BY <2>1 DEF RowType
  <2> QED BY <2>1, <2>2, <2>3, <2>4
<1>4. rows' \in [Ids -> RowType]
  BY <1>2, <1>3 DEF IInv, Rows, RowType
<1>5. \A y \in Docs : y \in Ids /\ rows'[y] = rows[y]
  BY <1>1, <1>3, IdParts DEF Ids
<1>6. Calls'
  BY <1>1 DEF IInv, Calls, Candidates, Positions
<1>7. Rows'
  BY <1>1, <1>3, <1>4, <1>5 DEF IInv, Rows, Live, IsFirst, Positions
<1>8. History'
  BY <1>1 DEF IInv, History
<1>9. Keys'
  BY <1>1, <1>5, KeysFrame DEF IInv
<1>10. Counts'
  BY <1>1, <1>3, <1>4 DEF IInv, Counts, Live
<1> QED BY <1>6, <1>7, <1>8, <1>9, <1>10 DEF IInv

LEMMA DeleteIsFine ==
  ASSUME NEW x \in Ids, IInv, DeleteDocument(x) PROVE IInv'
<1>1. /\ x \in Live /\ rows[x].life = "live"
      /\ rows' = [rows EXCEPT ![x].life = "deleted"]
      /\ UNCHANGED <<batch, call, before, gains, fallen>>
  BY DEF DeleteDocument, Live
<1>2. /\ rows'[x].life = "deleted" /\ rows'[x].fact = rows[x].fact
      /\ \A y \in Ids \ {x} : rows'[y] = rows[y]
      /\ rows' \in [Ids -> RowType]
  BY <1>1 DEF IInv, Rows, RowType
<1>3. Calls'
  BY <1>1 DEF IInv, Calls, Candidates, Positions
<1>4. Rows'
  BY <1>1, <1>2 DEF IInv, Rows, Live, IsFirst, Positions
<1>5. History'
  BY <1>1 DEF IInv, History
<1>6. Keys'
  <2>1. \A y \in Docs : y \in Ids
    BY DEF Ids
  <2>2. \A y \in Docs : /\ rows'[y].life = "live" => rows[y].life = "live"
                        /\ rows'[y].fact = rows[y].fact
                        /\ rows'[y].life # "none" => rows[y].life # "none"
    BY <1>1, <1>2, <2>1
  <2> QED BY <1>1, <2>2, KeysFrame DEF IInv
<1>7. Counts'
  BY <1>1, <1>2 DEF IInv, Counts, Live
<1> QED BY <1>3, <1>4, <1>5, <1>6, <1>7 DEF IInv

-----------------------------------------------------------------------------
(* The transaction of a call. *)

\* What the call has read, and that none of its documents is there yet.
LEMMA CommitReads ==
  ASSUME NEW w \in Writers, IInv, call[w].pc = "commit"
  PROVE  /\ call[w].near \in [Positions(w) -> Ids \cup {None}]
         /\ call[w].exact \in [Positions(w) -> Ids \cup {None}]
         /\ \A i \in Positions(w) : Replaces(w, i) => call[w].read[i] \in RowType
         /\ \A x \in Docs : x[1] = w => rows[x].life = "none"
<1>1. /\ call[w].near \in [Positions(w) -> Ids \cup {None}]
      /\ call[w].exact \in [Positions(w) -> Ids \cup {None}]
      /\ call[w].read \in [Candidates(w) -> RowType]
  BY DEF IInv, Calls
<1>2. \A i \in Positions(w) : Replaces(w, i) => i \in Candidates(w)
  BY DEF Replaces, Candidates
<1>3. \A x \in Docs : x[1] = w => rows[x].life = "none"
  BY DEF IInv, Rows
<1> QED BY <1>1, <1>2, <1>3

LEMMA CountParts ==
  ASSUME NEW n \in Nat, NEW S \in SUBSET (1 .. n)
  PROVE  Cardinality(S) \in Nat /\ (S = {} => Cardinality(S) = 0)
<1>1. IsFiniteSet(1 .. n)
  BY FS_Interval
<1>2. IsFiniteSet(S)
  BY <1>1, FS_Subset
<1> QED BY <1>2, FS_CardinalityType, FS_EmptySet

LEMMA AppliedParts ==
  ASSUME Calls, NEW w \in Writers, NEW x
  PROVE  /\ Cardinality(Applied(w, x)) \in Nat
         /\ Applied(w, x) = {} => Cardinality(Applied(w, x)) = 0
<1>1. Applied(w, x) \in SUBSET (1 .. Len(batch[w]))
  BY DEF Applied, Positions
<1> HIDE DEF Applied
<1> QED BY <1>1, CountParts, PositionParts

LEMMA FoldedParts ==
  ASSUME NEW w \in Writers, IInv, call[w].pc = "commit", NEW i \in Positions(w)
  PROVE  Folded(w, i) \subseteq Docs /\ Citations(w, i) \subseteq Docs
<1>1. ASSUME NEW j \in Positions(w) PROVE Folded(w, j) \subseteq Docs
  <2>1. \A k \in Positions(w) : <<w, k>> \in Docs
    BY PositionParts DEF IInv
  <2>2. Replaces(w, j) => call[w].read[j].cites \subseteq Docs
    BY CommitReads DEF RowType
  <2> QED BY <2>1, <2>2 DEF Folded
<1>2. Rerouted(w, i) \subseteq Positions(w)
  BY DEF Rerouted
<1> QED BY <1>1, <1>2 DEF Citations

LEMMA StartCountParts ==
  ASSUME NEW w \in Writers, IInv, call[w].pc = "commit", NEW i \in Positions(w)
  PROVE  StartCount(w, i) \in Nat /\ StartCount(w, i) >= 1
<1>1. CASE ~ Replaces(w, i)
  BY <1>1 DEF StartCount
<1>2. CASE Replaces(w, i)
  <2> DEFINE S == {j \in 1 .. i - 1 : (Replaces(w, j) \/ Reinforces(w, j))
                                        /\ Target(w, j) = Target(w, i)}
  <2>1. i - 1 \in Nat
    <3>1. i \in Nat \ {0}
      BY PositionParts DEF IInv
    <3> QED BY <3>1
  <2>2. S \in SUBSET (1 .. i - 1)
    OBVIOUS
  <2>3. StartCount(w, i) = call[w].read[i].times + 1 + Cardinality(S)
    BY <1>2 DEF StartCount
  <2> HIDE DEF S
  <2>4. Cardinality(S) \in Nat
    BY <2>1, <2>2, CountParts
  <2>5. call[w].read[i].times \in Nat
    BY <1>2, CommitReads DEF RowType
  <2> QED BY <2>3, <2>4, <2>5
<1> QED BY <1>1, <1>2

LEMMA InsertedParts ==
  ASSUME NEW w \in Writers, IInv, call[w].pc = "commit", NEW i \in Positions(w)
  PROVE  /\ Inserted(w, i) \in RowType
         /\ Inserted(w, i).life = "live" /\ Inserted(w, i).fact = batch[w][i]
         /\ Inserted(w, i).times >= 1 /\ Inserted(w, i).cites = Citations(w, i)
<1>1. StartCount(w, i) \in Nat /\ StartCount(w, i) >= 1
  BY StartCountParts
<1>2. Citations(w, i) \subseteq Docs
  BY FoldedParts
<1>3. batch[w][i] \in Facts
  BY PositionParts DEF IInv
<1> QED BY <1>1, <1>2, <1>3 DEF Inserted, RowType

LEMMA UpdatedParts ==
  ASSUME NEW w \in Writers, IInv, call[w].pc = "commit", NEW x \in Live
  PROVE  /\ Updated(w, x) \in RowType
         /\ Updated(w, x).life =
              IF \E i \in Positions(w) : Replaces(w, i) /\ Target(w, i) = x
                THEN "deleted" ELSE "live"
         /\ Updated(w, x).fact = rows[x].fact
         /\ Updated(w, x).times = rows[x].times + Cardinality(Applied(w, x))
         /\ Updated(w, x).cites
              = rows[x].cites \cup UNION {Folded(w, i) : i \in Applied(w, x)}
<1> DEFINE r == rows[x]
           l == IF \E i \in Positions(w) : Replaces(w, i) /\ Target(w, i) = x
                  THEN "deleted" ELSE r.life
           t == IF Applied(w, x) = {} THEN r.times ELSE Reinforced(w, x)
           c == r.cites \cup UNION {Folded(w, i) : i \in Applied(w, x)}
<1>1. r \in RowType /\ r.life = "live"
  BY DEF IInv, Rows, Live
<1>2. Updated(w, x) = [r EXCEPT !.life = l, !.times = t, !.cites = c]
  BY DEF Updated
<1>3. t = r.times + Cardinality(Applied(w, x)) /\ t \in Nat
  BY <1>1, AppliedParts DEF Reinforced, IInv, RowType
<1>4. c \subseteq Docs
  <2>1. \A i \in Applied(w, x) : i \in Positions(w)
    BY DEF Applied
  <2> QED BY <1>1, <2>1, FoldedParts DEF RowType
<1>5. l \in {"live", "deleted"}
  BY <1>1
<1>6. [r EXCEPT !.life = l, !.times = t, !.cites = c]
        = [life |-> l, fact |-> r.fact, times |-> t, cites |-> c]
  <2>1. r = [life |-> r.life, fact |-> r.fact, times |-> r.times, cites |-> r.cites]
    BY <1>1 DEF RowType
  <2> HIDE DEF r, l, t, c
  <2> DEFINE s == [life |-> l, fact |-> r.fact, times |-> r.times, cites |-> r.cites]
             q == [life |-> l, fact |-> r.fact, times |-> t, cites |-> r.cites]
  <2>2. [r EXCEPT !.life = l] = s
    BY <2>1
  <2>3. [s EXCEPT !.times = t] = q
    OBVIOUS
  <2>4. [q EXCEPT !.cites = c] = [life |-> l, fact |-> r.fact, times |-> t, cites |-> c]
    OBVIOUS
  <2> QED BY <2>2, <2>3, <2>4
<1>7. r.fact \in Facts \cup {None}
  BY <1>1 DEF RowType
<1> HIDE DEF r, l, t, c
<1>8. /\ Updated(w, x) \in RowType
      /\ Updated(w, x).life = l /\ Updated(w, x).fact = r.fact
      /\ Updated(w, x).times = t /\ Updated(w, x).cites = c
  BY <1>2, <1>3, <1>4, <1>5, <1>6, <1>7 DEF RowType
<1> QED BY <1>1, <1>3, <1>8 DEF r, l, c

\* What the transaction makes of a row.
LEMMA CommitRows ==
  ASSUME NEW w \in Writers, IInv, Commit(w), NEW x \in Ids
  PROVE  /\ \A i \in Positions(w) :
              x = <<w, i>> /\ (Inserts(w, i) \/ FallsBack(w, i)) =>
                x \notin Live /\ rows'[x] = Inserted(w, i)
         /\ x \in Live => rows'[x] = Updated(w, x)
         /\ x \notin Live /\ rows'[x] # rows[x] =>
              \E i \in Positions(w) : x = <<w, i>> /\ (Inserts(w, i) \/ FallsBack(w, i))
<1>1. /\ call[w].pc = "commit"
      /\ rows'[x] = IF \E i \in Positions(w) : x = <<w, i>> /\ (Inserts(w, i) \/ FallsBack(w, i))
                      THEN Inserted(w, x[2])
                    ELSE IF x \in Live THEN Updated(w, x)
                    ELSE rows[x]
  BY DEF Commit
<1>2. \A i \in Positions(w) : x = <<w, i>> => x[2] = i /\ x \notin Live
  <2> SUFFICES ASSUME NEW i \in Positions(w), x = <<w, i>> PROVE x[2] = i /\ x \notin Live
    OBVIOUS
  <2>1. x \in Docs /\ x[1] = w /\ x[2] = i
    BY PositionParts DEF IInv
  <2> QED BY <1>1, <2>1, CommitReads DEF Live
<1> QED BY <1>1, <1>2

LEMMA CommitIsFine ==
  ASSUME NEW w \in Writers, IInv, Commit(w) PROVE IInv'
<1> DEFINE New(x, i) == x = <<w, i>> /\ (Inserts(w, i) \/ FallsBack(w, i))
<1>1. /\ call[w].pc = "commit" /\ UNCHANGED <<batch, before>>
      /\ gains' = [x \in Ids |-> gains[x] + IF x \in Live THEN Cardinality(Applied(w, x)) ELSE 0]
      /\ fallen' = fallen \cup {<<w, i>> : i \in {j \in Positions(w) : FallsBack(w, j)}}
      /\ call' = [call EXCEPT ![w] = [Unread EXCEPT !.pc = "done"]]
  BY DEF Commit
<1>2. \A x \in Ids, i \in Positions(w) : New(x, i) =>
        /\ x \in Docs /\ x[1] = w /\ x[2] = i /\ x \notin Live
        /\ rows[x].life = "none" /\ IsFirst(w, i)
        /\ rows'[x] \in RowType /\ rows'[x].life = "live"
        /\ rows'[x].fact = batch[w][i] /\ rows'[x].times >= 1
  <2> SUFFICES ASSUME NEW x \in Ids, NEW i \in Positions(w), New(x, i)
               PROVE  /\ x \in Docs /\ x[1] = w /\ x[2] = i /\ x \notin Live
                      /\ rows[x].life = "none" /\ IsFirst(w, i)
                      /\ rows'[x] \in RowType /\ rows'[x].life = "live"
                      /\ rows'[x].fact = batch[w][i] /\ rows'[x].times >= 1
    OBVIOUS
  <2>1. x \in Docs /\ x[1] = w /\ x[2] = i
    BY PositionParts DEF IInv
  <2>2. rows'[x] = Inserted(w, i) /\ x \notin Live
    BY CommitRows
  <2>3. rows[x].life = "none"
    BY <1>1, <2>1, CommitReads
  <2>4. IsFirst(w, i)
    BY DEF Inserts, FallsBack, Reinforces
  <2> QED BY <1>1, <2>1, <2>2, <2>3, <2>4, InsertedParts
<1>3. \A x \in Live :
        /\ rows'[x] \in RowType /\ rows'[x].life \in {"live", "deleted"}
        /\ rows'[x].fact = rows[x].fact
        /\ rows'[x].times = rows[x].times + Cardinality(Applied(w, x))
  <2> SUFFICES ASSUME NEW x \in Live
               PROVE  /\ rows'[x] \in RowType /\ rows'[x].life \in {"live", "deleted"}
                      /\ rows'[x].fact = rows[x].fact
                      /\ rows'[x].times = rows[x].times + Cardinality(Applied(w, x))
    OBVIOUS
  <2>1. rows'[x] = Updated(w, x)
    BY CommitRows DEF Live
  <2> QED BY <1>1, <2>1, UpdatedParts
<1>4. \A x \in Ids : x \in Live \/ rows'[x] = rows[x] \/ \E i \in Positions(w) : New(x, i)
  BY CommitRows
<1> HIDE DEF New
<1>5. /\ Calls' /\ call'[w].pc = "done"
      /\ \A v \in Writers \ {w} : call'[v] = call[v]
  <2> DEFINE n == [pc |-> "done", near |-> <<>>, exact |-> <<>>, read |-> <<>>]
  <2>1. [Unread EXCEPT !.pc = "done"] = n
    BY DEF Unread
  <2>2. call' = [v \in Writers |-> IF v = w THEN n ELSE call[v]] /\ batch' = batch
    BY <1>1, <2>1 DEF IInv, Calls
  <2>3. /\ n.pc = "done" /\ n.near = <<>> /\ n.exact = <<>> /\ n.read = <<>>
        /\ n = [pc |-> n.pc, near |-> n.near, exact |-> n.exact, read |-> n.read]
    OBVIOUS
  <2> HIDE DEF n
  <2>4. Calls' /\ call'[w] = n /\ \A v \in Writers \ {w} : call'[v] = call[v]
    BY <2>2, <2>3, CallsFrame DEF IInv
  <2> QED BY <2>3, <2>4
<1>6. \A x \in Docs : x \in Ids /\ x[1] \in Writers
  BY DocParts DEF Ids
<1>7. \A x \in Docs : x[1] # w =>
        /\ rows'[x].fact = rows[x].fact
        /\ rows'[x].life = "live" => rows[x].life = "live"
        /\ rows'[x].life # "none" => rows[x].life # "none"
  BY <1>2, <1>3, <1>4, <1>6 DEF Live
<1>8. \A x \in Docs : x[1] = w /\ rows'[x].life # "none" =>
        /\ x[2] \in Positions(w) /\ IsFirst(w, x[2]) /\ rows'[x].fact = batch[w][x[2]]
        /\ Inserts(w, x[2]) \/ FallsBack(w, x[2])
  <2> SUFFICES ASSUME NEW x \in Docs, x[1] = w, rows'[x].life # "none"
               PROVE  /\ x[2] \in Positions(w) /\ IsFirst(w, x[2])
                      /\ rows'[x].fact = batch[w][x[2]]
                      /\ Inserts(w, x[2]) \/ FallsBack(w, x[2])
    OBVIOUS
  <2>1. rows[x].life = "none" /\ x \notin Live
    BY <1>1, CommitReads DEF Live
  <2>2. PICK i \in Positions(w) : New(x, i)
    BY <1>4, <1>6, <2>1
  <2>3. x[2] = i
    BY <1>2, <1>6, <2>2
  <2>4. Inserts(w, i) \/ FallsBack(w, i)
    BY <2>2 DEF New
  <2> QED BY <1>2, <1>6, <2>2, <2>3, <2>4
<1>9. Rows'
  <2>1. rows' \in [Ids -> RowType]
    <3>1. rows' = [x \in Ids |-> rows'[x]]
      BY DEF Commit
    <3>2. \A x \in Ids : rows'[x] \in RowType
      BY <1>2, <1>3, <1>4 DEF IInv, Rows
    <3> QED BY <3>1, <3>2
  <2>2. ASSUME NEW x \in Docs, rows'[x].life # "none"
        PROVE  /\ call'[x[1]].pc = "done" /\ x[2] \in Positions(x[1])
               /\ IsFirst(x[1], x[2]) /\ rows'[x].fact = batch[x[1]][x[2]]
    <3>1. CASE x[1] = w
      BY <1>5, <1>8, <2>2, <3>1
    <3>2. CASE x[1] # w
      <4>1. rows[x].life # "none" /\ rows'[x].fact = rows[x].fact
        BY <1>7, <2>2, <3>2
      <4> QED BY <1>5, <1>6, <3>2, <4>1 DEF IInv, Rows
    <3> QED BY <3>1, <3>2
  <2>3. ASSUME NEW x \in Ids, rows'[x].life = "live" PROVE rows'[x].fact \in Facts
    <3>1. CASE x \in Live
      BY <1>3, <3>1 DEF IInv, Rows
    <3>2. CASE \E i \in Positions(w) : New(x, i)
      <4>1. PICK i \in Positions(w) : New(x, i)
        BY <3>2
      <4>2. rows'[x].fact = batch[w][i]
        BY <1>2, <4>1
      <4> QED BY <4>2, PositionParts DEF IInv
    <3>3. CASE x \notin Live /\ rows'[x] = rows[x]
      BY <2>3, <3>3 DEF Live
    <3> QED BY <1>4, <3>1, <3>2, <3>3
  <2>4. \A v, i : Positions(v)' = Positions(v) /\ (IsFirst(v, i)' <=> IsFirst(v, i))
    BY <1>1 DEF Positions, IsFirst
  <2> QED BY <1>1, <2>1, <2>2, <2>3, <2>4 DEF Rows, Live
<1>10. History'
  <2>1. {<<w, i>> : i \in {j \in Positions(w) : FallsBack(w, j)}} \subseteq Docs
    BY PositionParts DEF IInv
  <2> QED BY <1>1, <1>5, <2>1 DEF IInv, History
<1>11. Keys'
  <2> DEFINE After(v, f) ==
        \A x \in Docs : x[1] \in before[v] /\ rows'[x].life = "live" => rows'[x].fact # f
  <2>1. ASSUME NEW v \in Writers, NEW f, Clear(v, f) PROVE After(v, f)
    <3> SUFFICES ASSUME NEW x \in Docs, x[1] \in before[v], rows'[x].life = "live"
                 PROVE  rows'[x].fact # f
      OBVIOUS
    <3>1. x[1] # w
      BY <1>1 DEF IInv, History
    <3>2. rows[x].life = "live" /\ rows'[x].fact = rows[x].fact
      BY <1>7, <3>1
    <3> QED BY <2>1, <3>2 DEF Clear
  <2> HIDE DEF After
  <2>2. ASSUME NEW v \in Writers, call'[v].pc = "commit", NEW i \in Positions(v),
               call'[v].exact[i] = None
        PROVE  After(v, batch[v][i])
    <3>1. call[v].pc = "commit" /\ call[v].exact[i] = None
      BY <1>5, <2>2
    <3> QED BY <2>1, <3>1 DEF IInv, Keys
  <2>3. ASSUME NEW x \in Docs, x \notin fallen', rows'[x].life # "none"
        PROVE  After(x[1], rows'[x].fact)
    <3>1. CASE x[1] = w
      <4>1. PICK i \in Positions(w) : i = x[2] /\ rows'[x].fact = batch[w][i]
                                        /\ (Inserts(w, i) \/ FallsBack(w, i))
        BY <1>8, <2>3, <3>1
      <4>2. ~ FallsBack(w, i)
        <5>1. x = <<w, i>>
          BY <3>1, <4>1, DocParts
        <5> QED BY <1>1, <2>3, <5>1
      <4>3. call[w].exact[i] = None
        BY <4>1, <4>2 DEF Inserts, Replaces, Target
      <4>4. Clear(w, batch[w][i])
        BY <1>1, <4>3 DEF IInv, Keys
      <4> QED BY <2>1, <3>1, <4>1, <4>4
    <3>2. CASE x[1] # w
      <4>1. rows[x].life # "none" /\ rows'[x].fact = rows[x].fact /\ x \notin fallen
        BY <1>1, <1>7, <2>3, <3>2
      <4>2. Clear(x[1], rows[x].fact)
        BY <4>1 DEF IInv, Keys
      <4> QED BY <1>6, <2>1, <4>1, <4>2
    <3> QED BY <3>1, <3>2
  <2>4. \A v : Positions(v)' = Positions(v)
    BY <1>1 DEF Positions
  <2> QED BY <1>1, <2>2, <2>3, <2>4 DEF Keys, Clear, After
<1>12. Counts'
  <2>1. ASSUME NEW x \in Ids
        PROVE  /\ gains'[x] = gains[x] + IF x \in Live THEN Cardinality(Applied(w, x)) ELSE 0
               /\ gains[x] \in Nat /\ gains'[x] \in Nat
               /\ Cardinality(Applied(w, x)) \in Nat
    BY <1>1, AppliedParts DEF IInv, Counts
  <2>2. gains' \in [Ids -> Nat]
    BY <1>1, <2>1
  <2>3. ASSUME NEW x \in Ids, rows'[x].life = "none" PROVE gains'[x] = 0
    <3>1. x \notin Live /\ rows'[x] = rows[x]
      BY <1>2, <1>3, <1>4, <2>3
    <3> QED BY <2>1, <2>3, <3>1 DEF IInv, Counts
  <2>4. ASSUME NEW x \in Ids, rows'[x].life = "live" PROVE rows'[x].times >= 1 + gains'[x]
    <3>1. CASE x \in Live
      <4>1. rows[x].times \in Nat /\ rows[x].times >= 1 + gains[x]
        BY <3>1 DEF IInv, Counts, Rows, RowType
      <4> QED BY <1>3, <2>1, <3>1, <4>1
    <3>2. CASE x \notin Live
      <4>1. PICK i \in Positions(w) : New(x, i)
        BY <1>4, <2>4, <3>2 DEF Live
      <4>2. rows[x].life = "none" /\ rows'[x].times >= 1
        BY <1>2, <4>1
      <4>3. gains'[x] = 0
        BY <2>1, <3>2, <4>2 DEF IInv, Counts
      <4> QED BY <4>2, <4>3
    <3> QED BY <3>1, <3>2
  <2> QED BY <2>2, <2>3, <2>4 DEF Counts, Live
<1> QED BY <1>5, <1>9, <1>10, <1>11, <1>12 DEF IInv

LEMMA InitIsFine ==
  ASSUME Init PROVE IInv
<1>1. /\ batch \in [Writers -> Batches]
      /\ rows = [x \in Ids |-> [life |-> "none", fact |-> None, times |-> 0, cites |-> {}]]
      /\ call = [w \in Writers |-> Unread]
      /\ before = [w \in Writers |-> {}]
      /\ gains = [x \in Ids |-> 0]
      /\ fallen = {}
  BY DEF Init
<1>2. Calls
  <2>1. \A w \in Writers : call[w] = Unread
    BY <1>1
  <2> QED BY <1>1, <2>1 DEF Calls, Unread
<1>3. \A x \in Ids : rows[x].life = "none"
  BY <1>1
<1>4. Rows
  <2>1. rows \in [Ids -> RowType]
    BY <1>1 DEF RowType
  <2> QED BY <1>3, <2>1 DEF Rows, Live, Ids
<1>5. History
  BY <1>1 DEF History
<1>6. Keys
  BY <1>1, <1>3 DEF Keys, Unread, Ids
<1>7. Counts
  BY <1>1, <1>3 DEF Counts, Live
<1> QED BY <1>2, <1>4, <1>5, <1>6, <1>7 DEF IInv

LEMMA NextIsFine ==
  ASSUME IInv, [Next]_vars PROVE IInv'
<1>1. CASE UNCHANGED vars
  BY <1>1, ZenonT(60) DEF vars, IInv, Calls, Rows, History, Keys, Counts, Candidates, Positions,
              Clear, Live, IsFirst
<1>2. ASSUME NEW w \in Writers, Step(w) PROVE IInv'
  BY <1>2, ResolveIsFine, MatchIsFine, CommitIsFine DEF Step
<1>3. ASSUME NEW x \in Ids, CreateObservation(x) \/ DeleteDocument(x) PROVE IInv'
  BY <1>3, CreateIsFine, DeleteIsFine
<1> QED BY <1>1, <1>2, <1>3 DEF Next

LEMMA Inductive == Spec => []IInv
<1>1. Init => IInv
  BY InitIsFine
<1>2. IInv /\ [Next]_vars => IInv'
  BY NextIsFine
<1> QED BY <1>1, <1>2, PTL DEF Spec

-----------------------------------------------------------------------------
(* The types, one document per key, and the derivation count. *)

LEMMA EmptyFunction ==
  ASSUME NEW S PROVE <<>> \in [DOMAIN <<>> -> S]
OBVIOUS

LEMMA IInvTypes ==
  ASSUME IInv PROVE TypeOK
<1>1. \A x \in Live : rows[x].times > 0 /\ Fact(x) # None
  <2> SUFFICES ASSUME NEW x \in Live PROVE rows[x].times > 0 /\ rows[x].fact # None
    BY DEF Fact
  <2>1. x \in Ids /\ rows[x].times \in Nat /\ gains[x] \in Nat /\ rows[x].times >= 1 + gains[x]
    BY DEF IInv, Rows, Counts, Live, RowType
  <2>2. rows[x].fact # None
    BY NoneIsNew DEF IInv, Rows
  <2> QED BY <2>1, <2>2
<1>2. ASSUME NEW w \in Writers
      PROVE  /\ call[w].near \in [DOMAIN call[w].near -> Ids \cup {None}]
             /\ call[w].exact \in [DOMAIN call[w].exact -> Ids \cup {None}]
             /\ call[w].read \in [DOMAIN call[w].read -> RowType]
  <2>1. CASE call[w].pc \in {"resolve", "done"}
    BY <2>1, EmptyFunction DEF IInv, Calls
  <2>2. CASE call[w].pc = "match"
    BY <2>2, EmptyFunction DEF IInv, Calls
  <2>3. CASE call[w].pc = "commit"
    BY <2>3 DEF IInv, Calls
  <2> QED BY <2>1, <2>2, <2>3 DEF IInv, Calls
<1> QED BY <1>1, <1>2 DEF TypeOK, IInv, Calls, Rows, History, Counts

\* The variables have their types, at every length of batch.
THEOREM TypeOKHolds == Spec => []TypeOK
<1>1. IInv => TypeOK
  BY IInvTypes
<1> QED BY <1>1, Inductive, PTL

LEMMA IInvOnePerKey ==
  ASSUME IInv PROVE OnePerKey
<1> SUFFICES ASSUME NEW x \in (Live \cap Docs) \ fallen, NEW y \in (Live \cap Docs) \ fallen,
                    x # y, Fact(x) = Fact(y)
             PROVE  x[1] # y[1] /\ x[1] \notin before[y[1]] /\ y[1] \notin before[x[1]]
  BY DEF OnePerKey
<1>1. \A z \in {x, y} : /\ z \in Docs \ fallen /\ rows[z].life = "live"
                        /\ z[1] \in Writers /\ z[2] \in Nat \ {0} /\ z = <<z[1], z[2]>>
                        /\ IsFirst(z[1], z[2]) /\ rows[z].fact = batch[z[1]][z[2]]
  BY DocParts DEF IInv, Rows, Live
<1>2. x[1] # y[1]
  <2> SUFFICES ASSUME x[1] = y[1] PROVE FALSE
    OBVIOUS
  <2> DEFINE w == x[1]  i == x[2]  j == y[2]
  <2>1. /\ i \in Nat \ {0} /\ j \in Nat \ {0} /\ i # j
        /\ IsFirst(w, i) /\ IsFirst(w, j) /\ batch[w][i] = batch[w][j]
    BY <1>1 DEF Fact
  <2> HIDE DEF w, i, j
  <2>2. i < j \/ j < i
    BY <2>1
  <2>3. CASE i < j
    BY <2>1, <2>3 DEF IsFirst
  <2>4. CASE j < i
    BY <2>1, <2>4 DEF IsFirst
  <2> QED BY <2>2, <2>3, <2>4
<1>3. Clear(x[1], rows[x].fact) /\ Clear(y[1], rows[y].fact)
  BY <1>1 DEF IInv, Keys
<1> QED BY <1>1, <1>2, <1>3 DEF Clear, Fact

\* Whatever the calls read and whenever they commit, two live documents of one key
\* come from calls that overlapped, and never from one batch.
THEOREM OnePerKeyHolds == Spec => []OnePerKey
<1>1. IInv => OnePerKey
  BY IInvOnePerKey
<1> QED BY <1>1, Inductive, PTL

\* No reinforcement is lost, for any number of concurrent calls: the count is
\* computed from the locked row, not from the row as it was read.
THEOREM DerivationsCountHolds == Spec => []DerivationsCount
<1>1. IInv => DerivationsCount
  BY DEF IInv, Counts, DerivationsCount
<1> QED BY <1>1, Inductive, PTL

-----------------------------------------------------------------------------
(* The citations of a transaction. *)

LEMMA LeastPosition ==
  ASSUME NEW S \in SUBSET Nat, S # {}
  PROVE  \E i \in S : \A j \in S : i <= j
<1>1. PICK i \in S : \A j \in S : ~ (<<j, i>> \in OpToRel(<, Nat))
  BY NatLessThanWellFounded, WFMin
<1>2. \A j \in S : ~ (j < i)
  BY <1>1 DEF OpToRel
<1> QED BY <1>2

\* Every document of a batch is folded into the first one of its key.
LEMMA FirstExists ==
  ASSUME NEW w \in Writers, IInv, NEW i \in Positions(w)
  PROVE  \E k \in Positions(w) : IsFirst(w, k) /\ <<w, i>> \in Folded(w, k)
<1> DEFINE S == {j \in Positions(w) : batch[w][j] = batch[w][i]}
<1>1. S \in SUBSET Nat /\ S # {}
  BY DEF Positions
<1>2. PICK k \in S : \A j \in S : k <= j
  <2> HIDE DEF S
  <2> QED BY <1>1, LeastPosition
<1>3. k \in Positions(w) /\ k \in Nat /\ batch[w][k] = batch[w][i]
  BY <1>1
<1>4. IsFirst(w, k)
  <2> SUFFICES ASSUME NEW j \in 1 .. k - 1, batch[w][j] = batch[w][k] PROVE FALSE
    BY DEF IsFirst
  <2>1. j \in Positions(w) /\ j < k
    BY <1>3, PositionParts DEF IInv, Positions
  <2> QED BY <1>2, <1>3, <2>1
<1>5. <<w, i>> \in Folded(w, k)
  BY <1>3 DEF Folded
<1> QED BY <1>3, <1>4, <1>5

\* What a document that is inserted cites is cited afterwards.
LEMMA InsertedIsCited ==
  ASSUME NEW w \in Writers, IInv, Commit(w), NEW i \in Positions(w),
         Inserts(w, i) \/ FallsBack(w, i)
  PROVE  Citations(w, i) \subseteq Cited'
<1>1. PICK x \in Docs : x = <<w, i>>
  BY PositionParts DEF IInv
<1>2. x \in Ids /\ call[w].pc = "commit"
  BY DEF Ids, Commit
<1>3. rows'[x] = Inserted(w, i)
  BY <1>1, <1>2, CommitRows
<1>4. rows'[x].life = "live" /\ rows'[x].cites = Citations(w, i)
  BY <1>2, <1>3, InsertedParts
<1> QED BY <1>2, <1>4 DEF Cited, Live

\* A row that no document of the batch replaces keeps its citations, and gets those
\* of the documents that reinforce it.
LEMMA UpdatedIsCited ==
  ASSUME NEW w \in Writers, IInv, Commit(w), NEW x \in Live,
         \A j \in Positions(w) : ~ (Replaces(w, j) /\ Target(w, j) = x)
  PROVE  /\ rows[x].cites \subseteq Cited'
         /\ \A i \in Applied(w, x) : Folded(w, i) \subseteq Cited'
<1>1. x \in Ids /\ call[w].pc = "commit"
  BY DEF Live, Commit
<1>2. rows'[x] = Updated(w, x)
  BY <1>1, CommitRows
<1>3. rows'[x].life = "live"
  BY <1>1, <1>2, UpdatedParts
<1>4. rows'[x].cites = rows[x].cites \cup UNION {Folded(w, i) : i \in Applied(w, x)}
  BY <1>1, <1>2, UpdatedParts
<1>5. rows'[x].cites \subseteq Cited'
  BY <1>1, <1>3 DEF Cited, Live
<1> QED BY <1>4, <1>5

\* The first document of the batch that replaces x takes over the citations of
\* every document that reinforces x.
LEMMA ReroutedIsCited ==
  ASSUME NEW w \in Writers, IInv, Commit(w), NEW x,
         \E j \in Positions(w) : Replaces(w, j) /\ Target(w, j) = x
  PROVE  \A i \in Positions(w) :
           Reinforces(w, i) /\ Target(w, i) = x => Folded(w, i) \subseteq Cited'
<1> DEFINE S == {j \in Positions(w) : Replaces(w, j) /\ Target(w, j) = x}
<1>1. S \in SUBSET Nat /\ S # {}
  BY DEF Positions
<1>2. PICK k \in S : \A j \in S : k <= j
  <2> HIDE DEF S
  <2> QED BY <1>1, LeastPosition
<1>3. k \in Positions(w) /\ k \in Nat /\ Replaces(w, k) /\ Target(w, k) = x
  BY <1>1
<1>4. \A j \in 1 .. k - 1 : ~ (Replaces(w, j) /\ Target(w, j) = x)
  <2> SUFFICES ASSUME NEW j \in 1 .. k - 1, Replaces(w, j), Target(w, j) = x PROVE FALSE
    OBVIOUS
  <2>1. j \in Positions(w) /\ j < k
    BY <1>3, PositionParts DEF IInv, Positions
  <2> QED BY <1>2, <2>1
<1>5. Citations(w, k) \subseteq Cited'
  <2>1. Inserts(w, k)
    BY <1>3 DEF Inserts, Replaces
  <2> QED BY <1>3, <2>1, InsertedIsCited
<1> SUFFICES ASSUME NEW i \in Positions(w), Reinforces(w, i), Target(w, i) = x
             PROVE  Folded(w, i) \subseteq Cited'
  OBVIOUS
<1>6. i \in Rerouted(w, k)
  BY <1>3, <1>4 DEF Rerouted
<1> QED BY <1>5, <1>6 DEF Citations

LEMMA CommitKeepsCitations ==
  ASSUME NEW w \in Writers, IInv, Commit(w), FreshlyRead(w)
  PROVE  Cited \cup {<<w, i>> : i \in Positions(w)} \subseteq Cited'
<1>1. ASSUME NEW k \in Positions(w), IsFirst(w, k) PROVE Folded(w, k) \subseteq Cited'
  <2>1. CASE Inserts(w, k) \/ FallsBack(w, k)
    BY <2>1, InsertedIsCited DEF Citations
  <2>2. CASE Reinforces(w, k) /\ ~ Stale(w, k)
    <3> DEFINE x == Target(w, k)
    <3>1. x \in Live
      BY <2>2 DEF Stale
    <3>2. CASE \E j \in Positions(w) : Replaces(w, j) /\ Target(w, j) = x
      BY <2>2, <3>2, ReroutedIsCited
    <3>3. CASE \A j \in Positions(w) : ~ (Replaces(w, j) /\ Target(w, j) = x)
      <4>1. \A j \in 1 .. k - 1 : j \in Positions(w)
        BY PositionParts DEF IInv, Positions
      <4>2. k \in Applied(w, x)
        BY <2>2, <3>3, <4>1 DEF Applied
      <4> HIDE DEF x
      <4> QED BY <3>1, <3>3, <4>2, UpdatedIsCited
    <3> QED BY <3>2, <3>3
  <2> QED BY <1>1, <2>1, <2>2 DEF Inserts, FallsBack, Reinforces
<1>2. ASSUME NEW i \in Positions(w) PROVE <<w, i>> \in Cited'
  BY <1>1, FirstExists
<1>3. ASSUME NEW x \in Live PROVE rows[x].cites \subseteq Cited'
  <2>1. CASE \A j \in Positions(w) : ~ (Replaces(w, j) /\ Target(w, j) = x)
    BY <2>1, UpdatedIsCited
  <2>2. ASSUME NEW j \in Positions(w), Replaces(w, j), Target(w, j) = x
        PROVE  rows[x].cites \subseteq Cited'
    <3>1. rows[x].cites \subseteq Folded(w, j)
      BY <2>2 DEF FreshlyRead, Folded
    <3>2. Inserts(w, j)
      BY <2>2 DEF Inserts, Replaces
    <3> QED BY <3>1, <3>2, InsertedIsCited DEF Citations
  <2> QED BY <2>1, <2>2
<1> QED BY <1>2, <1>3 DEF Cited

\* Only its transaction takes a call from commit to done.
LEMMA OnlyCommitEnds ==
  ASSUME IInv, [Next]_vars, NEW w \in Writers, call[w].pc = "commit", call'[w].pc = "done"
  PROVE  Commit(w)
<1>1. call' # call
  BY Zenon
<1>2. PICK v \in Writers : Step(v)
  BY <1>1 DEF Next, vars, CreateObservation, DeleteDocument
<1>3. CASE Resolve(v)
  <2>1. call[v].pc = "resolve" /\ \E c : call' = [call EXCEPT ![v] = c]
    BY <1>3 DEF Resolve
  <2> QED BY <2>1 DEF IInv, Calls
<1>4. CASE Match(v)
  <2>1. call[v].pc = "match" /\ \E c : call' = [call EXCEPT ![v] = c]
    BY <1>4 DEF Match
  <2> QED BY <2>1 DEF IInv, Calls
<1>5. CASE Commit(v)
  <2>1. \E c : call' = [call EXCEPT ![v] = c]
    BY <1>5 DEF Commit
  <2>2. v = w
    BY <2>1 DEF IInv, Calls
  <2> QED BY <1>5, <2>2
<1> QED BY <1>2, <1>3, <1>4, <1>5 DEF Step

\* The transaction of a call loses no citation, of its own documents or of the rows
\* it reinforces and replaces, unless a row it replaces was reinforced after the
\* call read it.
THEOREM KeepsCitationsHolds == Spec => KeepsCitations
<1>1. IInv /\ [Next]_vars =>
        [\A w \in Writers : call[w].pc = "commit" /\ call'[w].pc = "done" /\ FreshlyRead(w) =>
           Cited \cup {<<w, i>> : i \in Positions(w)} \subseteq Cited']_vars
  BY OnlyCommitEnds, CommitKeepsCitations
<1> QED BY <1>1, Inductive, PTL DEF Spec, KeepsCitations
=====================================================================
