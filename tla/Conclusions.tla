----------------------------- MODULE Conclusions -----------------------------
(***************************************************************************)
(* Concurrent calls of create_documents (crud/document.py) on one          *)
(* collection, with the deletion and the manual creation of conclusions.   *)
(*                                                                         *)
(* A fact stands for a deduplication key: normalised content, level, and   *)
(* the session of an explicit conclusion.  Near facts are within the       *)
(* distance and the scope of a semantic duplicate.  Every document of a    *)
(* batch cites one message of its own, named like the document.  What      *)
(* create_documents reads is read in two statements, and its row updates   *)
(* and inserts are one transaction that first locks the rows it updates.   *)
(***************************************************************************)
EXTENDS Naturals, FiniteSets, Sequences

CONSTANTS
  Writers,   \* calls of create_documents
  Manual,    \* conclusions a user creates by hand
  Facts,
  Near,      \* pairs of facts that are near duplicates
  Richer,    \* pairs <<f, g>>: an incoming f replaces a near g
  Batches,   \* the facts of a call's documents, in order
  None       \* no row, no fact

ASSUME ConclusionsAssumption ==
  /\ Near \subseteq Facts \X Facts /\ Richer \subseteq Near
  /\ \A f, g \in Facts : <<f, g>> \in Near => f # g /\ <<g, f>> \in Near
  /\ Batches \subseteq Seq(Facts)

\* A document is named by its call and its place in the batch.
Docs == UNION {{<<w, i>> : i \in 1 .. Len(b)} : w \in Writers, b \in Batches}
Ids == Docs \cup Manual

ASSUME NoneIsNew == None \notin Ids \cup Facts /\ Manual \cap Docs = {}

VARIABLES
  batch,   \* the documents of each call
  rows,    \* the documents table
  call,    \* control point and reads of each call
  before,  \* history: calls that had committed when a call read its exact matches
  gains,   \* history: derivations that reinforced each row
  fallen   \* history: rows inserted because the row to reinforce was gone

vars == <<batch, rows, call, before, gains, fallen>>

Live == {x \in Ids : rows[x].life = "live"}
Fact(x) == rows[x].fact
LiveWith(f) == {x \in Live : Fact(x) = f}

Positions(w) == 1 .. Len(batch[w])

Unread == [pc |-> "resolve", near |-> <<>>, exact |-> <<>>, read |-> <<>>]

-----------------------------------------------------------------------------
(* The reads: semantic candidates, then exact matches. *)

\* The candidate of a document is a near live row, if the vector store finds
\* one.  The row is kept as it was read.
Resolve(w) ==
  /\ call[w].pc = "resolve"
  /\ \E near \in [Positions(w) -> Ids \cup {None}] :
       /\ \A i \in Positions(w) :
            near[i] # None => near[i] \in Live /\ <<batch[w][i], Fact(near[i])>> \in Near
       /\ call' = [call EXCEPT ![w] = [Unread EXCEPT !.pc = "match", !.near = near,
                           !.read = [i \in {j \in Positions(w) : near[j] # None} |-> rows[near[i]]]]]
  /\ UNCHANGED <<batch, rows, before, gains, fallen>>

\* Any one of several live rows with a document's key may be the one kept.
Match(w) ==
  /\ call[w].pc = "match"
  /\ \E exact \in [Positions(w) -> Ids \cup {None}] :
       /\ \A i \in Positions(w) :
            IF LiveWith(batch[w][i]) = {} THEN exact[i] = None ELSE exact[i] \in LiveWith(batch[w][i])
       /\ call' = [call EXCEPT ![w].pc = "commit", ![w].exact = exact]
  /\ before' = [before EXCEPT ![w] = {v \in Writers : call[v].pc = "done"}]
  /\ UNCHANGED <<batch, rows, gains, fallen>>

-----------------------------------------------------------------------------
(* The decisions of the loop, from what was read. *)

\* Mutant: a duplicate within the batch is not noticed.
IsFirst_Always(w, i) == TRUE
\* The first document of its key in the batch.
IsFirst(w, i) == \A j \in 1 .. i - 1 : batch[w][j] # batch[w][i]

\* What is done with the first document of a key, and to which row.
Target(w, i) == IF call[w].exact[i] # None THEN call[w].exact[i] ELSE call[w].near[i]

Replaces(w, i) ==
  /\ IsFirst(w, i) /\ call[w].exact[i] = None /\ call[w].near[i] # None
  /\ <<batch[w][i], call[w].read[i].fact>> \in Richer

Reinforces(w, i) == IsFirst(w, i) /\ Target(w, i) # None /\ ~ Replaces(w, i)
Inserts(w, i) == IsFirst(w, i) /\ (Target(w, i) = None \/ Replaces(w, i))

\* Duplicates in the batch fold their citations into the first document, and a
\* replacement takes over those of the row it replaces.
Folded(w, i) ==
  {<<w, j>> : j \in {k \in Positions(w) : batch[w][k] = batch[w][i]}}
    \cup (IF Replaces(w, i) THEN call[w].read[i].cites ELSE {})

\* The documents of the batch that reinforce a row another one replaces first.
Rerouted_None(w, i) == {}
Rerouted(w, i) ==
  {j \in Positions(w) :
     /\ Replaces(w, i) /\ \A k \in 1 .. i - 1 : ~ (Replaces(w, k) /\ Target(w, k) = Target(w, i))
     /\ Reinforces(w, j) /\ Target(w, j) = Target(w, i)}

Citations(w, i) == Folded(w, i) \cup UNION {Folded(w, j) : j \in Rerouted(w, i)}

\* The derivation count a new row starts with.
StartCount(w, i) ==
  IF ~ Replaces(w, i) THEN 1
  ELSE call[w].read[i].times + 1
       + Cardinality({j \in 1 .. i - 1 : (Replaces(w, j) \/ Reinforces(w, j))
                                          /\ Target(w, j) = Target(w, i)})

-----------------------------------------------------------------------------
(* _apply_document_row_updates and the inserts, in one transaction. *)

Stale(w, i) == Target(w, i) \notin Live

FallsBack(w, i) == Reinforces(w, i) /\ Stale(w, i)

\* Reinforcements of x that find it live: none that follow its replacement.
Applied(w, x) ==
  {i \in Positions(w) :
     /\ Reinforces(w, i) /\ Target(w, i) = x /\ ~ Stale(w, i)
     /\ \A j \in 1 .. i - 1 : ~ (Replaces(w, j) /\ Target(w, j) = x)}

\* Mutant: the count is computed from the row as it was read.
Reinforced_Stale(w, x) ==
  1 + (IF \E i \in DOMAIN call[w].read : call[w].near[i] = x
         THEN call[w].read[CHOOSE i \in DOMAIN call[w].read : call[w].near[i] = x].times
         ELSE rows[x].times)
Reinforced(w, x) == rows[x].times + Cardinality(Applied(w, x))

Updated(w, x) ==
  [rows[x] EXCEPT
     !.life  = IF \E i \in Positions(w) : Replaces(w, i) /\ Target(w, i) = x THEN "deleted" ELSE @,
     !.times = IF Applied(w, x) = {} THEN @ ELSE Reinforced(w, x),
     !.cites = @ \cup UNION {Folded(w, i) : i \in Applied(w, x)}]

Inserted(w, i) ==
  [life |-> "live", fact |-> batch[w][i], times |-> StartCount(w, i), cites |-> Citations(w, i)]

Commit(w) ==
  /\ call[w].pc = "commit"
  /\ rows' = [x \in Ids |->
       IF \E i \in Positions(w) : x = <<w, i>> /\ (Inserts(w, i) \/ FallsBack(w, i))
         THEN Inserted(w, x[2])
       ELSE IF x \in Live THEN Updated(w, x)
       ELSE rows[x]]
  /\ gains' = [x \in Ids |-> gains[x] + IF x \in Live THEN Cardinality(Applied(w, x)) ELSE 0]
  /\ fallen' = fallen \cup {<<w, i>> : i \in {j \in Positions(w) : FallsBack(w, j)}}
  /\ call' = [call EXCEPT ![w] = [Unread EXCEPT !.pc = "done"]]
  /\ UNCHANGED <<batch, before>>

-----------------------------------------------------------------------------
\* create_observations: no deduplication, and no citations.
CreateObservation(x) ==
  /\ x \in Manual /\ rows[x].life = "none"
  /\ \E f \in Facts : rows' = [rows EXCEPT ![x].life = "live", ![x].fact = f, ![x].times = 1]
  /\ UNCHANGED <<batch, call, before, gains, fallen>>

DeleteDocument(x) ==
  /\ x \in Live
  /\ rows' = [rows EXCEPT ![x].life = "deleted"]
  /\ UNCHANGED <<batch, call, before, gains, fallen>>

Init ==
  /\ batch \in [Writers -> Batches]
  /\ rows = [x \in Ids |-> [life |-> "none", fact |-> None, times |-> 0, cites |-> {}]]
  /\ call = [w \in Writers |-> Unread]
  /\ before = [w \in Writers |-> {}]
  /\ gains = [x \in Ids |-> 0]
  /\ fallen = {}

Step(w) == Resolve(w) \/ Match(w) \/ Commit(w)

Next ==
  \/ \E w \in Writers : Step(w)
  \/ \E x \in Ids : CreateObservation(x) \/ DeleteDocument(x)

Spec == Init /\ [][Next]_vars

-----------------------------------------------------------------------------
RowType == [life : {"none", "live", "deleted"}, fact : Facts \cup {None},
            times : Nat, cites : SUBSET Docs]

TypeOK ==
  /\ batch \in [Writers -> Batches]
  /\ rows \in [Ids -> RowType]
  /\ \A x \in Live : rows[x].times > 0 /\ Fact(x) # None
  /\ \A w \in Writers :
       /\ call[w].pc \in {"resolve", "match", "commit", "done"}
       /\ call[w].near \in [DOMAIN call[w].near -> Ids \cup {None}]
       /\ call[w].exact \in [DOMAIN call[w].exact -> Ids \cup {None}]
       /\ call[w].read \in [DOMAIN call[w].read -> RowType]
  /\ before \in [Writers -> SUBSET Writers]
  /\ gains \in [Ids -> Nat]
  /\ fallen \subseteq Docs

\* Two live conclusions with the same key come from calls that overlapped:
\* neither had committed when the other looked for exact matches (the table has
\* no unique key; "Exact-match dedup, always on", create_documents).  A fallback
\* is inserted without another look, and may double a row.
OnePerKey ==
  \A v, w \in Writers : \A x, y \in (Live \cap Docs) \ fallen :
    x[1] = v /\ y[1] = w /\ x # y /\ Fact(x) = Fact(y) =>
      v # w /\ v \notin before[w] /\ w \notin before[v]

\* A derivation that reinforced a row is in its count, however many calls
\* reinforced it at the same time, and whatever they had read.
DerivationsCount ==
  \A x \in Live : rows[x].times >= 1 + gains[x]

Cited == UNION {rows[x].cites : x \in Live}

\* The rows that call w replaces are still as w read them.
FreshlyRead(w) ==
  \A i \in Positions(w) : Replaces(w, i) => rows[Target(w, i)].cites = call[w].read[i].cites

\* A call loses no citation: what live conclusions cited and what its batch
\* cites, duplicates and rejected documents included, is cited by live
\* conclusions afterwards, even if a row it meant to reinforce is gone; as long
\* as the rows that it replaces were not reinforced since it read them.
KeepsCitations ==
  [][\A w \in Writers : call[w].pc = "commit" /\ call'[w].pc = "done" /\ FreshlyRead(w) =>
       Cited \cup {<<w, i>> : i \in Positions(w)} \subseteq Cited']_vars

\* The same without the exception: "The replacement inherits the replaced row's
\* citations" (create_documents).
ReplacementInherits ==
  [][\A w \in Writers : call[w].pc = "commit" /\ call'[w].pc = "done" =>
       Cited \cup {<<w, i>> : i \in Positions(w)} \subseteq Cited']_vars
=============================================================================
