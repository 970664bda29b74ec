--------------------------- MODULE ToolLoop_proofs ---------------------------
(***************************************************************************)
(* Theorems about the tool loop, for every window, size and budget.        *)
(*                                                                         *)
(* AnswersAreEarned: while a tool is forced and none has recalled, every   *)
(* accepted response has cost a round and was pressed for, and no more     *)
(* rounds were counted as forced; once the choice is relaxed without a     *)
(* recall, the model was pressed as often as the loop may (IInv).          *)
(*                                                                         *)
(* RequestsAreWhole and PrefixKept: a truncated conversation is its first  *)
(* message and some of its units, in order, with the opening unit the only *)
(* one of those held back that may be missing (TruncatedIs); a unit holds  *)
(* a call with its results, and thinking that is not stale follows what it *)
(* was produced under (CInv).                                              *)
(*                                                                         *)
(* RequestsFit: what truncation leaves either fits or is a part of what is *)
(* held back, with results clipped to the floor (TruncatedFits), and the   *)
(* first messages of its units were first messages before (HeadsAreTaken). *)
(* Sums of sizes are compared at their least counterexample (Fitting).     *)
(*                                                                         *)
(* RunsAreBounded: the steps a run may still take are a natural number     *)
(* that every step lessens. Rounds count PerRound steps each, and a step   *)
(* either goes on in its round or leaves it for the next one (Bounded).    *)
(***************************************************************************)
EXTENDS ToolLoop, TLAPS, FiniteSetTheorems, SequenceTheorems

-----------------------------------------------------------------------------
(* Answers are earned. *)

Counters ==
  /\ round \in Nat /\ forced \in Nat /\ pressed \in Nat
  /\ forcing \in BOOLEAN
  /\ round <= MaxRounds

Pressing ==
  pc \in {"prepare", "send", "handle"} /\ setup.choice = "gated" /\ ~ recalled =>
    \/ forcing /\ pressed = round /\ forced <= pressed
    \/ ~ forcing /\ MaxForced <= pressed

IInv == Counters /\ Pressing /\ AnswersAreEarned

LEMMA MinOfTwo ==
  ASSUME NEW m \in Nat, NEW n \in Nat
  PROVE  Min({m, n}) \in Nat /\ Min({m, n}) <= m /\ Min({m, n}) <= n
<1>1. \E x \in {m, n} : \A y \in {m, n} : x <= y
  <2>1. CASE m <= n
    BY <2>1
  <2>2. CASE ~ (m <= n)
    BY <2>2
  <2> QED BY <2>1, <2>2
<1> QED BY <1>1 DEF Min

LEMMA InitIsFine == Init => IInv
<1> SUFFICES ASSUME Init PROVE IInv
  OBVIOUS
<1>1. /\ pc = "prepare" /\ round = 0 /\ forced = 0 /\ pressed = 0
      /\ forcing = (setup.choice # "auto")
  BY DEF Init
<1>2. Counters
  BY <1>1, ToolLoopAssumption DEF Counters, ToolLoopAssumption
<1>3. Pressing
  <2>1. setup.choice = "gated" => forcing
    BY <1>1
  <2> QED BY <1>1, <2>1 DEF Pressing
<1>4. AnswersAreEarned
  BY <1>1 DEF AnswersAreEarned
<1> QED BY <1>2, <1>3, <1>4 DEF IInv

\* Steps that leave the counters alone and do not end the run with an answer.
LEMMA Aside ==
  ASSUME IInv, UNCHANGED <<setup, round, forcing, forced, recalled, pressed>>,
         pc \in {"prepare", "send", "handle"},
         pc' \in {"prepare", "send", "handle", "failed"}
  PROVE  IInv'
BY DEF IInv, Counters, Pressing, AnswersAreEarned

LEMMA GateNudgeIsFine == IInv /\ GateNudge => IInv'
<1> SUFFICES ASSUME IInv, GateNudge PROVE IInv'
  OBVIOUS
<1> USE ToolLoopAssumption DEF ToolLoopAssumption
<1>1. /\ forcing /\ pc = "handle" /\ round < MaxRounds - 1
      /\ round' = round + 1 /\ forced' = forced + 1 /\ forcing' = forcing
      /\ pc' = "prepare" /\ setup' = setup /\ recalled' = recalled
  BY DEF GateNudge, GateNudgeDue, NextRound
<1>2. pressed' = pressed + 1
  BY <1>1 DEF GateNudge, Press
<1>3. Counters'
  BY <1>1, <1>2 DEF IInv, Counters
<1>4. Pressing'
  BY <1>1, <1>2 DEF IInv, Counters, Pressing
<1>5. AnswersAreEarned'
  BY <1>1 DEF AnswersAreEarned
<1> QED BY <1>3, <1>4, <1>5 DEF IInv

LEMMA EmptyNudgeIsFine == IInv /\ EmptyNudge => IInv'
<1> SUFFICES ASSUME IInv, EmptyNudge PROVE IInv'
  OBVIOUS
<1> USE ToolLoopAssumption DEF ToolLoopAssumption
<1>1. /\ pc = "handle" /\ round < MaxRounds - 1
      /\ round' = round + 1 /\ forced' = forced /\ forcing' = forcing
      /\ pc' = "prepare" /\ setup' = setup /\ recalled' = recalled
  BY DEF EmptyNudge, EmptyNudgeDue, NextRound
<1>2. pressed' = pressed + IF forcing THEN 1 ELSE 0
  BY DEF EmptyNudge, Press
<1>3. Counters'
  BY <1>1, <1>2 DEF IInv, Counters
<1>4. Pressing'
  <2>1. CASE forcing
    BY <1>1, <1>2, <2>1 DEF IInv, Counters, Pressing
  <2>2. CASE ~ forcing
    BY <1>1, <1>2, <2>2 DEF IInv, Counters, Pressing
  <2> QED BY <2>1, <2>2
<1>5. AnswersAreEarned'
  BY <1>1 DEF AnswersAreEarned
<1> QED BY <1>3, <1>4, <1>5 DEF IInv

LEMMA ToolRoundIsFine == IInv /\ ToolRound => IInv'
<1> SUFFICES ASSUME IInv, ToolRound PROVE IInv'
  OBVIOUS
<1> USE ToolLoopAssumption DEF ToolLoopAssumption
<1>1. /\ pc = "handle" /\ round # MaxRounds
      /\ round' = round + 1 /\ pc' = "prepare" /\ setup' = setup
  BY DEF ToolRound, NextRound, Synthesis
<1>2. pressed' = pressed + IF forcing THEN 1 ELSE 0
  BY DEF ToolRound, Press
<1>3. forced' = forced + IF forcing THEN 1 ELSE 0
  BY DEF ToolRound
<1>4. forcing' = (forcing /\ GateMet(response) = FALSE /\ forced' < MaxForced)
  BY DEF ToolRound, GateMet
<1>5. Counters'
  BY <1>1, <1>2, <1>3, <1>4 DEF IInv, Counters
<1>6. Pressing'
  <2> SUFFICES ASSUME setup'.choice = "gated", ~ recalled'
               PROVE  \/ forcing' /\ pressed' = round' /\ forced' <= pressed'
                      \/ ~ forcing' /\ MaxForced <= pressed'
    BY DEF Pressing
  <2>1. ~ recalled /\ ~ response.recalls /\ setup.choice = "gated"
    BY <1>1 DEF ToolRound
  <2>2. ~ GateMet(response)
    BY <2>1 DEF GateMet
  <2>3. CASE forcing
    <3>1. pressed = round /\ forced <= pressed
      BY <1>1, <2>1, <2>3 DEF IInv, Pressing
    <3>2. pressed' = round' /\ forced' <= pressed' /\ forced' \in Nat /\ pressed' \in Nat
      BY <3>1, <1>1, <1>2, <1>3, <2>3 DEF IInv, Counters
    <3>3. CASE forced' < MaxForced
      BY <3>2, <3>3, <2>3, <2>2 DEF ToolRound
    <3>4. CASE ~ (forced' < MaxForced)
      <4>1. ~ forcing'
        BY <3>4 DEF ToolRound
      <4> QED BY <4>1, <3>2, <3>4
    <3> QED BY <3>3, <3>4
  <2>4. CASE ~ forcing
    <3>1. ~ forcing'
      BY <2>4 DEF ToolRound
    <3>2. MaxForced <= pressed /\ pressed' = pressed
      BY <1>1, <1>2, <2>1, <2>4 DEF IInv, Pressing, Counters
    <3> QED BY <3>1, <3>2
  <2> QED BY <2>3, <2>4
<1>7. AnswersAreEarned'
  BY <1>1 DEF AnswersAreEarned
<1> QED BY <1>5, <1>6, <1>7 DEF IInv

LEMMA AnswerIsFine == IInv /\ Answer => IInv'
<1> SUFFICES ASSUME IInv, Answer PROVE IInv'
  OBVIOUS
<1> USE ToolLoopAssumption DEF ToolLoopAssumption
<1>1. /\ pc = "handle" /\ pc' = "done" /\ round # MaxRounds /\ ~ GateNudgeDue
      /\ UNCHANGED <<setup, round, forcing, forced, recalled, response, pinned>>
  BY DEF Answer, Synthesis
<1>2. pressed' = pressed + IF forcing THEN 1 ELSE 0
  BY DEF Answer, Press
<1>3. Counters'
  BY <1>1, <1>2 DEF IInv, Counters
<1>4. setup.structured /\ pinned = None /\ response.kind = "answer" => response.content = "parsed"
  BY DEF Answer, Failed, Misses
<1>5. ASSUME setup.choice = "gated", ~ recalled
      PROVE  pressed' >= Min({MaxForced, MaxRounds})
  <2>0. /\ Min({MaxForced, MaxRounds}) <= MaxForced
        /\ Min({MaxForced, MaxRounds}) <= MaxRounds
        /\ Min({MaxForced, MaxRounds}) \in Nat
    BY MinOfTwo
  <2>1. CASE forcing
    <3>1. pressed = round /\ forced <= pressed /\ pressed' = pressed + 1
      BY <1>1, <1>2, <1>5, <2>1 DEF IInv, Pressing
    <3>2. ~ (forced + 1 < MaxForced) \/ ~ (round < MaxRounds - 1)
      BY <1>1, <1>5, <2>1 DEF GateNudgeDue
    <3> QED BY <2>0, <3>1, <3>2 DEF IInv, Counters
  <2>2. CASE ~ forcing
    BY <1>1, <1>2, <1>5, <2>0, <2>2 DEF IInv, Pressing, Counters
  <2> QED BY <2>1, <2>2
<1>6. AnswersAreEarned'
  BY <1>1, <1>4, <1>5 DEF AnswersAreEarned
<1>7. Pressing'
  BY <1>1 DEF Pressing
<1> QED BY <1>3, <1>6, <1>7 DEF IInv

LEMMA FinishIsFine == IInv /\ Finish => IInv'
<1> SUFFICES ASSUME IInv, Finish PROVE IInv'
  OBVIOUS
<1> USE ToolLoopAssumption DEF ToolLoopAssumption
<1>1. /\ pc = "handle" /\ pc' \in {"done", "failed"} /\ round = MaxRounds
      /\ UNCHANGED <<setup, round, forcing, forced, recalled, pressed, response, pinned>>
  BY DEF Finish, Synthesis
<1>2. Counters' /\ Pressing'
  BY <1>1 DEF IInv, Counters, Pressing
<1>3. setup.structured /\ pinned = None /\ response.kind = "answer" => response.content = "parsed"
  BY DEF Finish, Failed, Misses
<1>4. ASSUME setup.choice = "gated", ~ recalled
      PROVE  pressed >= Min({MaxForced, MaxRounds})
  <2>0. /\ Min({MaxForced, MaxRounds}) <= MaxForced
        /\ Min({MaxForced, MaxRounds}) <= MaxRounds
        /\ Min({MaxForced, MaxRounds}) \in Nat
    BY MinOfTwo
  <2>1. pressed = MaxRounds \/ MaxForced <= pressed
    BY <1>1, <1>4 DEF IInv, Pressing
  <2> QED BY <2>0, <2>1 DEF IInv, Counters
<1>5. AnswersAreEarned'
  BY <1>1, <1>3, <1>4 DEF AnswersAreEarned
<1> QED BY <1>2, <1>5 DEF IInv

\* Every step of a run keeps the invariant.
LEMMA StepIsFine == IInv /\ [Next]_vars => IInv'
<1> SUFFICES ASSUME IInv, [Next]_vars PROVE IInv'
  OBVIOUS
<1>1. CASE Prepare
  BY <1>1, Aside DEF Prepare
<1>2. CASE Send
  BY <1>2, Aside DEF Send
<1>3. CASE Retry
  BY <1>3, Aside DEF Retry
<1>4. CASE GiveUp
  BY <1>4, Aside DEF GiveUp
<1>5. CASE GateNudge
  BY <1>5, GateNudgeIsFine
<1>6. CASE EmptyNudge
  BY <1>6, EmptyNudgeIsFine
<1>7. CASE Answer
  BY <1>7, AnswerIsFine
<1>8. CASE ToolRound
  BY <1>8, ToolRoundIsFine
<1>9. CASE Synthesize
  BY <1>9, Aside DEF Synthesize
<1>10. CASE Finish
  BY <1>10, FinishIsFine
<1>11. CASE UNCHANGED vars
  BY <1>11 DEF vars, IInv, Counters, Pressing, AnswersAreEarned
<1>12. CASE Over
  BY <1>12, <1>11 DEF Over
<1> QED BY <1>1, <1>2, <1>3, <1>4, <1>5, <1>6, <1>7, <1>8, <1>9, <1>10, <1>11, <1>12 DEF Next

\* The answer of a run is parsed when a shape was asked for, and an agent that
\* must recall is pressed as often as the loop can before it answers without.
THEOREM AnswersAreEarnedHolds == Spec => []AnswersAreEarned
<1>1. Init => IInv
  BY InitIsFine
<1>2. IInv /\ [Next]_vars => IInv'
  BY StepIsFine
<1>3. IInv => AnswersAreEarned
  BY DEF IInv
<1> QED BY <1>1, <1>2, <1>3, PTL DEF Spec

-----------------------------------------------------------------------------
(* What truncation does to a sequence of messages. *)

Kinds == {"system", "user", "call", "result"}
Plain == [kind : Kinds, round : Int, size : Nat, think : {None}]
Thoughts == {None} \cup [under : Seq(Plain), tools : {"all", "final", "none"}]
Messages == [kind : Kinds, round : Int, size : Nat, think : Thoughts]

Rank(kept, p) == Cardinality({q \in kept : q < p})

\* Positions are ranked from zero up, without a gap.
LEMMA Ranks ==
  ASSUME NEW m \in Nat, NEW kept \in SUBSET (1 .. m)
  PROVE  /\ Cardinality(kept) \in Nat
         /\ \A p, q \in kept : p < q => Rank(kept, p) < Rank(kept, q)
         /\ \A p \in kept : Rank(kept, p) \in 0 .. Cardinality(kept) - 1
         /\ \A i \in 1 .. Cardinality(kept) : \E p \in kept : Rank(kept, p) = i - 1
<1> DEFINE n == Cardinality(kept)
           below(p) == {q \in kept : q < p}
<1>0. kept \subseteq Int
  OBVIOUS
<1>1. IsFiniteSet(kept) /\ n \in Nat
  <2>1. IsFiniteSet(1 .. m)
    BY FS_Interval
  <2>2. IsFiniteSet(kept)
    BY <2>1, FS_Subset
  <2> QED BY <2>2, FS_CardinalityType
<1>2. ASSUME NEW p \in kept
      PROVE  IsFiniteSet(below(p)) /\ Rank(kept, p) \in Nat
  <2>1. below(p) \in SUBSET kept
    OBVIOUS
  <2>2. IsFiniteSet(below(p))
    BY <2>1, <1>1, FS_Subset
  <2> QED BY <2>2, FS_CardinalityType DEF Rank
<1>3. ASSUME NEW p \in kept, NEW q \in kept, p < q
      PROVE  Rank(kept, p) < Rank(kept, q)
  <2>1. below(p) \cup {p} \in SUBSET below(q)
    <3>1. p \in Int /\ q \in Int /\ \A x \in kept : x \in Int
      BY <1>0
    <3>2. \A x \in below(p) : x \in below(q)
      BY <3>1, <1>3
    <3> QED BY <3>2, <1>3
  <2>2. Cardinality(below(p) \cup {p}) = Cardinality(below(p)) + 1
    <3>1. p \notin below(p)
      OBVIOUS
    <3> QED BY <3>1, <1>2, FS_AddElement
  <2>3. Cardinality(below(p) \cup {p}) <= Cardinality(below(q))
    BY <2>1, <1>2, FS_Subset
  <2>4. Rank(kept, p) \in Nat /\ Rank(kept, q) \in Nat
    BY <1>2
  <2> QED BY <2>2, <2>3, <2>4 DEF Rank
<1>4. ASSUME NEW p \in kept
      PROVE  Rank(kept, p) \in 0 .. n - 1
  <2>1. below(p) \in SUBSET (kept \ {p})
    OBVIOUS
  <2>2. IsFiniteSet(kept \ {p}) /\ Cardinality(kept \ {p}) = n - 1
    BY <1>1, FS_RemoveElement
  <2>3. Cardinality(below(p)) <= n - 1
    BY <2>1, <2>2, FS_Subset
  <2>4. Rank(kept, p) \in Nat
    BY <1>2
  <2> QED BY <2>3, <2>4, <1>1 DEF Rank
<1>5. ASSUME NEW i \in 1 .. n
      PROVE  \E p \in kept : Rank(kept, p) = i - 1
  <2> DEFINE f == [p \in kept |-> Rank(kept, p)]
  <2>1. IsFiniteSet(0 .. n - 1) /\ Cardinality(0 .. n - 1) = n
    <3>1. n - 1 \in Int /\ 0 \in Int
      BY <1>1
    <3> HIDE DEF n
    <3>2. /\ IsFiniteSet(0 .. n - 1)
          /\ Cardinality(0 .. n - 1) = IF 0 > n - 1 THEN 0 ELSE n - 1 - 0 + 1
      BY <3>1, FS_Interval
    <3> QED BY <3>2, <1>1
  <2>2. f \in [kept -> 0 .. n - 1]
    BY <1>4
  <2>3. \A p, q \in kept : p # q => f[p] # f[q]
    <3> SUFFICES ASSUME NEW p \in kept, NEW q \in kept, p # q
                 PROVE  f[p] # f[q]
      OBVIOUS
    <3>1. f[p] = Rank(kept, p) /\ f[q] = Rank(kept, q)
      OBVIOUS
    <3>2. Rank(kept, p) \in Nat /\ Rank(kept, q) \in Nat
      BY <1>2
    <3>3. CASE p < q
      BY <3>1, <3>2, <3>3, <1>3
    <3>4. CASE q < p
      BY <3>1, <3>2, <3>4, <1>3
    <3> QED BY <3>3, <3>4
  <2>4. f \in Injection(kept, 0 .. n - 1)
    BY <2>2, <2>3 DEF Injection, IsInjective
  <2>5. f \in Surjection(kept, 0 .. n - 1)
    BY <2>1, <2>4, FS_Injection
  <2>6. i - 1 \in 0 .. n - 1
    BY <1>1
  <2>7. \E p \in kept : f[p] = i - 1
    BY <2>5, <2>6 DEF Surjection
  <2> QED BY <2>7
<1> QED BY <1>1, <1>3, <1>4, <1>5

\* d is what stands at the positions kept of c, in order.
Chosen(d, c, kept, pos) ==
  /\ pos \in [1 .. Len(d) -> kept]
  /\ \A i, j \in 1 .. Len(d) : i < j => pos[i] < pos[j]
  /\ \A p \in kept : \E i \in 1 .. Len(d) : pos[i] = p
  /\ \A i \in 1 .. Len(d) : d[i] = c[pos[i]]

LEMMA PickIs ==
  ASSUME NEW c \in Seq(Messages), NEW kept \in SUBSET (1 .. Len(c))
  PROVE  Pick(c, kept) \in Seq(Messages) /\ \E pos : Chosen(Pick(c, kept), c, kept, pos)
<1> DEFINE n == Cardinality(kept)
           at(i) == CHOOSE p \in kept : Cardinality({q \in kept : q < p}) = i - 1
           pos == [i \in 1 .. n |-> at(i)]
           d == [i \in 1 .. n |-> c[at(i)]]
<1>0. Len(c) \in Nat /\ \A p \in kept : p \in Int
  OBVIOUS
<1>1. /\ n \in Nat
      /\ \A p, q \in kept : p < q => Rank(kept, p) < Rank(kept, q)
      /\ \A p \in kept : Rank(kept, p) \in 0 .. n - 1
      /\ \A i \in 1 .. n : \E p \in kept : Rank(kept, p) = i - 1
  BY <1>0, Ranks
<1>2. \A i \in 1 .. n : at(i) \in kept /\ Rank(kept, at(i)) = i - 1
  BY <1>1 DEF Rank
<1>3. Pick(c, kept) = d
  BY DEF Pick
<1>4. /\ pos \in [1 .. n -> kept]
      /\ \A i \in 1 .. n : Rank(kept, pos[i]) = i - 1
      /\ d = [i \in 1 .. n |-> c[pos[i]]]
  <2> HIDE DEF at, n
  <2> QED BY <1>2
<1> HIDE DEF pos, d, n
<1>5. d \in [1 .. n -> Messages]
  <2> SUFFICES ASSUME NEW i \in 1 .. n PROVE c[pos[i]] \in Messages
    BY <1>4
  <2>1. pos[i] \in 1 .. Len(c)
    BY <1>4
  <2> QED BY <2>1
<1>6. d \in Seq(Messages) /\ Len(d) = n
  BY <1>1, <1>5, SeqDef
<1>7. ASSUME NEW i \in 1 .. n, NEW j \in 1 .. n, i < j
      PROVE  pos[i] < pos[j]
  <2>1. /\ pos[i] \in kept /\ Rank(kept, pos[i]) = i - 1
        /\ pos[j] \in kept /\ Rank(kept, pos[j]) = j - 1
    BY <1>4
  <2>2. i \in Int /\ j \in Int
    BY <1>1
  <2>3. pos[i] \in Int /\ pos[j] \in Int
    BY <2>1, <1>0
  <2>4. ~ (j - 1 < i - 1) /\ i - 1 # j - 1
    BY <2>2, <1>7
  <2>5. ~ (pos[j] < pos[i])
    BY <2>1, <2>4, <1>1
  <2>6. pos[j] # pos[i]
    BY <2>1, <2>4
  <2> QED BY <2>3, <2>5, <2>6
<1>8. ASSUME NEW p \in kept
      PROVE  \E i \in 1 .. n : pos[i] = p
  <2>1. Rank(kept, p) \in 0 .. n - 1
    BY <1>1
  <2>2. PICK i \in 1 .. n : Rank(kept, p) = i - 1
    <3>1. Rank(kept, p) + 1 \in 1 .. n /\ Rank(kept, p) = (Rank(kept, p) + 1) - 1
      BY <2>1, <1>1
    <3> QED BY <3>1
  <2>3. pos[i] \in kept /\ Rank(kept, pos[i]) = Rank(kept, p)
    BY <1>4, <2>2
  <2>4. ~ (Rank(kept, p) < Rank(kept, p))
    BY <2>1
  <2>5. ~ (p < pos[i]) /\ ~ (pos[i] < p)
    BY <2>3, <2>4, <1>1
  <2>6. p \in Int /\ pos[i] \in Int
    BY <2>3, <1>0
  <2> QED BY <2>5, <2>6
<1>9. Chosen(d, c, kept, pos)
  BY <1>4, <1>6, <1>7, <1>8 DEF Chosen
<1> QED BY <1>3, <1>6, <1>9

\* d says the same things as c in the same rounds; only sizes may differ.
Alike(c, d) ==
  /\ c \in Seq(Messages) /\ d \in Seq(Messages) /\ Len(d) = Len(c)
  /\ \A i \in 1 .. Len(c) : d[i].kind = c[i].kind /\ d[i].round = c[i].round

LEMMA CutIs ==
  ASSUME NEW m \in Messages, NEW size \in Int
  PROVE  /\ Cut(m, size) \in Messages
         /\ Cut(m, size).kind = m.kind /\ Cut(m, size).round = m.round
<1>1. \E x \in {Floor, size} : \A y \in {Floor, size} : x >= y
  <2>1. Floor \in Int
    BY ToolLoopAssumption DEF ToolLoopAssumption
  <2>2. CASE Floor >= size
    BY <2>1, <2>2
  <2>3. CASE ~ (Floor >= size)
    BY <2>1, <2>3
  <2> QED BY <2>2, <2>3
<1>2. Max({Floor, size}) \in {Floor, size} /\ Max({Floor, size}) >= Floor
  BY <1>1 DEF Max
<1>3. Max({Floor, size}) \in Nat
  BY <1>2, ToolLoopAssumption DEF ToolLoopAssumption
<1>4. [m EXCEPT !.size = Max({Floor, size})] \in Messages
  BY <1>3 DEF Messages
<1>5. /\ [m EXCEPT !.size = Max({Floor, size})].kind = m.kind
      /\ [m EXCEPT !.size = Max({Floor, size})].round = m.round
  BY DEF Messages
<1> QED BY <1>4, <1>5 DEF Cut

LEMMA CuttingSome ==
  ASSUME NEW c \in Seq(Messages), NEW size \in Int, NEW some
  PROVE  Alike(c, [i \in DOMAIN c |-> IF i \in some THEN Cut(c[i], size) ELSE c[i]])
<1> DEFINE d == [i \in DOMAIN c |-> IF i \in some THEN Cut(c[i], size) ELSE c[i]]
<1>1. Len(c) \in Nat /\ DOMAIN c = 1 .. Len(c)
  OBVIOUS
<1>2. ASSUME NEW i \in 1 .. Len(c)
      PROVE  d[i] \in Messages /\ d[i].kind = c[i].kind /\ d[i].round = c[i].round
  <2>1. c[i] \in Messages
    OBVIOUS
  <2>2. d[i] = IF i \in some THEN Cut(c[i], size) ELSE c[i]
    BY <1>1
  <2> HIDE DEF d
  <2> QED BY <2>1, <2>2, CutIs, ZenonT(60)
<1>3. d \in [1 .. Len(c) -> Messages]
  <2>1. d = [i \in 1 .. Len(c) |-> d[i]]
    BY <1>1
  <2> HIDE DEF d
  <2> QED BY <2>1, <1>2
<1> HIDE DEF d
<1>4. d \in Seq(Messages) /\ Len(d) = Len(c)
  BY <1>1, <1>3, SeqDef
<1>5. Alike(c, d)
  BY <1>2, <1>4 DEF Alike
<1> QED BY <1>5 DEF d

LEMMA CappedIs ==
  ASSUME NEW c \in Seq(Messages), NEW room \in Int
  PROVE  Alike(c, Capped(c, room))
<1>1. room \div 2 \in Int
  OBVIOUS
<1>2. Alike(c, [i \in DOMAIN c |-> IF i \in DOMAIN c THEN Cut(c[i], room \div 2) ELSE c[i]])
  BY <1>1, CuttingSome
<1>3. Capped(c, room) = [i \in DOMAIN c |-> IF i \in DOMAIN c THEN Cut(c[i], room \div 2) ELSE c[i]]
  BY DEF Capped
<1> QED BY <1>2, <1>3

LEMMA AlikeIsTransitive ==
  ASSUME NEW c, NEW d, NEW e, Alike(c, d), Alike(d, e)
  PROVE  Alike(c, e)
BY DEF Alike

\* Whatever is clipped, what is left is the kept positions of a sequence alike.
LEMMA ClippedIs ==
  ASSUME NEW c \in Seq(Messages), NEW kept, NEW room, NEW d \in Clipped(c, kept, room)
  PROVE  \E e : Alike(c, e) /\ d = Pick(e, kept)
<1> DEFINE cut(some) == [i \in DOMAIN c |-> IF i \in some THEN Cut(c[i], Floor) ELSE c[i]]
<1>1. PICK some : d = Pick(cut(some), kept)
  BY DEF Clipped
<1>2. Floor \in Int
  BY ToolLoopAssumption DEF ToolLoopAssumption
<1>3. Alike(c, cut(some))
  BY <1>2, CuttingSome
<1> HIDE DEF cut
<1> QED BY <1>1, <1>3

LEMMA AlikeUnits ==
  ASSUME NEW c, NEW d, Alike(c, d)
  PROVE  /\ Heads(d) = Heads(c)
         /\ \A h : Unit(d, h) = Unit(c, h)
         /\ \A h \in Heads(c) : HasResults(d, h) = HasResults(c, h)
         /\ \A hs : Units(d, hs) = Units(c, hs)
         /\ Held(d) = Held(c)
<1>1. /\ DOMAIN c = 1 .. Len(c) /\ DOMAIN d = 1 .. Len(c) /\ Len(c) \in Nat /\ Len(d) = Len(c)
      /\ \A i \in 1 .. Len(c) : d[i].kind = c[i].kind
  BY DEF Alike
<1>2. Heads(d) = Heads(c)
  <2>1. ASSUME NEW i \in 1 .. Len(c), i > 1
        PROVE  d[i - 1].kind = c[i - 1].kind
    <3>1. i - 1 \in 1 .. Len(c)
      BY <1>1, <2>1
    <3> QED BY <3>1, <1>1
  <2> QED BY <1>1, <2>1 DEF Heads
<1>3. ASSUME NEW h
      PROVE  Unit(d, h) = Unit(c, h)
  BY <1>1, <1>2 DEF Unit
<1>4. ASSUME NEW h \in Heads(c)
      PROVE  HasResults(d, h) = HasResults(c, h)
  <2>1. Unit(d, h) = Unit(c, h)
    BY <1>3
  <2>2. h \in 1 .. Len(c)
    BY <1>1 DEF Heads
  <2>3. \A i \in Unit(c, h) : i \in 1 .. Len(c)
    BY <1>1, <2>2 DEF Unit
  <2> QED BY <2>1, <2>3, <1>1 DEF HasResults
<1>5. ASSUME NEW hs
      PROVE  Units(d, hs) = Units(c, hs)
  BY <1>3 DEF Units
<1>6. Held(d) = Held(c)
  BY <1>2, <1>4 DEF Held
<1> QED BY <1>2, <1>3, <1>4, <1>5, <1>6

LEMMA UnitsAre ==
  ASSUME NEW c \in Seq(Messages), NEW hs \in SUBSET Heads(c)
  PROVE  Units(c, hs) \in SUBSET (1 .. Len(c))
<1> SUFFICES ASSUME NEW h \in hs, NEW i \in Unit(c, h) PROVE i \in 1 .. Len(c)
  BY DEF Units
<1>1. h \in 1 .. Len(c) /\ Len(c) \in Nat
  BY DEF Heads
<1> QED BY <1>1 DEF Unit

\* A conversation that was edited is its first message and some of its units;
\* only the opening unit is given up of those held back.
LEMMA TruncatedIs ==
  ASSUME NEW c \in Seq(Messages), Len(c) >= 1, NEW d \in Truncated(c), d # c
  PROVE  \E e, hs, tail, pos :
           /\ Alike(c, e) /\ hs \in SUBSET Heads(c)
           /\ (Held(c) \cap Heads(c)) \ {Min(Heads(c))} \subseteq hs
           /\ tail \in Seq(Messages) /\ d = <<c[1]>> \o tail
           /\ Chosen(tail, e, Units(c, hs), pos)
<1> DEFINE room == MaxInput - Head(c).size
           b == Capped(c, room)
<1>1. Head(c) = c[1] /\ c[1] \in Messages
  OBVIOUS
<1>2. room \in Int
  <2>1. c[1].size \in Nat
    BY <1>1 DEF Messages
  <2> QED BY <1>1, <2>1, ToolLoopAssumption DEF ToolLoopAssumption
<1>3. PICK tail : tail \in Shrunk(b, LeftToFit(b, room), room) /\ d = <<c[1]>> \o tail
  BY <1>1 DEF Truncated
<1> HIDE DEF room
<1>4. Alike(c, b)
  BY <1>2, CappedIs
<1> HIDE DEF b
<1>5. PICK n : LeftToFit(b, room) = Left(b, n)
  BY DEF LeftToFit
<1>6. PICK hs : /\ hs = Left(b, n) \/ hs = Left(b, n) \ {Min(Heads(b))}
                /\ tail \in Clipped(b, Units(b, hs), room)
  <2>1. \/ tail \in Clipped(b, Units(b, Left(b, n)), room)
        \/ tail \in Clipped(b, Units(b, Left(b, n) \ {Min(Heads(b))}), room)
    BY <1>3, <1>5 DEF Shrunk
  <2> QED BY <2>1
<1>7. /\ Heads(b) = Heads(c) /\ Held(b) = Held(c)
      /\ Units(b, hs) = Units(c, hs) /\ b \in Seq(Messages)
  BY <1>4, AlikeUnits DEF Alike
<1>8. /\ hs \in SUBSET Heads(c)
      /\ (Held(c) \cap Heads(c)) \ {Min(Heads(c))} \subseteq hs
  BY <1>6, <1>7 DEF Left
<1>9. PICK e : Alike(b, e) /\ tail = Pick(e, Units(b, hs))
  BY <1>6, <1>7, ClippedIs
<1>10. Alike(c, e)
  BY <1>4, <1>9, AlikeIsTransitive
<1>11. e \in Seq(Messages) /\ Units(c, hs) \in SUBSET (1 .. Len(e))
  BY <1>8, <1>10, UnitsAre DEF Alike
<1>12. tail \in Seq(Messages) /\ \E pos : Chosen(tail, e, Units(c, hs), pos)
  BY <1>7, <1>9, <1>11, PickIs
<1> QED BY <1>3, <1>8, <1>10, <1>12

-----------------------------------------------------------------------------
(* Requests are whole. *)

\* A conversation opens with the system prompt, its messages are in the order
\* of the rounds, the task is nowhere but second, and every call has results.
Shape(c) ==
  /\ c \in Seq(Messages) /\ Len(c) >= 1 /\ c[1].kind = "system"
  /\ \A i \in 1 .. Len(c) : i > 1 => c[i].kind # "system"
  /\ \A i, j \in 1 .. Len(c) : i <= j => c[i].round <= c[j].round
  /\ \A i \in 1 .. Len(c) : c[i].kind = "user" /\ c[i].round = -1 => i = 2
  /\ Whole(c)

\* Of the results in c, d still has the newest.
NewestKept(c, d) ==
  \A i \in DOMAIN c : c[i].kind = "result" =>
    \E j \in DOMAIN d : d[j].kind = "result" /\ d[j].round >= c[i].round

\* What an edited conversation takes from the one before.
Taken(d, c, hs, pos) ==
  /\ d \in Seq(Messages) /\ Len(d) >= 1 /\ d[1] = c[1]
  /\ \A i \in 1 .. Len(d) : i > 1 =>
       /\ pos[i] \in Units(c, hs)
       /\ d[i].kind = c[pos[i]].kind /\ d[i].round = c[pos[i]].round
  /\ \A i, j \in 1 .. Len(d) : 1 < i /\ i < j => pos[i] < pos[j]
  /\ \A p \in Units(c, hs) : \E i \in 1 .. Len(d) : i > 1 /\ pos[i] = p

TakenFrom(d, e, pos) == \A i \in 1 .. Len(d) : i > 1 => d[i] = e[pos[i]]

LEMMA ChosenIsTaken ==
  ASSUME NEW c \in Seq(Messages), Len(c) >= 1, NEW e, Alike(c, e),
         NEW hs \in SUBSET Heads(c), NEW tail \in Seq(Messages), NEW q,
         Chosen(tail, e, Units(c, hs), q), NEW d, d = <<c[1]>> \o tail
  PROVE  \E pos : Taken(d, c, hs, pos) /\ TakenFrom(d, e, pos)
<1> DEFINE n == Len(tail)
           pos == [i \in 2 .. n + 1 |-> q[i - 1]]
<1>1. n \in Nat
  OBVIOUS
<1>2. /\ d \in Seq(Messages) /\ Len(d) = n + 1 /\ d[1] = c[1]
      /\ \A i \in 2 .. n + 1 : d[i] = tail[i - 1]
  <2>1. c[1] \in Messages
    OBVIOUS
  <2>2. <<c[1]>> \in Seq(Messages) /\ Len(<<c[1]>>) = 1
    BY <2>1
  <2> QED BY <2>2, ConcatProperties
<1>3. ASSUME NEW i \in 1 .. Len(d), i > 1
      PROVE  i \in 2 .. n + 1 /\ i - 1 \in 1 .. n /\ pos[i] = q[i - 1]
  BY <1>1, <1>2, <1>3
<1> HIDE DEF pos
<1>4. ASSUME NEW i \in 1 .. Len(d), i > 1
      PROVE  /\ pos[i] \in Units(c, hs) /\ d[i] = e[pos[i]]
             /\ d[i].kind = c[pos[i]].kind /\ d[i].round = c[pos[i]].round
  <2>1. i \in 2 .. n + 1 /\ i - 1 \in 1 .. n /\ pos[i] = q[i - 1]
    BY <1>3, <1>4
  <2>2. q[i - 1] \in Units(c, hs) /\ tail[i - 1] = e[q[i - 1]]
    BY <2>1 DEF Chosen
  <2>3. q[i - 1] \in 1 .. Len(c)
    BY <2>2, UnitsAre
  <2> QED BY <2>1, <2>2, <2>3, <1>2 DEF Alike
<1>5. ASSUME NEW i \in 1 .. Len(d), NEW j \in 1 .. Len(d), 1 < i, i < j
      PROVE  pos[i] < pos[j]
  <2>1. j > 1 /\ i - 1 < j - 1
    BY <1>5, <1>1, <1>2
  <2>2. /\ i - 1 \in 1 .. n /\ pos[i] = q[i - 1]
        /\ j - 1 \in 1 .. n /\ pos[j] = q[j - 1]
    BY <1>3, <1>5, <2>1
  <2> QED BY <2>1, <2>2 DEF Chosen
<1>6. ASSUME NEW p \in Units(c, hs)
      PROVE  \E i \in 1 .. Len(d) : i > 1 /\ pos[i] = p
  <2>1. PICK k \in 1 .. n : q[k] = p
    BY DEF Chosen
  <2>2. k + 1 \in 1 .. Len(d) /\ k + 1 > 1 /\ (k + 1) - 1 = k
    BY <1>1, <1>2
  <2>3. pos[k + 1] = p
    BY <2>1, <2>2, <1>3
  <2> QED BY <2>2, <2>3
<1>7. Taken(d, c, hs, pos)
  BY <1>1, <1>2, <1>4, <1>5, <1>6 DEF Taken
<1>8. TakenFrom(d, e, pos)
  BY <1>4 DEF TakenFrom
<1> QED BY <1>7, <1>8

LEMMA EditedIs ==
  ASSUME NEW c \in Seq(Messages), Len(c) >= 1, NEW d \in Truncated(c), d # c
  PROVE  \E hs, pos :
           /\ hs \in SUBSET Heads(c)
           /\ (Held(c) \cap Heads(c)) \ {Min(Heads(c))} \subseteq hs
           /\ Taken(d, c, hs, pos)
<1>1. PICK e, hs, tail, q :
           /\ Alike(c, e) /\ hs \in SUBSET Heads(c)
           /\ (Held(c) \cap Heads(c)) \ {Min(Heads(c))} \subseteq hs
           /\ tail \in Seq(Messages) /\ d = <<c[1]>> \o tail
           /\ Chosen(tail, e, Units(c, hs), q)
  BY TruncatedIs
<1>2. \E pos : Taken(d, c, hs, pos)
  BY <1>1, ChosenIsTaken
<1> QED BY <1>1, <1>2

\* A unit holds a call with its results.
LEMMA Neighbours ==
  ASSUME NEW c, Shape(c), NEW hs \in SUBSET Heads(c), NEW p \in Units(c, hs)
  PROVE  /\ p \in 1 .. Len(c) /\ p > 1
         /\ c[p].kind = "call" => p + 1 \in Units(c, hs)
         /\ c[p].kind = "result" => p - 1 \in Units(c, hs)
<1>1. PICK h \in hs : p \in Unit(c, h)
  BY DEF Units
<1>2. /\ Len(c) \in Nat /\ DOMAIN c = 1 .. Len(c)
      /\ h \in 1 .. Len(c) /\ c[h].kind \notin {"system", "result"} /\ c[1].kind = "system"
  BY DEF Shape, Heads
<1>3. h > 1
  BY <1>2
<1>4. p \in h .. Len(c) /\ (h + 1 .. p) \cap Heads(c) = {}
  BY <1>1 DEF Unit
<1>5. p \in 1 .. Len(c) /\ p > 1
  BY <1>2, <1>3, <1>4
<1>6. ASSUME c[p].kind = "call"
      PROVE  p + 1 \in Units(c, hs)
  <2>1. p + 1 \in 1 .. Len(c) /\ c[p + 1].kind = "result"
    <3>1. p < Len(c) /\ c[p + 1].kind = "result"
      BY <1>2, <1>5, <1>6 DEF Shape, Whole
    <3> QED BY <3>1, <1>2, <1>5
  <2>2. p + 1 \notin Heads(c)
    BY <2>1 DEF Heads
  <2>3. p + 1 \in h .. Len(c) /\ (h + 1 .. p + 1) \cap Heads(c) = {}
    BY <1>2, <1>4, <2>1, <2>2
  <2>4. p + 1 \in Unit(c, h)
    BY <2>3 DEF Unit
  <2> QED BY <2>4 DEF Units
<1>7. ASSUME c[p].kind = "result"
      PROVE  p - 1 \in Units(c, hs)
  <2>1. p # h
    BY <1>2, <1>7
  <2>2. p - 1 \in h .. Len(c) /\ (h + 1 .. p - 1) \cap Heads(c) = {}
    BY <1>2, <1>4, <2>1
  <2>3. p - 1 \in Unit(c, h)
    BY <2>2 DEF Unit
  <2> QED BY <2>3 DEF Units
<1> QED BY <1>5, <1>6, <1>7

LEMMA TakenKeepsShape ==
  ASSUME NEW c, Shape(c), NEW hs \in SUBSET Heads(c), NEW d, NEW pos, Taken(d, c, hs, pos)
  PROVE  /\ Shape(d)
         /\ \A i \in 1 .. Len(d) : \E p \in 1 .. Len(c) : d[i].round = c[p].round
<1>1. /\ Len(c) \in Nat /\ DOMAIN c = 1 .. Len(c) /\ Len(c) >= 1
      /\ Len(d) \in Nat /\ DOMAIN d = 1 .. Len(d) /\ Len(d) >= 1
      /\ d \in Seq(Messages) /\ d[1] = c[1] /\ c[1].kind = "system"
  BY DEF Shape, Taken
<1>2. ASSUME NEW i \in 1 .. Len(d), i > 1
      PROVE  /\ pos[i] \in Units(c, hs) /\ pos[i] \in 1 .. Len(c) /\ pos[i] > 1
             /\ d[i].kind = c[pos[i]].kind /\ d[i].round = c[pos[i]].round
  BY <1>2, Neighbours DEF Taken
<1>3. \A i, j \in 1 .. Len(d) : 1 < i /\ i < j => pos[i] < pos[j]
  BY DEF Taken
<1>4. \A i \in 1 .. Len(d) : i > 1 => d[i].kind # "system"
  BY <1>2 DEF Shape
<1>5. ASSUME NEW i \in 1 .. Len(d), NEW j \in 1 .. Len(d), i <= j
      PROVE  d[i].round <= d[j].round
  <2>1. CASE i = 1 /\ j = 1
    <3>1. 1 \in 1 .. Len(c) /\ c[1].round <= c[1].round
      BY <1>1 DEF Shape
    <3> QED BY <2>1, <3>1, <1>1
  <2>2. CASE i = 1 /\ j > 1
    <3>1. pos[j] \in 1 .. Len(c) /\ d[j].round = c[pos[j]].round
      BY <1>2, <2>2
    <3>2. 1 \in 1 .. Len(c) /\ 1 <= pos[j]
      BY <1>1, <3>1
    <3>3. c[1].round <= c[pos[j]].round
      BY <3>1, <3>2 DEF Shape
    <3> QED BY <3>1, <3>3, <2>2, <1>1
  <2>3. CASE i > 1
    <3>1. j > 1
      BY <2>3, <1>5
    <3>2. /\ pos[i] \in 1 .. Len(c) /\ d[i].round = c[pos[i]].round
          /\ pos[j] \in 1 .. Len(c) /\ d[j].round = c[pos[j]].round
      BY <1>2, <2>3, <3>1
    <3>3. pos[i] <= pos[j]
      <4>1. CASE i = j
        BY <4>1, <3>2
      <4>2. CASE i # j
        <5>1. i < j
          BY <4>2, <1>5
        <5>2. pos[i] < pos[j]
          BY <5>1, <2>3, <1>3
        <5> QED BY <5>2, <3>2
      <4> QED BY <4>1, <4>2
    <3> QED BY <3>2, <3>3 DEF Shape
  <2> QED BY <2>1, <2>2, <2>3
<1>6. ASSUME NEW i \in 1 .. Len(d), d[i].kind = "user", d[i].round = -1
      PROVE  i = 2
  <2>1. i > 1
    BY <1>1, <1>6
  <2>2. pos[i] = 2
    BY <1>2, <1>6, <2>1 DEF Shape
  <2>3. CASE i > 2
    <3>1. 2 \in 1 .. Len(d) /\ 2 > 1
      BY <1>1, <2>3
    <3>2. pos[2] > 1 /\ pos[2] \in 1 .. Len(c) /\ pos[2] < pos[i]
      BY <1>2, <1>3, <2>3, <3>1
    <3> QED BY <2>2, <3>2
  <2> QED BY <2>1, <2>3
\* Neighbours of c that are both taken are neighbours in d.
<1>7. ASSUME NEW i \in 1 .. Len(d), i > 1, pos[i] + 1 \in Units(c, hs)
      PROVE  i + 1 \in 1 .. Len(d) /\ pos[i + 1] = pos[i] + 1
  <2>1. PICK k \in 1 .. Len(d) : k > 1 /\ pos[k] = pos[i] + 1
    BY <1>7 DEF Taken
  <2>2. pos[i] \in Int
    BY <1>2, <1>7
  <2>3. k > i
    <3>1. k # i
      BY <2>1, <2>2
    <3>2. ~ (k < i)
      <4> SUFFICES ASSUME k < i PROVE FALSE
        OBVIOUS
      <4>1. pos[k] < pos[i]
        BY <1>3, <2>1
      <4> QED BY <4>1, <2>1, <2>2
    <3> QED BY <3>1, <3>2
  <2>4. ~ (k > i + 1)
    <3> SUFFICES ASSUME k > i + 1 PROVE FALSE
      OBVIOUS
    <3>1. i + 1 \in 1 .. Len(d) /\ 1 < i + 1 /\ i < i + 1
      BY <1>1, <1>7
    <3>2. pos[i] < pos[i + 1] /\ pos[i + 1] < pos[k] /\ pos[i + 1] \in 1 .. Len(c)
      BY <3>1, <1>2, <1>3, <1>7
    <3> QED BY <3>2, <2>1, <2>2
  <2>5. k = i + 1
    BY <2>3, <2>4
  <2> QED BY <2>1, <2>5
<1>8. ASSUME NEW i \in 1 .. Len(d), i > 1, pos[i] - 1 \in Units(c, hs)
      PROVE  i - 1 > 1 /\ pos[i - 1] = pos[i] - 1
  <2>1. PICK k \in 1 .. Len(d) : k > 1 /\ pos[k] = pos[i] - 1
    BY <1>8 DEF Taken
  <2>2. pos[i] \in Int /\ pos[k] + 1 = pos[i]
    BY <1>2, <1>8, <2>1
  <2>3. pos[k] + 1 \in Units(c, hs)
    BY <2>2, <1>2, <1>8
  <2>4. k + 1 \in 1 .. Len(d) /\ pos[k + 1] = pos[i]
    BY <2>1, <2>2, <2>3, <1>7
  <2>5. k + 1 = i
    <3>1. k + 1 > 1
      BY <2>1
    <3>2. ~ (k + 1 < i) /\ ~ (i < k + 1)
      BY <3>1, <2>2, <2>4, <1>3, <1>8
    <3> QED BY <3>2
  <2> QED BY <2>1, <2>5
<1>9. ASSUME NEW i \in 1 .. Len(d), d[i].kind = "call"
      PROVE  i < Len(d) /\ d[i + 1].kind = "result" /\ d[i + 1].round = d[i].round
  <2>1. i > 1
    BY <1>1, <1>9
  <2>2. c[pos[i]].kind = "call" /\ pos[i] \in Units(c, hs) /\ pos[i] \in 1 .. Len(c)
    BY <1>2, <1>9, <2>1
  <2>3. i + 1 \in 1 .. Len(d) /\ pos[i + 1] = pos[i] + 1
    BY <2>1, <2>2, <1>7, Neighbours
  <2>4. c[pos[i] + 1].kind = "result" /\ c[pos[i] + 1].round = c[pos[i]].round
    BY <2>2, <1>1 DEF Shape, Whole
  <2> QED BY <2>1, <2>3, <2>4, <1>2
<1>10. ASSUME NEW i \in 1 .. Len(d), d[i].kind = "result"
       PROVE  i > 1 /\ d[i - 1].kind = "call"
  <2>1. i > 1
    BY <1>1, <1>10
  <2>2. c[pos[i]].kind = "result" /\ pos[i] \in Units(c, hs) /\ pos[i] \in 1 .. Len(c)
    BY <1>2, <1>10, <2>1
  <2>3. i - 1 > 1 /\ pos[i - 1] = pos[i] - 1
    BY <2>1, <2>2, <1>8, Neighbours
  <2>4. c[pos[i] - 1].kind = "call"
    BY <2>2, <1>1 DEF Shape, Whole
  <2>5. i - 1 \in 1 .. Len(d)
    BY <2>3, <1>1
  <2> QED BY <2>1, <2>3, <2>4, <2>5, <1>2
<1>11. Shape(d)
  BY <1>1, <1>4, <1>5, <1>6, <1>9, <1>10 DEF Shape, Whole
<1>12. ASSUME NEW i \in 1 .. Len(d)
       PROVE  \E p \in 1 .. Len(c) : d[i].round = c[p].round
  BY <1>1, <1>2
<1> QED BY <1>11, <1>12

\* A results message is the second of its unit.
LEMMA ResultsAreSecond ==
  ASSUME NEW c, Shape(c), NEW i \in 1 .. Len(c), c[i].kind = "result"
  PROVE  /\ i - 1 \in Heads(c) /\ i \in Unit(c, i - 1) /\ HasResults(c, i - 1)
         /\ \A h \in Heads(c) : i \in Unit(c, h) => h = i - 1
<1>1. /\ Len(c) \in Nat /\ DOMAIN c = 1 .. Len(c)
      /\ i > 1 /\ c[i - 1].kind = "call"
  BY SMTT(60) DEF Shape, Whole
<1>2. i - 1 \in Heads(c)
  BY <1>1 DEF Heads
<1>3. i \notin Heads(c)
  BY DEF Heads
<1>4. i \in Unit(c, i - 1)
  <2>1. i \in i - 1 .. Len(c) /\ ((i - 1) + 1 .. i) = {i}
    BY <1>1
  <2> QED BY <2>1, <1>3 DEF Unit
<1>5. HasResults(c, i - 1)
  BY <1>4 DEF HasResults
<1>6. ASSUME NEW h \in Heads(c), i \in Unit(c, h)
      PROVE  h = i - 1
  <2>1. h \in 1 .. Len(c) /\ h # i
    BY <1>1, <1>3, <1>6 DEF Heads
  <2>2. i \in h .. Len(c) /\ (h + 1 .. i) \cap Heads(c) = {}
    BY <1>6 DEF Unit
  <2>3. i - 1 \notin h + 1 .. i
    BY <2>2, <1>2
  <2> QED BY <2>1, <2>2, <2>3, <1>1
<1> QED BY <1>2, <1>4, <1>5, <1>6

\* Every result of a conversation that has its task is in a unit that is not
\* the opening one, and the newest such unit is held back.
LEMMA NewestStays ==
  ASSUME NEW c, Shape(c), HasTask(c), NEW hs \in SUBSET Heads(c),
         (Held(c) \cap Heads(c)) \ {Min(Heads(c))} \subseteq hs,
         NEW d, NEW pos, Taken(d, c, hs, pos)
  PROVE  NewestKept(c, d)
<1>1. Len(c) \in Nat /\ DOMAIN c = 1 .. Len(c) /\ DOMAIN d = 1 .. Len(d)
  BY DEF Shape, Taken
<1>2. 2 \in 1 .. Len(c) /\ c[2].kind = "user" /\ c[1].kind = "system"
  BY <1>1 DEF Shape, HasTask
<1>3. Min(Heads(c)) = 2
  <2>1. 2 \in Heads(c)
    BY <1>1, <1>2 DEF Heads
  <2>2. \A h \in Heads(c) : h \in Int /\ 2 <= h
    BY <1>1, <1>2 DEF Heads
  <2> QED BY <2>1, <2>2 DEF Min
<1> SUFFICES ASSUME NEW i \in 1 .. Len(c), c[i].kind = "result"
             PROVE  \E j \in 1 .. Len(d) : d[j].kind = "result" /\ d[j].round >= c[i].round
  BY <1>1 DEF NewestKept
<1> DEFINE full == {h \in Heads(c) : HasResults(c, h)}
<1>4. \E h \in full : \A g \in full : g <= h
  <2> DEFINE far == {Len(c) - h : h \in full}
  <2>1. i - 1 \in full
    BY ResultsAreSecond
  <2>2. \A h \in full : h \in 1 .. Len(c)
    BY <1>1 DEF Heads
  <2> HIDE DEF full
  <2>3. far \in SUBSET Nat /\ Len(c) - (i - 1) \in far
    BY <2>1, <2>2, <1>1
  <2> HIDE DEF far
  <2>4. PICK f \in far : \A g \in far : ~ (<<g, f>> \in OpToRel(<, Nat))
    BY <2>3, NatLessThanWellFounded, WFMin
  <2>5. PICK h \in full : f = Len(c) - h
    BY <2>4 DEF far
  <2>6. ASSUME NEW g \in full
        PROVE  g <= h
    <3>1. Len(c) - g \in far
      BY DEF far
    <3>2. f \in Nat /\ Len(c) - g \in Nat /\ <<Len(c) - g, f>> \notin OpToRel(<, Nat)
      BY <3>1, <2>3, <2>4
    <3>3. ~ (Len(c) - g < f)
      BY <3>2 DEF OpToRel
    <3>4. h \in 1 .. Len(c) /\ g \in 1 .. Len(c)
      BY <2>2
    <3> QED BY <3>3, <3>4, <2>5, <1>1
  <2> QED BY <2>6
<1>5. PICK h \in full : \A g \in full : g <= h
  BY <1>4
<1>6. h \in Held(c) /\ h \in Heads(c)
  BY <1>5 DEF Held
<1>7. PICK k \in Unit(c, h) : c[k].kind = "result"
  BY DEF HasResults
<1>8. k \in 1 .. Len(c)
  BY <1>1 DEF Unit, Heads
<1>9. /\ k > 1 /\ c[k - 1].kind = "call" /\ h = k - 1
      /\ i - 1 \in full
  BY <1>1, <1>7, <1>8, ResultsAreSecond DEF Shape, Whole
<1>10. h # 2
  BY <1>2, <1>9
<1>11. k \in Units(c, hs)
  BY <1>3, <1>6, <1>10, <1>7 DEF Units
<1>12. i <= k
  BY <1>5, <1>9, <1>8
<1>13. c[i].round <= c[k].round /\ c[i].round \in Int /\ c[k].round \in Int
  <2>1. c[i] \in Messages /\ c[k] \in Messages
    BY <1>8 DEF Shape
  <2> QED BY <2>1, <1>8, <1>12 DEF Shape, Messages
<1>14. PICK j \in 1 .. Len(d) : j > 1 /\ pos[j] = k
  BY <1>11 DEF Taken
<1>15. d[j].kind = "result" /\ d[j].round = c[k].round
  BY <1>14, <1>7 DEF Taken
<1> QED BY <1>13, <1>15

\* Truncation keeps the shape of a conversation, and its newest results until
\* the task is given up.
LEMMA TruncationKeeps ==
  ASSUME NEW c, Shape(c), NEW d \in Truncated(c)
  PROVE  /\ Shape(d)
         /\ HasTask(c) => NewestKept(c, d)
         /\ \A i \in 1 .. Len(d) : \E p \in 1 .. Len(c) : d[i].round = c[p].round
<1>1. c \in Seq(Messages) /\ Len(c) >= 1 /\ DOMAIN c = 1 .. Len(c)
  BY DEF Shape
<1>2. CASE d = c
  <2>1. NewestKept(c, c)
    <3>1. \A i \in 1 .. Len(c) : c[i] \in Messages
      BY <1>1
    <3>2. \A i \in 1 .. Len(c) : c[i].round >= c[i].round
      BY <3>1 DEF Messages
    <3> QED BY <1>1, <3>2 DEF NewestKept
  <2> QED BY <1>2, <2>1
<1>3. CASE d # c
  <2>1. PICK hs, pos :
          /\ hs \in SUBSET Heads(c)
          /\ (Held(c) \cap Heads(c)) \ {Min(Heads(c))} \subseteq hs
          /\ Taken(d, c, hs, pos)
    BY <1>1, <1>3, EditedIs
  <2>2. Shape(d) /\ \A i \in 1 .. Len(d) : \E p \in 1 .. Len(c) : d[i].round = c[p].round
    BY <2>1, TakenKeepsShape
  <2>3. ASSUME HasTask(c)
        PROVE  NewestKept(c, d)
    BY <2>1, <2>3, NewestStays
  <2> QED BY <2>2, <2>3
<1> QED BY <1>2, <1>3

-----------------------------------------------------------------------------
(* What the loop appends. *)

\* Thinking that is not stale is what the model saw: what precedes it, under
\* all tools.
Fresh(c, n) ==
  \A i \in 1 .. Len(c) : i > n /\ c[i].think # None =>
    c[i].think.under = Said(SubSeq(c, 1, i - 1)) /\ c[i].think.tools = "all"

LEMMA PrefixOfConcat ==
  ASSUME NEW c \in Seq(Messages), NEW t \in Seq(Messages), NEW n \in 0 .. Len(c)
  PROVE  SubSeq(c \o t, 1, n) = SubSeq(c, 1, n)
<1>1. CASE n = 0
  BY <1>1, SubSeqEmpty
<1>2. CASE n # 0
  <2>1. n \in 1 .. Len(c) /\ 1 \in 1 .. Len(c)
    BY <1>2
  <2> QED BY <2>1, SubSeqOfConcat1
<1> QED BY <1>1, <1>2

LEMMA AppendingKeepsFresh ==
  ASSUME NEW c \in Seq(Messages), NEW t \in Seq(Messages), NEW n \in Nat, Fresh(c, n),
         \A i \in 1 .. Len(t) : t[i].think # None =>
            /\ t[i].think.under = Said(SubSeq(c \o t, 1, Len(c) + i - 1))
            /\ t[i].think.tools = "all"
  PROVE  Fresh(c \o t, n)
<1> DEFINE d == c \o t
<1>1. /\ Len(c) \in Nat /\ Len(t) \in Nat /\ Len(d) = Len(c) + Len(t)
      /\ \A i \in 1 .. Len(d) : d[i] = IF i <= Len(c) THEN c[i] ELSE t[i - Len(c)]
  BY ConcatProperties
<1>2. SUFFICES ASSUME NEW i \in 1 .. Len(d), i > n, d[i].think # None
               PROVE  d[i].think.under = Said(SubSeq(d, 1, i - 1)) /\ d[i].think.tools = "all"
  BY DEF Fresh
<1>3. CASE i <= Len(c)
  <2>1. d[i] = c[i] /\ i \in 1 .. Len(c) /\ i - 1 \in 0 .. Len(c)
    BY <1>1, <1>3
  <2>2. SubSeq(d, 1, i - 1) = SubSeq(c, 1, i - 1)
    BY <2>1, PrefixOfConcat
  <2> HIDE DEF d
  <2> QED BY <2>1, <2>2, <1>2 DEF Fresh
<1>4. CASE i > Len(c)
  <2>1. d[i] = t[i - Len(c)] /\ i - Len(c) \in 1 .. Len(t) /\ Len(c) + (i - Len(c)) - 1 = i - 1
    BY <1>1, <1>4
  <2> QED BY <2>1, <1>2
<1> QED BY <1>3, <1>4, <1>1

LEMMA SaidIs ==
  ASSUME NEW c \in Seq(Messages)
  PROVE  Said(c) \in Seq(Plain)
<1>1. Len(c) \in Nat /\ DOMAIN c = 1 .. Len(c)
  OBVIOUS
<1>2. ASSUME NEW i \in 1 .. Len(c)
      PROVE  [c[i] EXCEPT !.think = None] \in Plain
  <2>1. c[i] \in Messages
    OBVIOUS
  <2> QED BY <2>1 DEF Messages, Plain
<1>3. Said(c) \in [1 .. Len(c) -> Plain]
  BY <1>1, <1>2 DEF Said
<1> QED BY <1>1, <1>3, SeqDef

\* What is sent says what the conversation says.
LEMMA SentIs ==
  ASSUME NEW c \in Seq(Messages)
  PROVE  LET w == WithoutStaleThinking(c) IN
         /\ w \in Seq(Messages) /\ Len(w) = Len(c)
         /\ \A i \in 1 .. Len(c) :
              /\ w[i].kind = c[i].kind /\ w[i].round = c[i].round /\ w[i].size = c[i].size
              /\ Model = setup.preserving /\ i <= stale => w[i].think = None
              /\ ~ (Model = setup.preserving /\ i <= stale) => w[i].think = c[i].think
              /\ [w[i] EXCEPT !.think = None] = [c[i] EXCEPT !.think = None]
<1> DEFINE w == WithoutStaleThinking(c)
<1>1. Len(c) \in Nat /\ DOMAIN c = 1 .. Len(c)
  OBVIOUS
<1>2. /\ w = [i \in 1 .. Len(c) |-> w[i]]
      /\ \A i \in 1 .. Len(c) :
           w[i] = IF Model = setup.preserving /\ i <= stale THEN [c[i] EXCEPT !.think = None] ELSE c[i]
  BY <1>1 DEF WithoutStaleThinking
<1> HIDE DEF w
<1>3. ASSUME NEW i \in 1 .. Len(c)
      PROVE  /\ w[i] \in Messages
             /\ w[i].kind = c[i].kind /\ w[i].round = c[i].round /\ w[i].size = c[i].size
             /\ Model = setup.preserving /\ i <= stale => w[i].think = None
             /\ ~ (Model = setup.preserving /\ i <= stale) => w[i].think = c[i].think
             /\ [w[i] EXCEPT !.think = None] = [c[i] EXCEPT !.think = None]
  <2>1. c[i] \in Messages
    OBVIOUS
  <2>2. CASE Model = setup.preserving /\ i <= stale
    <3>1. w[i] = [c[i] EXCEPT !.think = None]
      BY <1>2, <2>2
    <3> QED BY <2>1, <2>2, <3>1 DEF Messages, Thoughts
  <2>3. CASE ~ (Model = setup.preserving /\ i <= stale)
    <3>1. w[i] = c[i]
      BY <1>2, <2>3
    <3> QED BY <2>1, <2>3, <3>1
  <2> QED BY <2>2, <2>3
<1>4. w \in [1 .. Len(c) -> Messages]
  BY <1>2, <1>3
<1>5. w \in Seq(Messages) /\ Len(w) = Len(c)
  BY <1>1, <1>4, SeqDef
<1> QED BY <1>3, <1>5 DEF w

LEMMA SentSaysTheSame ==
  ASSUME NEW c \in Seq(Messages), NEW n \in 0 .. Len(c)
  PROVE  Said(SubSeq(WithoutStaleThinking(c), 1, n)) = Said(SubSeq(c, 1, n))
<1> DEFINE w == WithoutStaleThinking(c)
<1>1. /\ w \in Seq(Messages) /\ Len(w) = Len(c)
      /\ \A i \in 1 .. Len(c) : [w[i] EXCEPT !.think = None] = [c[i] EXCEPT !.think = None]
  BY SentIs
<1> HIDE DEF w
<1>2. n \in Nat /\ n <= Len(c) /\ n \in Int /\ 1 \in Int
  OBVIOUS
<1>3. /\ \A i \in 1 .. n : w[i] \in Messages
      /\ \A i \in 1 .. n : c[i] \in Messages
  BY <1>1, <1>2
<1>4. /\ SubSeq(w, 1, n) \in Seq(Messages) /\ Len(SubSeq(w, 1, n)) = n
      /\ \A i \in 1 .. n : SubSeq(w, 1, n)[i] = w[i]
  BY <1>2, <1>3, SubSeqProperties
<1>5. /\ SubSeq(c, 1, n) \in Seq(Messages) /\ Len(SubSeq(c, 1, n)) = n
      /\ \A i \in 1 .. n : SubSeq(c, 1, n)[i] = c[i]
  BY <1>2, <1>3, SubSeqProperties
<1>6. \A i \in 1 .. n : [w[i] EXCEPT !.think = None] = [c[i] EXCEPT !.think = None]
  BY <1>1, <1>2
<1>7. DOMAIN SubSeq(w, 1, n) = 1 .. n /\ DOMAIN SubSeq(c, 1, n) = 1 .. n
  BY <1>4, <1>5
<1> QED BY <1>4, <1>5, <1>6, <1>7 DEF Said, w

LEMMA SentIsWhole ==
  ASSUME NEW c \in Seq(Messages), Whole(c)
  PROVE  Whole(WithoutStaleThinking(c))
<1> DEFINE w == WithoutStaleThinking(c)
<1>1. /\ w \in Seq(Messages) /\ Len(w) = Len(c)
      /\ \A i \in 1 .. Len(c) : w[i].kind = c[i].kind /\ w[i].round = c[i].round
  BY SentIs
<1> HIDE DEF w
<1>2. DOMAIN w = 1 .. Len(c) /\ DOMAIN c = 1 .. Len(c) /\ Len(c) \in Nat
  BY <1>1
<1>3. ASSUME NEW i \in 1 .. Len(c), w[i].kind = "call"
      PROVE  i < Len(w) /\ w[i + 1].kind = "result" /\ w[i + 1].round = w[i].round
  <2>1. i < Len(c) /\ c[i + 1].kind = "result" /\ c[i + 1].round = c[i].round
    BY <1>1, <1>2, <1>3 DEF Whole
  <2>2. i + 1 \in 1 .. Len(c)
    BY <2>1, <1>2
  <2> QED BY <1>1, <2>1, <2>2
<1>4. ASSUME NEW i \in 1 .. Len(c), w[i].kind = "result"
      PROVE  i > 1 /\ w[i - 1].kind = "call"
  <2>1. i > 1 /\ c[i - 1].kind = "call"
    BY <1>1, <1>2, <1>4 DEF Whole
  <2>2. i - 1 \in 1 .. Len(c)
    BY <2>1, <1>2
  <2> QED BY <1>1, <2>1, <2>2
<1> QED BY <1>2, <1>3, <1>4 DEF Whole, w

Bound(c, r) == \A i \in 1 .. Len(c) : c[i].round <= r

\* A round of messages extends a conversation.
LEMMA AppendingKeepsShape ==
  ASSUME NEW c, Shape(c), NEW r \in Nat, Bound(c, r), NEW t \in Seq(Messages), Whole(t),
         \A i \in 1 .. Len(t) : t[i].round = r /\ t[i].kind # "system"
  PROVE  Shape(c \o t) /\ Bound(c \o t, r) /\ NewestKept(c, c \o t)
<1> DEFINE d == c \o t
<1>1. /\ d \in Seq(Messages) /\ Len(c) \in Nat /\ Len(t) \in Nat /\ Len(d) = Len(c) + Len(t)
      /\ \A i \in 1 .. Len(d) : d[i] = IF i <= Len(c) THEN c[i] ELSE t[i - Len(c)]
      /\ DOMAIN d = 1 .. Len(d) /\ DOMAIN c = 1 .. Len(c) /\ DOMAIN t = 1 .. Len(t)
      /\ Len(c) >= 1
  BY ConcatProperties DEF Shape
<1> HIDE DEF d
<1>2. ASSUME NEW i \in 1 .. Len(d), i <= Len(c)
      PROVE  i \in 1 .. Len(c) /\ d[i] = c[i]
  BY <1>1, <1>2
<1>3. ASSUME NEW i \in 1 .. Len(d), i > Len(c)
      PROVE  i - Len(c) \in 1 .. Len(t) /\ d[i] = t[i - Len(c)]
  BY <1>1, <1>3
<1>4. 1 \in 1 .. Len(d) /\ d[1] = c[1] /\ c[1].kind = "system"
  BY <1>1 DEF Shape
<1>5. ASSUME NEW i \in 1 .. Len(d), i > 1
      PROVE  d[i].kind # "system"
  <2>1. CASE i <= Len(c)
    BY <2>1, <1>2, <1>5 DEF Shape
  <2>2. CASE i > Len(c)
    BY <2>2, <1>3
  <2> QED BY <2>1, <2>2, <1>1
<1>6. ASSUME NEW i \in 1 .. Len(d)
      PROVE  d[i].round <= r
  <2>1. CASE i <= Len(c)
    BY <2>1, <1>2 DEF Bound
  <2>2. CASE i > Len(c)
    BY <2>2, <1>3
  <2> QED BY <2>1, <2>2, <1>1
<1>7. ASSUME NEW i \in 1 .. Len(d), NEW j \in 1 .. Len(d), i <= j
      PROVE  d[i].round <= d[j].round
  <2>1. CASE j > Len(c)
    BY <2>1, <1>3, <1>6
  <2>2. CASE j <= Len(c)
    <3>1. i <= Len(c)
      BY <2>2, <1>7, <1>1
    <3> QED BY <2>2, <3>1, <1>2, <1>7 DEF Shape
  <2> QED BY <2>1, <2>2, <1>1
<1>8. ASSUME NEW i \in 1 .. Len(d), d[i].kind = "user", d[i].round = -1
      PROVE  i = 2
  <2>1. CASE i <= Len(c)
    BY <2>1, <1>2, <1>8 DEF Shape
  <2>2. CASE i > Len(c)
    BY <2>2, <1>3, <1>8
  <2> QED BY <2>1, <2>2, <1>1
<1>9. ASSUME NEW i \in 1 .. Len(d), d[i].kind = "call"
      PROVE  i < Len(d) /\ d[i + 1].kind = "result" /\ d[i + 1].round = d[i].round
  <2>1. CASE i <= Len(c)
    <3>1. /\ i \in 1 .. Len(c) /\ d[i] = c[i]
          /\ i < Len(c) /\ c[i + 1].kind = "result" /\ c[i + 1].round = c[i].round
      BY <2>1, <1>1, <1>2, <1>9, ZenonT(60) DEF Shape, Whole
    <3>2. i + 1 \in 1 .. Len(d) /\ i + 1 <= Len(c) /\ i < Len(d)
      BY <3>1, <1>1
    <3>3. d[i + 1] = c[i + 1]
      BY <3>2, <1>2
    <3> QED BY <3>1, <3>2, <3>3
  <2>2. CASE i > Len(c)
    <3> DEFINE k == i - Len(c)
    <3>1. k \in 1 .. Len(t) /\ d[i] = t[k]
      BY <2>2, <1>3
    <3>2. k < Len(t) /\ t[k + 1].kind = "result" /\ t[k + 1].round = t[k].round
      BY <3>1, <1>1, <1>9 DEF Whole
    <3>3. i + 1 \in 1 .. Len(d) /\ i + 1 > Len(c) /\ i < Len(d) /\ (i + 1) - Len(c) = k + 1
      BY <3>2, <2>2, <1>1
    <3>4. d[i + 1] = t[k + 1]
      BY <3>3, <1>3
    <3> QED BY <3>1, <3>2, <3>3, <3>4
  <2> QED BY <2>1, <2>2, <1>1
<1>10. ASSUME NEW i \in 1 .. Len(d), d[i].kind = "result"
       PROVE  i > 1 /\ d[i - 1].kind = "call"
  <2>1. CASE i <= Len(c)
    <3>1. i \in 1 .. Len(c) /\ d[i] = c[i] /\ i > 1 /\ c[i - 1].kind = "call"
      BY <2>1, <1>1, <1>2, <1>10 DEF Shape, Whole
    <3>2. i - 1 \in 1 .. Len(d) /\ i - 1 <= Len(c)
      BY <3>1, <1>1
    <3> QED BY <3>1, <3>2, <1>2
  <2>2. CASE i > Len(c)
    <3> DEFINE k == i - Len(c)
    <3>1. k \in 1 .. Len(t) /\ d[i] = t[k]
      BY <2>2, <1>3
    <3>2. k > 1 /\ t[k - 1].kind = "call"
      BY <3>1, <1>1, <1>10 DEF Whole
    <3>3. i - 1 \in 1 .. Len(d) /\ i - 1 > Len(c) /\ i > 1 /\ (i - 1) - Len(c) = k - 1
      BY <3>2, <2>2, <1>1
    <3>4. d[i - 1] = t[k - 1]
      BY <3>3, <1>3
    <3> QED BY <3>2, <3>3, <3>4
  <2> QED BY <2>1, <2>2, <1>1
<1>11. Shape(d)
  BY <1>1, <1>4, <1>5, <1>7, <1>8, <1>9, <1>10 DEF Shape, Whole
<1>12. Bound(d, r)
  BY <1>6 DEF Bound
<1>13. ASSUME NEW i \in 1 .. Len(c), c[i].kind = "result"
       PROVE  \E j \in 1 .. Len(d) : d[j].kind = "result" /\ d[j].round >= c[i].round
  <2>1. i \in 1 .. Len(d) /\ i <= Len(c)
    BY <1>1
  <2>2. d[i] = c[i]
    BY <2>1, <1>2
  <2>3. d[i].round <= d[i].round
    BY <2>1, <1>7
  <2> QED BY <2>1, <2>2, <2>3, <1>13
<1>14. NewestKept(c, d)
  BY <1>1, <1>13 DEF NewestKept
<1> QED BY <1>11, <1>12, <1>14 DEF d

Conversing ==
  /\ Shape(conv) /\ round \in Nat /\ Bound(conv, round)
  /\ request # None => Whole(request.messages)

Remembered ==
  /\ stale \in Nat /\ Fresh(conv, stale)
  /\ pc = "handle" =>
       /\ request = [model |-> Model, tools |-> Offered, messages |-> WithoutStaleThinking(conv)]
       /\ response.kind = "calls" => response.size \in Nat
  /\ pc \in {"send", "handle"} /\ Synthesis => stale = Len(conv)

CInv == Conversing /\ Remembered

\* What RequestsAreWhole says of a step.
KeepsWhole ==
  /\ request' # None => Whole(request'.messages)
  /\ HasTask(conv) => NewestKept(conv, conv')

LEMMA KeepsItself ==
  ASSUME NEW c, Shape(c)
  PROVE  NewestKept(c, c)
<1>1. DOMAIN c = 1 .. Len(c)
  BY DEF Shape
<1>2. ASSUME NEW i \in 1 .. Len(c)
      PROVE  c[i].round >= c[i].round
  <2>1. i <= i
    BY DEF Shape
  <2>2. c[i].round <= c[i].round
    BY <2>1 DEF Shape
  <2> QED BY <2>2
<1> QED BY <1>1, <1>2 DEF NewestKept

LEMMA InitConverses == Init => CInv
<1> SUFFICES ASSUME Init PROVE CInv
  OBVIOUS
<1> DEFINE a == [kind |-> "system", round |-> -1, size |-> 1, think |-> None]
           b == [kind |-> "user", round |-> -1, size |-> setup.opening, think |-> None]
<1>1. /\ conv = <<a, b>> /\ setup.opening \in Nat
      /\ pc = "prepare" /\ round = 0 /\ stale = 0 /\ request = None
  BY ToolLoopAssumption DEF Init, Setups, ToolLoopAssumption
<1>2. a \in Messages /\ b \in Messages
  BY <1>1 DEF Messages, Kinds, Thoughts
<1>3. /\ a.kind = "system" /\ b.kind = "user" /\ a.round = -1 /\ b.round = -1
      /\ a.think = None /\ b.think = None
  OBVIOUS
<1> HIDE DEF a, b
<1>4. /\ conv \in Seq(Messages) /\ Len(conv) = 2 /\ conv[1] = a /\ conv[2] = b
      /\ DOMAIN conv = 1 .. 2
  BY <1>1, <1>2
<1>5. \A i \in 1 .. 2 : i = 1 \/ i = 2
  OBVIOUS
<1>6. Shape(conv)
  BY <1>3, <1>4, <1>5 DEF Shape, Whole
<1>7. Bound(conv, round)
  BY <1>1, <1>3, <1>4, <1>5 DEF Bound
<1>8. Fresh(conv, stale)
  BY <1>3, <1>4, <1>5 DEF Fresh
<1> QED BY <1>1, <1>6, <1>7, <1>8 DEF CInv, Conversing, Remembered

\* Steps that leave the conversation alone and send nothing.
LEMMA AsideConverses ==
  ASSUME CInv, UNCHANGED <<setup, conv, round, stale>>,
         pc' # "handle", pc' = "send" => pc \in {"send", "handle"},
         request' = None \/ request' = request
  PROVE  CInv' /\ KeepsWhole
<1>1. Synthesis' <=> Synthesis
  BY DEF Synthesis
<1>2. Conversing'
  BY DEF CInv, Conversing
<1>3. Remembered'
  BY <1>1 DEF CInv, Remembered
<1>4. NewestKept(conv, conv')
  BY KeepsItself DEF CInv, Conversing
<1>5. KeepsWhole
  BY <1>4 DEF KeepsWhole, CInv, Conversing
<1> QED BY <1>2, <1>3, <1>5 DEF CInv

LEMMA SendConverses == CInv /\ Send => CInv' /\ KeepsWhole
<1> SUFFICES ASSUME CInv, Send PROVE CInv' /\ KeepsWhole
  OBVIOUS
<1>1. /\ UNCHANGED <<setup, conv, round, attempt, pinned, stale>>
      /\ pc = "send" /\ pc' = "handle"
      /\ request' = [model |-> Model, tools |-> Offered, messages |-> WithoutStaleThinking(conv)]
      /\ response' \in Failures \cup Answers \cup Calls
  BY DEF Send
<1>2. Shape(conv) /\ conv \in Seq(Messages) /\ Whole(conv)
  BY DEF CInv, Conversing, Shape
<1>3. Whole(request'.messages)
  BY <1>1, <1>2, SentIsWhole
<1>4. Conversing'
  BY <1>1, <1>3 DEF CInv, Conversing
<1>5. Fresh(conv, stale)' /\ stale' \in Nat
  BY <1>1 DEF CInv, Remembered
<1>6. request' = [model |-> Model, tools |-> Offered, messages |-> WithoutStaleThinking(conv)]'
  BY <1>1 DEF Model, PlanFor, Offered, Synthesis, WithoutStaleThinking
<1>7. response'.kind = "calls" => response'.size \in Nat
  <2> SUFFICES ASSUME response'.kind = "calls" PROVE response'.size \in Nat
    OBVIOUS
  <2>1. response' \notin Failures
    BY DEF Failures
  <2>2. response' \notin Answers
    BY DEF Answers
  <2>3. response' \in Calls
    BY <1>1, <2>1, <2>2
  <2> QED BY <2>3, ToolLoopAssumption DEF Calls, ToolLoopAssumption
<1>8. Synthesis' => stale' = Len(conv')
  BY <1>1 DEF CInv, Remembered, Synthesis
<1>9. Remembered'
  BY <1>1, <1>5, <1>6, <1>7, <1>8 DEF Remembered
<1>10. NewestKept(conv, conv')
  BY <1>1, <1>2, KeepsItself
<1> QED BY <1>3, <1>4, <1>9, <1>10 DEF CInv, KeepsWhole

LEMMA MessageIs ==
  ASSUME round \in Nat, NEW kind \in Kinds, NEW size \in Nat
  PROVE  /\ Message(kind, size) \in Messages
         /\ Message(kind, size).kind = kind /\ Message(kind, size).round = round
         /\ Message(kind, size).think = None
BY DEF Message, Messages, Thoughts

\* One more user message.
LEMMA UserMessage ==
  ASSUME CInv
  PROVE  LET d == Append(conv, Message("user", 1)) IN
         /\ Shape(d) /\ Bound(d, round) /\ NewestKept(conv, d) /\ Fresh(d, stale)
         /\ HasTask(conv) => HasTask(d)
         /\ \A i \in 1 .. Len(conv) : i \in 1 .. Len(d) /\ d[i] = conv[i]
<1> DEFINE u == Message("user", 1)
<1>1. /\ Shape(conv) /\ round \in Nat /\ Bound(conv, round) /\ conv \in Seq(Messages)
      /\ stale \in Nat /\ Fresh(conv, stale) /\ DOMAIN conv = 1 .. Len(conv)
  BY DEF CInv, Conversing, Remembered, Shape
<1>2. u \in Messages /\ u.kind = "user" /\ u.round = round /\ u.think = None
  BY <1>1, MessageIs DEF Kinds
<1> HIDE DEF u
<1> DEFINE t == <<u>>
<1>3. t \in Seq(Messages) /\ Len(t) = 1 /\ t[1] = u /\ DOMAIN t = 1 .. 1
  BY <1>2
<1>4. Append(conv, u) = conv \o t
  <2>1. /\ Append(conv, u) \in Seq(Messages) /\ Len(Append(conv, u)) = Len(conv) + 1
        /\ \A i \in 1 .. Len(conv) + 1 : Append(conv, u)[i] = IF i <= Len(conv) THEN conv[i] ELSE u
    BY <1>1, <1>2
  <2>2. /\ conv \o t \in Seq(Messages) /\ Len(conv \o t) = Len(conv) + 1
        /\ \A i \in 1 .. Len(conv) + 1 : (conv \o t)[i] = IF i <= Len(conv) THEN conv[i] ELSE t[i - Len(conv)]
    BY <1>1, <1>3, ConcatProperties
  <2>3. \A i \in 1 .. Len(conv) + 1 : Append(conv, u)[i] = (conv \o t)[i]
    BY <2>1, <2>2, <1>1, <1>3
  <2> QED BY <2>1, <2>2, <2>3, SeqEqual
<1>5. \A i \in 1 .. Len(t) : i = 1
  BY <1>3
<1> HIDE DEF t
<1>6. Whole(t)
  BY <1>2, <1>3, <1>5 DEF Whole
<1>7. Shape(conv \o t) /\ Bound(conv \o t, round) /\ NewestKept(conv, conv \o t)
  BY <1>1, <1>2, <1>3, <1>5, <1>6, AppendingKeepsShape
<1>8. Fresh(conv \o t, stale)
  BY <1>1, <1>2, <1>3, <1>5, AppendingKeepsFresh
<1>9. \A i \in 1 .. Len(conv) : i \in 1 .. Len(conv \o t) /\ (conv \o t)[i] = conv[i]
  BY <1>1, <1>3, ConcatProperties
<1>10. ASSUME HasTask(conv)
       PROVE  HasTask(conv \o t)
  <2>1. DOMAIN (conv \o t) = 1 .. Len(conv \o t)
    BY <1>7 DEF Shape
  <2> QED BY <2>1, <1>1, <1>9, <1>10 DEF HasTask
<1> QED BY <1>4, <1>7, <1>8, <1>9, <1>10 DEF u

\* Truncation of an extended conversation, or of the conversation itself.
LEMMA TruncatingConverses ==
  ASSUME CInv, NEW c, Shape(c), Bound(c, round), NewestKept(conv, c),
         HasTask(conv) => HasTask(c), NEW d \in Truncated(c)
  PROVE  /\ Shape(d) /\ Bound(d, round)
         /\ HasTask(conv) => NewestKept(conv, d)
<1>1. /\ Shape(d)
      /\ HasTask(c) => NewestKept(c, d)
      /\ \A i \in 1 .. Len(d) : \E p \in 1 .. Len(c) : d[i].round = c[p].round
  BY TruncationKeeps
<1>2. Bound(d, round)
  BY <1>1 DEF Bound
<1>3. ASSUME HasTask(conv)
      PROVE  NewestKept(conv, d)
  <2>1. NewestKept(c, d)
    BY <1>1, <1>3
  <2> SUFFICES ASSUME NEW i \in DOMAIN conv, conv[i].kind = "result"
               PROVE  \E j \in DOMAIN d : d[j].kind = "result" /\ d[j].round >= conv[i].round
    BY DEF NewestKept
  <2>2. PICK k \in DOMAIN c : c[k].kind = "result" /\ c[k].round >= conv[i].round
    BY DEF NewestKept
  <2>3. PICK j \in DOMAIN d : d[j].kind = "result" /\ d[j].round >= c[k].round
    BY <2>1, <2>2 DEF NewestKept
  <2>4. conv[i] \in Messages /\ c[k] \in Messages /\ d[j] \in Messages
    <3>1. conv \in Seq(Messages) /\ c \in Seq(Messages) /\ d \in Seq(Messages)
      BY <1>1 DEF Shape, CInv, Conversing
    <3> QED BY <3>1
  <2>5. conv[i].round \in Int /\ c[k].round \in Int /\ d[j].round \in Int
    BY <2>4 DEF Messages
  <2> QED BY <2>2, <2>3, <2>5
<1> QED BY <1>1, <1>2, <1>3

LEMMA PrepareConverses == CInv /\ Prepare => CInv' /\ KeepsWhole
<1> SUFFICES ASSUME CInv, Prepare PROVE CInv' /\ KeepsWhole
  OBVIOUS
<1>1. /\ conv' \in Truncated(conv) /\ stale' = StaleAfter(conv, conv')
      /\ pc' = "send" /\ round' = round /\ request' = request /\ round # MaxRounds
  BY DEF Prepare, Synthesis
<1>2. Shape(conv) /\ Bound(conv, round) /\ round \in Nat /\ stale \in Nat /\ Fresh(conv, stale)
  BY DEF CInv, Conversing, Remembered
<1>3. /\ Shape(conv') /\ Bound(conv', round)
      /\ HasTask(conv) => NewestKept(conv, conv')
  BY <1>1, <1>2, KeepsItself, TruncatingConverses
<1>4. Conversing'
  BY <1>1, <1>2, <1>3 DEF CInv, Conversing
<1>5. stale' \in Nat /\ Fresh(conv', stale')
  <2>1. CASE conv' = conv
    BY <1>1, <1>2, <2>1 DEF StaleAfter
  <2>2. CASE conv' # conv
    <3>1. stale' = Len(conv') /\ Len(conv') \in Nat
      BY <1>1, <1>3, <2>2 DEF StaleAfter, Shape
    <3> QED BY <3>1 DEF Fresh
  <2> QED BY <2>1, <2>2
<1>6. Remembered'
  BY <1>1, <1>5 DEF Remembered, Synthesis
<1>7. KeepsWhole
  BY <1>1, <1>3 DEF KeepsWhole, CInv, Conversing
<1> QED BY <1>4, <1>6, <1>7 DEF CInv

LEMMA SynthesizeConverses == CInv /\ Synthesize => CInv' /\ KeepsWhole
<1> SUFFICES ASSUME CInv, Synthesize PROVE CInv' /\ KeepsWhole
  OBVIOUS
<1> DEFINE c == Append(conv, Message("user", 1))
<1>1. /\ conv' \in Truncated(c) /\ stale' = Len(conv')
      /\ pc' = "send" /\ round' = round /\ request' = request
  BY DEF Synthesize
<1>2. /\ Shape(c) /\ Bound(c, round) /\ NewestKept(conv, c)
      /\ HasTask(conv) => HasTask(c)
  BY UserMessage
<1> HIDE DEF c
<1>3. /\ Shape(conv') /\ Bound(conv', round)
      /\ HasTask(conv) => NewestKept(conv, conv')
  BY <1>1, <1>2, TruncatingConverses
<1>4. Conversing'
  BY <1>1, <1>3 DEF CInv, Conversing
<1>5. stale' \in Nat /\ Fresh(conv', stale')
  BY <1>1, <1>3 DEF Fresh, Shape
<1>6. Remembered'
  BY <1>1, <1>5 DEF Remembered
<1>7. KeepsWhole
  BY <1>1, <1>3 DEF KeepsWhole, CInv, Conversing
<1> QED BY <1>4, <1>6, <1>7 DEF CInv

LEMMA NudgeConverses ==
  ASSUME CInv, Nudge, round' = round + 1, stale' = stale, pc' = "prepare", request' = None
  PROVE  CInv' /\ KeepsWhole
<1> DEFINE c == Append(conv, Message("user", 1))
<1>1. Shape(c) /\ Bound(c, round) /\ NewestKept(conv, c) /\ Fresh(c, stale)
  BY UserMessage
<1>2. conv' = c /\ round \in Nat /\ stale \in Nat
  BY DEF Nudge, CInv, Conversing, Remembered
<1> HIDE DEF c
<1>3. Bound(c, round + 1)
  <2>1. \A i \in 1 .. Len(c) : c[i] \in Messages
    BY <1>1 DEF Shape
  <2>2. \A i \in 1 .. Len(c) : c[i].round \in Int
    BY <2>1 DEF Messages
  <2> QED BY <2>2, <1>1, <1>2 DEF Bound
<1>4. Conversing'
  BY <1>1, <1>2, <1>3 DEF Conversing
<1>5. Remembered'
  BY <1>1, <1>2 DEF Remembered
<1>6. KeepsWhole
  BY <1>1, <1>2 DEF KeepsWhole
<1> QED BY <1>4, <1>5, <1>6 DEF CInv

\* A call that carries what the model saw, its results, and the budget line.
LEMMA ToolRoundConverses == CInv /\ ToolRound => CInv' /\ KeepsWhole
<1> SUFFICES ASSUME CInv, ToolRound PROVE CInv' /\ KeepsWhole
  OBVIOUS
<1> DEFINE thought == [under |-> Said(request.messages), tools |-> request.tools]
           m == Message("call", 1)
           a == [m EXCEPT !.think = thought]
           b == Message("result", response.size)
           u == Message("user", 1)
           last == IF setup.budgetLine THEN <<u>> ELSE <<>>
           t == <<a, b>> \o last
<1>1. /\ pc = "handle" /\ pc' = "prepare" /\ ~ Synthesis /\ response.kind = "calls"
      /\ conv' = (conv \o <<a, b>>) \o last
      /\ round' = round + 1 /\ stale' = stale /\ request' = None
  BY DEF ToolRound, NextRound, Handled
<1>2. /\ Shape(conv) /\ Bound(conv, round) /\ conv \in Seq(Messages) /\ Len(conv) \in Nat
      /\ round \in Nat /\ stale \in Nat /\ Fresh(conv, stale)
      /\ response.size \in Nat
      /\ request = [model |-> Model, tools |-> Offered, messages |-> WithoutStaleThinking(conv)]
  BY <1>1 DEF CInv, Conversing, Remembered, Shape
<1>3. /\ thought.tools = "all" /\ thought.under = Said(conv)
      /\ thought \in Thoughts
  <2>1. request.tools = "all" /\ request.messages = WithoutStaleThinking(conv)
    BY <1>1, <1>2 DEF Offered
  <2>2. Len(conv) \in 0 .. Len(conv)
    BY <1>2
  <2>3. Said(SubSeq(WithoutStaleThinking(conv), 1, Len(conv))) = Said(SubSeq(conv, 1, Len(conv)))
    BY <1>2, <2>2, SentSaysTheSame
  <2>4. /\ WithoutStaleThinking(conv) \in Seq(Messages)
        /\ Len(WithoutStaleThinking(conv)) = Len(conv)
    BY <1>2, SentIs
  <2>5. /\ SubSeq(WithoutStaleThinking(conv), 1, Len(conv)) = WithoutStaleThinking(conv)
        /\ SubSeq(conv, 1, Len(conv)) = conv
    BY <1>2, <2>4, SubSeqFull
  <2>6. Said(request.messages) = Said(conv)
    BY <2>1, <2>3, <2>5
  <2>7. Said(conv) \in Seq(Plain)
    BY <1>2, SaidIs
  <2> QED BY <2>1, <2>6, <2>7 DEF Thoughts
<1> HIDE DEF thought
<1>4. /\ m \in Messages /\ m.kind = "call" /\ m.round = round
      /\ b \in Messages /\ b.kind = "result" /\ b.round = round /\ b.think = None
      /\ u \in Messages /\ u.kind = "user" /\ u.round = round /\ u.think = None
  BY <1>2, MessageIs DEF Kinds
<1> HIDE DEF m, b, u
<1>5. a \in Messages /\ a.kind = "call" /\ a.round = round /\ a.think = thought
  BY <1>3, <1>4 DEF Messages
<1> HIDE DEF a
<1>6. <<a, b>> \in Seq(Messages) /\ Len(<<a, b>>) = 2 /\ last \in Seq(Messages)
  BY <1>4, <1>5
<1>7. /\ t \in Seq(Messages) /\ Len(t) \in {2, 3} /\ DOMAIN t = 1 .. Len(t)
      /\ t[1] = a /\ t[2] = b
      /\ Len(t) = 3 => t[3] = u
  <2>1. CASE setup.budgetLine
    <3>1. last = <<u>> /\ Len(last) = 1 /\ last[1] = u
      BY <2>1
    <3> HIDE DEF last
    <3>2. /\ t \in Seq(Messages) /\ Len(t) = 2 + 1
          /\ \A i \in 1 .. 2 + 1 : t[i] = IF i <= 2 THEN <<a, b>>[i] ELSE last[i - 2]
      BY <1>6, <3>1, ConcatProperties
    <3> HIDE DEF t
    <3>3. t[1] = <<a, b>>[1] /\ t[2] = <<a, b>>[2] /\ t[3] = last[1]
      BY <3>2
    <3> QED BY <3>1, <3>2, <3>3
  <2>2. CASE ~ setup.budgetLine
    <3>1. t = <<a, b>>
      BY <2>2, <1>6, ConcatEmptySeq
    <3> HIDE DEF t
    <3> QED BY <3>1, <1>6
  <2> QED BY <2>1, <2>2
<1>8. conv' = conv \o t
  BY <1>1, <1>2, <1>6, ConcatAssociative
<1> HIDE DEF last, t
<1>9. \A i \in 1 .. Len(t) : i = 1 \/ i = 2 \/ (i = 3 /\ Len(t) = 3)
  BY <1>7
<1>10. Whole(t)
  BY <1>4, <1>5, <1>7, <1>9 DEF Whole
<1>11. \A i \in 1 .. Len(t) : t[i].round = round /\ t[i].kind # "system"
  BY <1>4, <1>5, <1>7, <1>9
<1>12. Shape(conv \o t) /\ Bound(conv \o t, round) /\ NewestKept(conv, conv \o t)
  BY <1>2, <1>7, <1>10, <1>11, AppendingKeepsShape
<1>13. Fresh(conv \o t, stale)
  <2>1. SubSeq(conv \o t, 1, Len(conv)) = conv
    <3>1. Len(conv) \in 0 .. Len(conv)
      BY <1>2
    <3> QED BY <3>1, <1>2, <1>7, PrefixOfConcat, SubSeqFull
  <2>2. ASSUME NEW i \in 1 .. Len(t), t[i].think # None
        PROVE  /\ t[i].think.under = Said(SubSeq(conv \o t, 1, Len(conv) + i - 1))
               /\ t[i].think.tools = "all"
    <3>1. i = 1 /\ t[i] = a
      BY <1>4, <1>7, <1>9, <2>2
    <3>2. Len(conv) + i - 1 = Len(conv)
      BY <3>1, <1>2
    <3> QED BY <3>1, <3>2, <2>1, <1>3, <1>5
  <2> QED BY <2>2, <1>2, <1>7, AppendingKeepsFresh
<1>14. Bound(conv \o t, round + 1)
  <2> DEFINE d == conv \o t
  <2>1. \A i \in 1 .. Len(d) : d[i] \in Messages /\ d[i].round <= round
    BY <1>12 DEF Shape, Bound
  <2> HIDE DEF d
  <2>2. \A i \in 1 .. Len(d) : d[i].round \in Int
    BY <2>1 DEF Messages
  <2>3. Bound(d, round + 1)
    BY <2>1, <2>2, <1>2 DEF Bound
  <2> QED BY <2>3 DEF d
<1>15. Conversing'
  <2>1. round' \in Nat /\ round' = round + 1 /\ request' = None
    BY <1>1, <1>2
  <2>2. Shape(conv') /\ Bound(conv', round')
    BY <2>1, <1>8, <1>12, <1>14
  <2> QED BY <2>1, <2>2 DEF Conversing
<1>16. Remembered'
  BY <1>1, <1>2, <1>8, <1>13 DEF Remembered
<1>17. KeepsWhole
  BY <1>1, <1>8, <1>12 DEF KeepsWhole
<1> QED BY <1>15, <1>16, <1>17 DEF CInv

LEMMA StepConverses == CInv /\ [Next]_vars => CInv' /\ KeepsWhole
<1> SUFFICES ASSUME CInv, [Next]_vars PROVE CInv' /\ KeepsWhole
  OBVIOUS
<1>1. CASE Prepare
  BY <1>1, PrepareConverses
<1>2. CASE Send
  BY <1>2, SendConverses
<1>3. CASE Retry
  BY <1>3, AsideConverses DEF Retry, Handled
<1>4. CASE GiveUp
  BY <1>4, AsideConverses DEF GiveUp, Handled
<1>5. CASE GateNudge
  BY <1>5, NudgeConverses DEF GateNudge, NextRound, Handled
<1>6. CASE EmptyNudge
  BY <1>6, NudgeConverses DEF EmptyNudge, NextRound, Handled
<1>7. CASE Answer
  BY <1>7, AsideConverses DEF Answer
<1>8. CASE ToolRound
  BY <1>8, ToolRoundConverses
<1>9. CASE Synthesize
  BY <1>9, SynthesizeConverses
<1>10. CASE Finish
  <2>1. pc' # "handle" /\ pc' # "send" /\ request' = request /\ UNCHANGED <<setup, conv, round, stale>>
    BY <1>10 DEF Finish
  <2> QED BY <2>1, AsideConverses
<1>11. CASE UNCHANGED vars
  <2>1. CInv'
    BY <1>11 DEF vars, CInv, Conversing, Remembered, Synthesis, Model, PlanFor, Offered,
                 WithoutStaleThinking
  <2>2. NewestKept(conv, conv')
    BY <1>11, KeepsItself DEF vars, CInv, Conversing
  <2>3. KeepsWhole
    BY <1>11, <2>2 DEF vars, KeepsWhole, CInv, Conversing
  <2> QED BY <2>1, <2>3
<1>12. CASE Over
  BY <1>12, <1>11 DEF Over
<1> QED BY <1>1, <1>2, <1>3, <1>4, <1>5, <1>6, <1>7, <1>8, <1>9, <1>10, <1>11, <1>12 DEF Next

\* Every request replays each call directly followed by its results, and a step
\* never loses the newest results of a conversation that still has its task,
\* for every window, budget and size of message.
THEOREM RequestsAreWholeHolds == Spec => RequestsAreWhole
<1>1. Init => CInv
  BY InitConverses
<1>2. CInv /\ [Next]_vars => CInv'
  BY StepConverses
<1>3. CInv /\ [Next]_vars =>
        [/\ request' # None => Whole(request'.messages)
         /\ HasTask(conv) => \A i \in DOMAIN conv : conv[i].kind = "result" =>
              \E j \in DOMAIN conv' : conv'[j].kind = "result" /\ conv'[j].round >= conv[i].round]_vars
  BY StepConverses DEF KeepsWhole, NewestKept
<1> QED BY <1>1, <1>2, <1>3, PTL DEF Spec, RequestsAreWhole

LEMMA FreshIsKept == CInv => PrefixKept
<1> SUFFICES ASSUME CInv, pc = "handle", request.model = setup.preserving,
                    NEW i \in DOMAIN request.messages, request.messages[i].think # None
             PROVE  /\ request.messages[i].think.under = Said(SubSeq(request.messages, 1, i - 1))
                    /\ request.messages[i].think.tools = request.tools
  BY DEF PrefixKept
<1> DEFINE w == WithoutStaleThinking(conv)
<1>1. /\ request = [model |-> Model, tools |-> Offered, messages |-> w]
      /\ conv \in Seq(Messages) /\ Len(conv) \in Nat /\ stale \in Nat /\ Fresh(conv, stale)
      /\ Synthesis => stale = Len(conv)
  BY DEF CInv, Conversing, Remembered, Shape
<1>2. request.messages = w /\ request.tools = Offered /\ Model = setup.preserving
  BY <1>1
<1>3. /\ w \in Seq(Messages) /\ Len(w) = Len(conv)
      /\ \A j \in 1 .. Len(conv) :
           /\ j <= stale => w[j].think = None
           /\ ~ (j <= stale) => w[j].think = conv[j].think
  BY <1>1, <1>2, SentIs
<1>4. \A n \in 0 .. Len(conv) : Said(SubSeq(w, 1, n)) = Said(SubSeq(conv, 1, n))
  BY <1>1, SentSaysTheSame
<1> HIDE DEF w
<1>5. i \in 1 .. Len(conv) /\ w[i].think # None
  BY <1>2, <1>3
<1>6. i > stale /\ w[i].think = conv[i].think
  BY <1>3, <1>5, <1>1
<1>7. conv[i].think.under = Said(SubSeq(conv, 1, i - 1)) /\ conv[i].think.tools = "all"
  BY <1>1, <1>5, <1>6 DEF Fresh
<1>8. i - 1 \in 0 .. Len(conv)
  BY <1>1, <1>5
<1>9. Offered = "all"
  <2>1. ~ Synthesis
    BY <1>1, <1>5, <1>6
  <2> QED BY <2>1 DEF Offered
<1> QED BY <1>2, <1>4, <1>6, <1>7, <1>8, <1>9

\* A model that preserves thinking only sees thinking again after the messages
\* and under the tools it was produced with, for every length of a run.
THEOREM PrefixKeptHolds == Spec => []PrefixKept
<1>1. Init => CInv
  BY InitConverses
<1>2. CInv /\ [Next]_vars => CInv'
  BY StepConverses
<1> QED BY <1>1, <1>2, FreshIsKept, PTL DEF Spec

-----------------------------------------------------------------------------
(* Sizes. *)

LEMMA LeastOf ==
  ASSUME NEW S \in SUBSET Nat, S # {}
  PROVE  \E i \in S : \A j \in S : i <= j
<1>1. PICK i \in S : \A j \in S : ~ (<<j, i>> \in OpToRel(<, Nat))
  BY NatLessThanWellFounded, WFMin
<1>2. \A j \in S : ~ (j < i)
  BY <1>1 DEF OpToRel
<1> QED BY <1>2

IsSums(f, c, k) ==
  /\ f \in [0 .. k -> Nat] /\ f[0] = 0
  /\ \A n \in 1 .. k : f[n] = f[n - 1] + c[n].size

Sums(c) == CHOOSE f : f = [n \in 0 .. Len(c) |-> IF n = 0 THEN 0 ELSE f[n - 1] + c[n].size]

LEMMA SumsExist ==
  ASSUME NEW c \in Seq(Messages)
  PROVE  \E f : IsSums(f, c, Len(c))
<1> DEFINE bad == {k \in 0 .. Len(c) : ~ \E f : IsSums(f, c, k)}
<1>0. Len(c) \in Nat
  OBVIOUS
<1>1. ASSUME NEW n \in 1 .. Len(c)
      PROVE  c[n].size \in Nat
  <2>1. c[n] \in Messages
    OBVIOUS
  <2> QED BY <2>1 DEF Messages
<1>2. SUFFICES ASSUME bad # {} PROVE FALSE
  <2>1. Len(c) \in 0 .. Len(c)
    BY <1>0
  <2> QED BY <2>1
<1>3. bad \in SUBSET Nat
  OBVIOUS
<1>4. PICK k \in bad : \A j \in bad : k <= j
  <2> HIDE DEF bad
  <2> QED BY <1>2, <1>3, LeastOf
<1>5. CASE k = 0
  <2> DEFINE f == [i \in 0 .. 0 |-> 0]
  <2>1. f \in [0 .. 0 -> Nat] /\ f[0] = 0 /\ \A n \in 1 .. 0 : FALSE
    OBVIOUS
  <2> HIDE DEF f
  <2>2. IsSums(f, c, 0)
    BY <2>1 DEF IsSums
  <2> QED BY <2>2, <1>5
<1>6. CASE k # 0
  <2>1. k \in 1 .. Len(c) /\ k - 1 \in 0 .. Len(c) /\ k - 1 \notin bad
    BY <1>0, <1>3, <1>4, <1>6
  <2>2. PICK g : IsSums(g, c, k - 1)
    BY <2>1
  <2>3. ~ \E f : IsSums(f, c, k)
    OBVIOUS
  <2> HIDE DEF bad
  <2> DEFINE f == [i \in 0 .. k |-> IF i = k THEN g[k - 1] + c[k].size ELSE g[i]]
  <2>4. g \in [0 .. k - 1 -> Nat] /\ g[0] = 0 /\ c[k].size \in Nat /\ k \in Nat /\ k >= 1
    BY <1>1, <2>1, <2>2 DEF IsSums
  <2>5. ASSUME NEW i \in 0 .. k, i # k
        PROVE  f[i] = g[i] /\ g[i] \in Nat
    <3>1. i \in 0 .. k - 1
      BY <2>4, <2>5
    <3> QED BY <3>1, <2>4, <2>5
  <2>6. f[k] = g[k - 1] + c[k].size /\ g[k - 1] \in Nat
    <3>1. k \in 0 .. k /\ k - 1 \in 0 .. k - 1
      BY <2>4
    <3> QED BY <3>1, <2>4
  <2>7. f = [i \in 0 .. k |-> f[i]]
    OBVIOUS
  <2> HIDE DEF f
  <2>8. f \in [0 .. k -> Nat]
    <3>1. \A i \in 0 .. k : f[i] \in Nat
      BY <2>4, <2>5, <2>6
    <3> QED BY <3>1, <2>7
  <2>9. f[0] = 0
    <3>1. 0 \in 0 .. k /\ 0 # k
      BY <2>4
    <3> QED BY <3>1, <2>4, <2>5
  <2>10. ASSUME NEW n \in 1 .. k
         PROVE  f[n] = f[n - 1] + c[n].size
    <3>1. n - 1 \in 0 .. k /\ n - 1 # k
      BY <2>4
    <3>2. f[n - 1] = g[n - 1]
      BY <3>1, <2>5
    <3>3. CASE n = k
      BY <3>2, <3>3, <2>6
    <3>4. CASE n # k
      <4>1. n \in 1 .. k - 1 /\ n \in 0 .. k
        BY <2>4, <3>4
      <4>2. g[n] = g[n - 1] + c[n].size
        BY <4>1, <2>2 DEF IsSums
      <4> QED BY <4>1, <4>2, <3>2, <3>4, <2>5
    <3> QED BY <3>3, <3>4
  <2>11. IsSums(f, c, k)
    BY <2>8, <2>9, <2>10 DEF IsSums
  <2> QED BY <2>3, <2>11
<1> QED BY <1>5, <1>6

LEMMA SumsAre ==
  ASSUME NEW c \in Seq(Messages)
  PROVE  IsSums(Sums(c), c, Len(c)) /\ Size(c) = Sums(c)[Len(c)]
<1>0. Len(c) \in Nat
  OBVIOUS
<1>1. ASSUME NEW n \in 1 .. Len(c)
      PROVE  c[n].size \in Nat
  <2>1. c[n] \in Messages
    OBVIOUS
  <2> QED BY <2>1 DEF Messages
<1>2. PICK g : IsSums(g, c, Len(c))
  BY SumsExist
<1>3. g = [n \in 0 .. Len(c) |-> IF n = 0 THEN 0 ELSE g[n - 1] + c[n].size]
  <2>1. g = [n \in 0 .. Len(c) |-> g[n]]
    BY <1>2 DEF IsSums
  <2>2. ASSUME NEW n \in 0 .. Len(c)
        PROVE  g[n] = IF n = 0 THEN 0 ELSE g[n - 1] + c[n].size
    <3>1. CASE n = 0
      BY <3>1, <1>2 DEF IsSums
    <3>2. CASE n # 0
      <4>1. n \in 1 .. Len(c)
        BY <1>0, <3>2
      <4> QED BY <4>1, <3>2, <1>2 DEF IsSums
    <3> QED BY <3>1, <3>2
  <2> QED BY <2>1, <2>2
<1> DEFINE f == Sums(c)
<1>4. f = [n \in 0 .. Len(c) |-> IF n = 0 THEN 0 ELSE f[n - 1] + c[n].size]
  BY <1>3 DEF Sums
<1> HIDE DEF f
<1>5. /\ DOMAIN f = 0 .. Len(c) /\ f[0] = 0
      /\ \A n \in 1 .. Len(c) : f[n] = f[n - 1] + c[n].size
  <2>1. f[0] = 0
    <3>1. 0 \in 0 .. Len(c)
      BY <1>0
    <3> QED BY <3>1, <1>4
  <2>2. ASSUME NEW n \in 1 .. Len(c)
        PROVE  f[n] = f[n - 1] + c[n].size
    <3>1. n \in 0 .. Len(c) /\ n # 0
      BY <1>0
    <3> QED BY <3>1, <1>4
  <2>3. DOMAIN f = 0 .. Len(c)
    BY <1>4
  <2> QED BY <2>1, <2>2, <2>3
<1>6. \A n \in 0 .. Len(c) : f[n] \in Nat
  <2> DEFINE bad == {n \in 0 .. Len(c) : f[n] \notin Nat}
  <2>1. SUFFICES ASSUME bad # {} PROVE FALSE
    OBVIOUS
  <2>2. bad \in SUBSET Nat
    OBVIOUS
  <2>3. PICK n \in bad : \A j \in bad : n <= j
    <3> HIDE DEF bad
    <3> QED BY <2>1, <2>2, LeastOf
  <2>4. n # 0 /\ n \in 0 .. Len(c) /\ f[n] \notin Nat
    BY <1>5
  <2>5. n \in 1 .. Len(c) /\ n - 1 \in 0 .. Len(c)
    BY <2>4, <1>0
  <2>6. f[n - 1] \in Nat
    <3>1. n - 1 \notin bad
      <4>1. ~ (n <= n - 1)
        BY <2>5
      <4> HIDE DEF bad
      <4> QED BY <4>1, <2>3
    <3> QED BY <3>1, <2>5
  <2>7. f[n] = f[n - 1] + c[n].size /\ c[n].size \in Nat
    BY <2>5, <1>5, <1>1
  <2> QED BY <2>4, <2>6, <2>7
<1>7. f = [n \in 0 .. Len(c) |-> f[n]]
  <2>1. f = [n \in 0 .. Len(c) |-> IF n = 0 THEN 0 ELSE f[n - 1] + c[n].size]
    BY <1>4
  <2> QED BY <2>1
<1>8. IsSums(f, c, Len(c))
  BY <1>5, <1>6, <1>7 DEF IsSums
<1>9. Size(c) = f[Len(c)]
  BY DEF Size, f, Sums
<1> QED BY <1>8, <1>9 DEF f

LEMMA SizeIsNat ==
  ASSUME NEW c \in Seq(Messages)
  PROVE  Size(c) \in Nat
<1>1. Len(c) \in 0 .. Len(c)
  OBVIOUS
<1>2. Sums(c) \in [0 .. Len(c) -> Nat] /\ Size(c) = Sums(c)[Len(c)]
  BY SumsAre DEF IsSums
<1> QED BY <1>1, <1>2

LEMMA SizeOfSame ==
  ASSUME NEW c \in Seq(Messages), NEW d \in Seq(Messages), Len(c) = Len(d),
         \A i \in 1 .. Len(c) : c[i].size = d[i].size
  PROVE  Size(c) = Size(d)
<1> DEFINE f == Sums(c)
           g == Sums(d)
           bad == {n \in 0 .. Len(c) : f[n] # g[n]}
<1>0. Len(c) \in Nat
  OBVIOUS
<1>1. /\ IsSums(f, c, Len(c)) /\ Size(c) = f[Len(c)]
      /\ IsSums(g, d, Len(c)) /\ Size(d) = g[Len(c)]
  BY SumsAre
<1> HIDE DEF f, g
<1>2. SUFFICES ASSUME bad # {} PROVE FALSE
  <2>1. Len(c) \in 0 .. Len(c)
    BY <1>0
  <2> QED BY <2>1, <1>1
<1>3. bad \in SUBSET Nat
  OBVIOUS
<1>4. PICK n \in bad : \A j \in bad : n <= j
  <2> HIDE DEF bad
  <2> QED BY <1>2, <1>3, LeastOf
<1>5. n # 0 /\ n \in 0 .. Len(c) /\ f[n] # g[n]
  BY <1>1 DEF IsSums
<1>6. n \in 1 .. Len(c) /\ n - 1 \in 0 .. Len(c)
  BY <1>5, <1>0
<1>7. n - 1 \notin bad
  <2>1. ~ (n <= n - 1)
    BY <1>6
  <2> HIDE DEF bad
  <2> QED BY <2>1, <1>4
<1>8. f[n - 1] = g[n - 1]
  BY <1>6, <1>7
<1> QED BY <1>1, <1>5, <1>6, <1>8 DEF IsSums

LEMMA SizeOfCons ==
  ASSUME NEW m \in Messages, NEW t \in Seq(Messages)
  PROVE  Size(<<m>> \o t) = m.size + Size(t)
<1> DEFINE d == <<m>> \o t
           f == Sums(d)
           g == Sums(t)
           bad == {n \in 0 .. Len(t) : f[n + 1] # m.size + g[n]}
<1>0. /\ Len(t) \in Nat /\ m.size \in Nat
      /\ d \in Seq(Messages) /\ Len(d) = Len(t) + 1
      /\ \A i \in 1 .. Len(t) + 1 : d[i] = IF i = 1 THEN m ELSE t[i - 1]
  <2>1. <<m>> \in Seq(Messages) /\ Len(<<m>>) = 1 /\ <<m>>[1] = m
    OBVIOUS
  <2>2. /\ d \in Seq(Messages) /\ Len(d) = 1 + Len(t)
        /\ \A i \in 1 .. 1 + Len(t) : d[i] = IF i <= 1 THEN <<m>>[i] ELSE t[i - 1]
    BY <2>1, ConcatProperties
  <2> QED BY <2>1, <2>2 DEF Messages
<1> HIDE DEF d
<1>1. /\ IsSums(f, d, Len(t) + 1) /\ Size(d) = f[Len(t) + 1]
      /\ IsSums(g, t, Len(t)) /\ Size(t) = g[Len(t)]
  BY <1>0, SumsAre
<1> HIDE DEF f, g
<1>2. SUFFICES ASSUME bad # {} PROVE FALSE
  <2>1. Len(t) \in 0 .. Len(t)
    BY <1>0
  <2>2. f[Len(t) + 1] = m.size + g[Len(t)]
    BY <2>1
  <2> QED BY <2>2, <1>1 DEF d
<1>3. bad \in SUBSET Nat
  OBVIOUS
<1>4. PICK n \in bad : \A j \in bad : n <= j
  <2> HIDE DEF bad
  <2> QED BY <1>2, <1>3, LeastOf
<1>5. n # 0
  <2>1. f[1] = f[0] + d[1].size /\ f[0] = 0 /\ g[0] = 0 /\ d[1] = m
    <3>1. 1 \in 1 .. Len(t) + 1 /\ 1 - 1 = 0
      BY <1>0
    <3> QED BY <3>1, <1>0, <1>1 DEF IsSums
  <2>2. f[0 + 1] = m.size + g[0]
    BY <2>1, <1>0
  <2> QED BY <2>2
<1>6. n \in 1 .. Len(t) /\ n - 1 \in 0 .. Len(t) /\ n + 1 \in 1 .. Len(t) + 1
      /\ (n - 1) + 1 = n /\ (n + 1) - 1 = n /\ n + 1 # 1
  BY <1>5, <1>0
<1>7. n - 1 \notin bad
  <2>1. ~ (n <= n - 1)
    BY <1>6
  <2> HIDE DEF bad
  <2> QED BY <2>1, <1>4
<1>8. f[n] = m.size + g[n - 1]
  BY <1>6, <1>7
<1>9. f[n + 1] = f[n] + d[n + 1].size /\ d[n + 1] = t[n]
  BY <1>0, <1>1, <1>6 DEF IsSums
<1>10. g[n] = g[n - 1] + t[n].size /\ g[n - 1] \in Nat
  BY <1>1, <1>6 DEF IsSums
<1>11. t[n].size \in Nat
  <2>1. t[n] \in Messages
    BY <1>6
  <2> QED BY <2>1 DEF Messages
<1>12. f[n + 1] = m.size + g[n]
  BY <1>0, <1>8, <1>9, <1>10, <1>11
<1> QED BY <1>12

LEMMA SizeOfNone == Size(<<>>) = 0
<1>1. <<>> \in Seq(Messages) /\ Len(<<>>) = 0
  OBVIOUS
<1>2. Sums(<<>>)[0] = 0 /\ Size(<<>>) = Sums(<<>>)[0]
  BY <1>1, SumsAre DEF IsSums
<1> QED BY <1>2

-----------------------------------------------------------------------------
(* Requests fit. *)

\* A clipped sequence fits, or every result it keeps is as small as can be and
\* there was nothing else to choose.
LEMMA ClippedFits ==
  ASSUME NEW c \in Seq(Messages), NEW kept \in SUBSET (1 .. Len(c)), NEW room,
         NEW d \in Clipped(c, kept, room)
  PROVE  \/ Size(d) <= room
         \/ /\ Clipped(c, kept, room) = {d}
            /\ \E e : /\ Alike(c, e) /\ d = Pick(e, kept)
                      /\ \A p \in kept : e[p].kind = "result" => e[p].size <= Floor
<1> DEFINE bulky     == {i \in kept : Cut(c[i], Floor) # c[i]}
           cut(some) == [i \in DOMAIN c |-> IF i \in some THEN Cut(c[i], Floor) ELSE c[i]]
           fitting   == {some \in SUBSET bulky : SizeOf(cut(some), kept) <= room}
           fewest    == {some \in fitting : \A i \in some : some \ {i} \notin fitting}
<1>1. Clipped(c, kept, room)
        = {Pick(cut(some), kept) : some \in IF fitting = {} THEN {bulky} ELSE fewest}
  BY DEF Clipped
<1>2. CASE fitting # {}
  <2>1. PICK some \in fitting : d = Pick(cut(some), kept)
    BY <1>1, <1>2
  <2>2. SizeOf(cut(some), kept) <= room
    BY <2>1
  <2> QED BY <2>1, <2>2 DEF SizeOf
<1>3. CASE fitting = {}
  <2> DEFINE e == cut(bulky)
  <2>1. Clipped(c, kept, room) = {Pick(e, kept)}
    BY <1>1, <1>3
  <2>2. d = Pick(e, kept)
    BY <2>1
  <2>3. Floor \in Nat /\ Floor \in Int
    BY ToolLoopAssumption DEF ToolLoopAssumption
  <2>4. Alike(c, e)
    <3>1. \A some : Alike(c, cut(some))
      BY <2>3, CuttingSome
    <3> HIDE DEF cut, bulky
    <3> QED BY <3>1
  <2>5. ASSUME NEW p \in kept, e[p].kind = "result"
        PROVE  e[p].size <= Floor
    <3>1. p \in 1 .. Len(c) /\ p \in DOMAIN c /\ c[p] \in Messages
      OBVIOUS
    <3>2. c[p].kind = "result" /\ c[p].size \in Nat
      BY <3>1, <2>4, <2>5 DEF Alike, Messages
    <3>3. e[p] = IF p \in bulky THEN Cut(c[p], Floor) ELSE c[p]
      BY <3>1
    <3>4. e[p] = Cut(c[p], Floor)
      BY <3>3
    <3> HIDE DEF e
    <3>5. Max({Floor, Floor}) = Floor
      <4>1. \A x \in {Floor, Floor} : x = Floor /\ x >= Floor
        BY <2>3
      <4> QED BY <4>1 DEF Max
    <3>6. CASE c[p].size > Floor
      <4>1. e[p] = [c[p] EXCEPT !.size = Floor]
        BY <3>2, <3>4, <3>5, <3>6 DEF Cut
      <4>2. e[p].size = Floor
        BY <4>1, <3>1 DEF Messages
      <4> QED BY <4>2, <2>3
    <3>7. CASE ~ (c[p].size > Floor)
      <4>1. e[p] = c[p]
        BY <3>2, <3>4, <3>5, <3>7 DEF Cut
      <4> QED BY <4>1, <3>2, <3>7, <2>3
    <3> QED BY <3>6, <3>7
  <2> HIDE DEF e, bulky, cut, fitting, fewest
  <2> QED BY <2>1, <2>2, <2>4, <2>5
<1> QED BY <1>2, <1>3

\* What fits as it is, fits clipped, and something is left of it.
LEMMA FitsUnclipped ==
  ASSUME NEW c \in Seq(Messages), NEW kept \in SUBSET (1 .. Len(c)), NEW room,
         SizeOf(c, kept) <= room
  PROVE  \E d \in Clipped(c, kept, room) : Size(d) <= room
<1> DEFINE bulky     == {i \in kept : Cut(c[i], Floor) # c[i]}
           cut(some) == [i \in DOMAIN c |-> IF i \in some THEN Cut(c[i], Floor) ELSE c[i]]
           fitting   == {some \in SUBSET bulky : SizeOf(cut(some), kept) <= room}
           fewest    == {some \in fitting : \A i \in some : some \ {i} \notin fitting}
<1>1. Clipped(c, kept, room)
        = {Pick(cut(some), kept) : some \in IF fitting = {} THEN {bulky} ELSE fewest}
  BY DEF Clipped
<1>2. cut({}) = c
  <2>1. cut({}) = [i \in DOMAIN c |-> c[i]]
    OBVIOUS
  <2>2. c = [i \in DOMAIN c |-> c[i]]
    OBVIOUS
  <2> QED BY <2>1, <2>2
<1>3. {} \in fitting
  <2>1. {} \in SUBSET bulky
    OBVIOUS
  <2> HIDE DEF bulky, cut
  <2> QED BY <2>1, <1>2
<1>4. {} \in fewest
  BY <1>3
<1>5. Pick(c, kept) \in Clipped(c, kept, room)
  <2>1. fitting # {}
    BY <1>3
  <2> HIDE DEF bulky, cut, fitting, fewest
  <2> QED BY <1>1, <1>2, <1>4, <2>1
<1> QED BY <1>5 DEF SizeOf

\* A truncated conversation fits, or only what is held back is left of it, with
\* clipped results: the only unit, or the newest ones without the opening unit.
LEMMA TruncatedFits ==
  ASSUME NEW c \in Seq(Messages), Len(c) >= 1, c[1].size < MaxInput, NEW d \in Truncated(c)
  PROVE  \/ Size(d) <= MaxInput
         \/ \E e, hs, tail, pos :
              /\ Alike(c, e) /\ hs \in SUBSET Heads(c)
              /\ tail \in Seq(Messages) /\ d = <<c[1]>> \o tail
              /\ Chosen(tail, e, Units(c, hs), pos)
              /\ \A p \in Units(c, hs) : e[p].kind = "result" => e[p].size <= Floor
              /\ \/ hs = Heads(c) /\ Heads(c) = {Min(Heads(c))}
                 \/ hs \subseteq Held(c) \ {Min(Heads(c))}
<1> DEFINE room == MaxInput - Head(c).size
           b == Capped(c, room)
<1>1. Head(c) = c[1] /\ c[1] \in Messages /\ c[1].size \in Nat /\ MaxInput \in Nat
  <2>1. Head(c) = c[1] /\ c[1] \in Messages
    OBVIOUS
  <2> QED BY <2>1, ToolLoopAssumption DEF Messages, ToolLoopAssumption
<1>2. room \in Int /\ ~ (room <= 0) /\ c[1].size + room = MaxInput
  BY <1>1
<1> DEFINE Goal == \E e, hs, tl, pos :
                     /\ Alike(c, e) /\ hs \in SUBSET Heads(c)
                     /\ tl \in Seq(Messages) /\ d = <<c[1]>> \o tl
                     /\ Chosen(tl, e, Units(c, hs), pos)
                     /\ \A p \in Units(c, hs) : e[p].kind = "result" => e[p].size <= Floor
                     /\ \/ hs = Heads(c) /\ Heads(c) = {Min(Heads(c))}
                        \/ hs \subseteq Held(c) \ {Min(Heads(c))}
<1>3. SUFFICES ASSUME ~ (Size(d) <= MaxInput) PROVE Goal
  OBVIOUS
<1>4. PICK tail : tail \in Shrunk(b, LeftToFit(b, room), room) /\ d = <<c[1]>> \o tail
  <2>1. CASE Size(c) <= MaxInput
    <3>1. d = c
      BY <2>1 DEF Truncated
    <3> QED BY <2>1, <3>1, <1>3
  <2>2. CASE ~ (Size(c) <= MaxInput)
    BY <1>1, <1>2, <2>2 DEF Truncated
  <2> QED BY <2>1, <2>2
<1> HIDE DEF room
<1>5. Alike(c, b) /\ b \in Seq(Messages) /\ Len(b) = Len(c) /\ DOMAIN b = 1 .. Len(b)
      /\ Len(b) \in Nat
  BY <1>2, CappedIs DEF Alike
<1> HIDE DEF b
<1>6. /\ Heads(b) = Heads(c) /\ Held(b) = Held(c)
      /\ \A hs : Units(b, hs) = Units(c, hs)
  BY <1>5, AlikeUnits
<1> DEFINE left == LeftToFit(b, room)
           clips == Clipped(b, Units(b, left), room)
           rest == Units(b, left \ {Min(Heads(b))})
           enough == {n \in DOMAIN b : SizeOf(b, Units(b, Left(b, n))) <= room}
<1>7. left = Left(b, IF enough = {} THEN Len(b) ELSE Min(enough))
  BY DEF LeftToFit
<1>8. left \in SUBSET Heads(b)
  BY <1>7 DEF Left
<1>9. tail \in (IF rest # {} /\ \A x \in clips : Size(x) > room THEN Clipped(b, rest, room) ELSE clips)
  BY <1>4 DEF Shrunk
<1>10. Units(b, left) \in SUBSET (1 .. Len(b)) /\ rest \in SUBSET (1 .. Len(b))
  <2>1. left \ {Min(Heads(b))} \in SUBSET Heads(b)
    BY <1>8
  <2> HIDE DEF left
  <2> QED BY <1>5, <1>8, <2>1, UnitsAre
<1>11. tail \in Seq(Messages)
  <2> HIDE DEF left
  <2>1. CASE tail \in clips
    <3>1. PICK e : Alike(b, e) /\ tail = Pick(e, Units(b, left))
      BY <2>1, <1>5, ClippedIs
    <3> QED BY <3>1, <1>10, PickIs DEF Alike
  <2>2. CASE tail \in Clipped(b, rest, room)
    <3>1. PICK e : Alike(b, e) /\ tail = Pick(e, rest)
      BY <2>2, <1>5, ClippedIs
    <3> QED BY <3>1, <1>10, PickIs DEF Alike
  <2> QED BY <1>9, <2>1, <2>2
<1>12. ~ (Size(tail) <= room) /\ Size(tail) \in Nat
  <2>1. Size(d) = c[1].size + Size(tail) /\ Size(tail) \in Nat
    BY <1>1, <1>4, <1>11, SizeOfCons, SizeIsNat
  <2> QED BY <2>1, <1>1, <1>2, <1>3
\* What is left to fit does not: then only what is held back is left.
<1>13. enough = {}
  <2> SUFFICES ASSUME enough # {} PROVE FALSE
    OBVIOUS
  <2>1. enough \in SUBSET Nat
    BY <1>5
  <2>2. Min(enough) \in enough
    <3> HIDE DEF enough
    <3>1. \E x \in enough : \A y \in enough : x <= y
      BY <2>1, LeastOf
    <3> QED BY <3>1 DEF Min
  <2>3. SizeOf(b, Units(b, left)) <= room
    <3>1. left = Left(b, Min(enough))
      BY <1>7
    <3> HIDE DEF left
    <3> QED BY <2>2, <3>1
  <2> HIDE DEF left, enough
  <2>4. PICK x \in clips : Size(x) <= room
    BY <1>5, <1>10, <2>3, FitsUnclipped
  <2>5. Size(x) \in Nat
    <3>1. PICK e : Alike(b, e) /\ x = Pick(e, Units(b, left))
      BY <1>5, ClippedIs
    <3>2. x \in Seq(Messages)
      BY <3>1, <1>10, PickIs DEF Alike
    <3> QED BY <3>2, SizeIsNat
  <2>6. tail \in clips
    BY <1>9, <1>2, <2>4, <2>5
  <2>7. Clipped(b, Units(b, left), room) = {tail}
    BY <2>6, <1>5, <1>10, <1>12, ClippedFits
  <2> QED BY <2>4, <2>7, <1>12
<1>14. left = Left(b, Len(b))
  BY <1>7, <1>13
<1>15. left = Heads(b) \cap Held(b)
  <2>1. \A h \in Heads(b) : ~ (h > Len(b))
    BY <1>5 DEF Heads
  <2> QED BY <2>1, <1>14 DEF Left
<1> HIDE DEF left, enough
\* The opening unit is given up.
<1>16. ASSUME tail \in Clipped(b, rest, room)
       PROVE  Goal
  <2> DEFINE hs == left \ {Min(Heads(b))}
  <2>1. hs \in SUBSET Heads(c) /\ hs \subseteq Held(c) \ {Min(Heads(c))} /\ rest = Units(c, hs)
    BY <1>6, <1>15
  <2> HIDE DEF rest, hs
  <2>2. PICK f : /\ Clipped(b, rest, room) = {tail}
                 /\ Alike(b, f) /\ tail = Pick(f, rest)
                 /\ \A p \in rest : f[p].kind = "result" => f[p].size <= Floor
    <3>1. b \in Seq(Messages) /\ rest \in SUBSET (1 .. Len(b)) /\ tail \in Clipped(b, rest, room)
      BY <1>5, <1>10, <1>16
    <3> HIDE DEF Goal, clips
    <3> QED BY ONLY <3>1, <1>12, ClippedFits
  <2>3. Alike(c, f) /\ f \in Seq(Messages) /\ rest \in SUBSET (1 .. Len(f))
    BY <2>2, <1>5, <1>10, AlikeIsTransitive DEF Alike
  <2>4. PICK pos : Chosen(tail, f, rest, pos)
    BY <2>2, <2>3, PickIs
  <2> QED BY <2>1, <2>2, <2>3, <2>4, <1>4, <1>11
\* There is one unit.
<1>17. ASSUME tail \in clips, rest = {}
       PROVE  Goal
  <2>1. PICK e : /\ clips = {tail} /\ Alike(b, e) /\ tail = Pick(e, Units(b, left))
                 /\ \A p \in Units(b, left) : e[p].kind = "result" => e[p].size <= Floor
    BY <1>17, <1>5, <1>10, <1>12, ClippedFits
  <2>2. left \subseteq {Min(Heads(b))}
    <3> SUFFICES ASSUME NEW h \in left, h # Min(Heads(b)) PROVE FALSE
      OBVIOUS
    <3>1. h \in 1 .. Len(b)
      BY <1>5, <1>8 DEF Heads
    <3>2. h \in Unit(b, h)
      <4>1. h \in h .. Len(b) /\ h + 1 .. h = {}
        BY <3>1, <1>5
      <4> QED BY <4>1 DEF Unit
    <3>3. h \in rest
      BY <3>2 DEF Units
    <3> QED BY <3>3, <1>17
  <2>3. Heads(b) # {}
    <3> SUFFICES ASSUME Heads(b) = {} PROVE FALSE
      OBVIOUS
    <3>1. Units(b, left) = {}
      BY <1>8 DEF Units
    <3>2. e \in Seq(Messages) /\ {} \in SUBSET (1 .. Len(e))
      BY <2>1 DEF Alike
    <3>3. PICK pos : Chosen(tail, e, {}, pos)
      BY <3>1, <3>2, <2>1, PickIs
    <3>4. Len(tail) = 0
      <4>1. Len(tail) \in Nat
        BY <1>11
      <4>2. ~ (1 \in 1 .. Len(tail))
        BY <3>3 DEF Chosen
      <4> QED BY <4>1, <4>2
    <3>5. tail = <<>>
      BY <3>4, <1>11, EmptySeq
    <3> QED BY <3>5, SizeOfNone, <1>2, <1>12
  <2>4. Max(Heads(b)) \in Heads(b) /\ \A h \in Heads(b) : h <= Max(Heads(b))
    <3> DEFINE far == {Len(b) - h : h \in Heads(b)}
    <3>1. \A h \in Heads(b) : h \in 1 .. Len(b)
      BY <1>5 DEF Heads
    <3>2. far \in SUBSET Nat /\ far # {}
      BY <1>5, <3>1, <2>3
    <3>3. PICK x \in far : \A y \in far : x <= y
      <4> HIDE DEF far
      <4> QED BY <3>2, LeastOf
    <3>4. PICK h \in Heads(b) : x = Len(b) - h
      OBVIOUS
    <3>5. \A g \in Heads(b) : h >= g
      <4> SUFFICES ASSUME NEW g \in Heads(b) PROVE h >= g
        OBVIOUS
      <4>1. Len(b) - g \in far
        OBVIOUS
      <4>2. Len(b) - h <= Len(b) - g
        BY <4>1, <3>3, <3>4
      <4> QED BY <4>2, <3>1, <1>5
    <3>6. Max(Heads(b)) \in Heads(b) /\ \A g \in Heads(b) : Max(Heads(b)) >= g
      BY <3>5 DEF Max
    <3> QED BY <3>6, <3>1, <1>5
  <2>5. Max(Heads(b)) = Min(Heads(b))
    <3>1. Max(Heads(b)) \in left
      BY <2>4, <1>15 DEF Held
    <3> QED BY <3>1, <2>2
  <2>6. Heads(b) = {Min(Heads(b))}
    <3>1. Min(Heads(b)) \in Heads(b) /\ \A g \in Heads(b) : Min(Heads(b)) <= g
      <4>1. Heads(b) \in SUBSET Nat
        BY <1>5 DEF Heads
      <4>2. \E x \in Heads(b) : \A y \in Heads(b) : x <= y
        BY <4>1, <2>3, LeastOf
      <4> QED BY <4>2 DEF Min
    <3>2. \A g \in Heads(b) : g \in Int
      BY <1>5 DEF Heads
    <3>3. \A g \in Heads(b) : g = Min(Heads(b))
      BY <3>1, <3>2, <2>4, <2>5
    <3> QED BY <3>1, <3>3
  <2>7. left = Heads(c) /\ Heads(c) = {Min(Heads(c))}
    BY <2>6, <1>6, <1>15 DEF Held
  <2>8. Alike(c, e) /\ e \in Seq(Messages) /\ Units(b, left) \in SUBSET (1 .. Len(e))
    BY <2>1, <1>5, <1>10, AlikeIsTransitive DEF Alike
  <2>9. PICK pos : Chosen(tail, e, Units(b, left), pos)
    BY <2>1, <2>8, PickIs
  <2>10. left \in SUBSET Heads(c) /\ Units(b, left) = Units(c, left)
    BY <1>6, <1>8
  <2> QED BY <2>1, <2>7, <2>8, <2>9, <2>10, <1>4, <1>11
<1>18. CASE tail \in Clipped(b, rest, room)
  BY <1>16, <1>18
<1>19. CASE tail \in clips
  <2>1. CASE rest = {}
    BY <1>17, <1>19, <2>1
  <2>2. CASE rest # {}
    <3>1. clips = {tail}
      BY <1>5, <1>10, <1>12, <1>19, ClippedFits
    <3>2. \A x \in clips : Size(x) > room
      BY <3>1, <1>2, <1>12
    <3> HIDE DEF clips, rest
    <3>3. tail \in Clipped(b, rest, room)
      BY <3>2, <2>2, <1>9
    <3> QED BY <3>3, <1>16
  <2> QED BY <2>1, <2>2
<1> QED BY <1>9, <1>18, <1>19

Fits(c) ==
  \/ Size(c) <= MaxInput
  \/ Cardinality(Heads(c)) = 1 /\ HasTask(c)
  \/ /\ Cardinality(Heads(c)) <= 2 /\ ~ HasTask(c)
     /\ \A i \in DOMAIN c : c[i].kind = "result" => c[i].size <= Floor

\* The first messages of the units of d were taken from first messages.
LEMMA HeadsAreTaken ==
  ASSUME NEW c, Shape(c), NEW hs \in SUBSET Heads(c), NEW d, NEW pos, Taken(d, c, hs, pos)
  PROVE  /\ \A i \in Heads(d) : i \in 1 .. Len(d) /\ i > 1 /\ pos[i] \in hs
         /\ IsFiniteSet(Heads(d)) /\ IsFiniteSet(hs)
         /\ Cardinality(Heads(d)) <= Cardinality(hs)
<1>1. /\ Len(c) \in Nat /\ DOMAIN c = 1 .. Len(c) /\ c[1].kind = "system"
      /\ Len(d) \in Nat /\ DOMAIN d = 1 .. Len(d) /\ d[1] = c[1]
  BY DEF Shape, Taken
<1>2. ASSUME NEW i \in Heads(d)
      PROVE  i \in 1 .. Len(d) /\ i > 1 /\ pos[i] \in hs
  <2>1. /\ i \in 1 .. Len(d) /\ i > 1 /\ d[i].kind \notin {"system", "result"}
        /\ ~ (d[i].kind = "user" /\ d[i - 1].kind = "result")
    BY <1>1 DEF Heads
  <2>2. pos[i] \in Units(c, hs) /\ d[i].kind = c[pos[i]].kind
    BY <2>1 DEF Taken
  <2>3. pos[i] \in 1 .. Len(c) /\ pos[i] > 1
    BY <2>2, Neighbours
  <2>4. PICK h \in hs : pos[i] \in Unit(c, h)
    BY <2>2 DEF Units
  <2>5. h \in 1 .. Len(c)
    BY <1>1 DEF Heads
  <2>6. pos[i] \in h .. Len(c) /\ (h + 1 .. pos[i]) \cap Heads(c) = {}
    BY <2>4 DEF Unit
  <2>7. pos[i] \in Heads(c)
    <3> SUFFICES ASSUME pos[i] \notin Heads(c) PROVE FALSE
      OBVIOUS
    <3>1. c[pos[i]].kind = "user" /\ c[pos[i] - 1].kind = "result"
      BY <1>1, <2>1, <2>2, <2>3 DEF Heads
    <3>2. pos[i] # h
      OBVIOUS
    <3>3. pos[i] - 1 \in h .. Len(c) /\ (h + 1 .. pos[i] - 1) \cap Heads(c) = {}
      BY <2>5, <2>6, <3>2, <1>1
    <3>4. pos[i] - 1 \in Units(c, hs)
      BY <3>3 DEF Unit, Units
    <3>5. PICK k \in 1 .. Len(d) : k > 1 /\ pos[k] = pos[i] - 1
      BY <3>4 DEF Taken
    <3>6. k = i - 1
      <4>1. k # i /\ ~ (i < k)
        <5>1. k # i
          BY <2>3, <3>5
        <5>2. i < k => pos[i] < pos[k]
          BY <2>1 DEF Taken
        <5> QED BY <5>1, <5>2, <2>3, <3>5
      <4>2. ~ (k < i - 1)
        <5> SUFFICES ASSUME k < i - 1 PROVE FALSE
          OBVIOUS
        <5>1. i - 1 \in 1 .. Len(d) /\ 1 < i - 1 /\ k < i - 1 /\ i - 1 < i
          BY <1>1, <2>1, <3>5
        <5>2. pos[k] < pos[i - 1] /\ pos[i - 1] < pos[i] /\ pos[i - 1] \in Units(c, hs)
          BY <5>1, <3>5, <2>1 DEF Taken
        <5>3. pos[i - 1] \in 1 .. Len(c)
          BY <5>2, Neighbours
        <5> QED BY <5>2, <5>3, <2>3, <3>5
      <4>3. i \in Int /\ k \in Int
        BY <1>1, <2>1
      <4> QED BY <4>1, <4>2, <4>3
    <3>7. d[i - 1].kind = "result"
      <4>1. d[k].kind = c[pos[k]].kind
        BY <3>5 DEF Taken
      <4> QED BY <4>1, <3>1, <3>5, <3>6
    <3> QED BY <3>1, <3>7, <2>1, <2>2
  <2>8. pos[i] = h
    <3>1. pos[i] \notin h + 1 .. pos[i]
      BY <2>6, <2>7
    <3> QED BY <3>1, <2>5, <2>6
  <2> QED BY <2>1, <2>8
<1>3. IsFiniteSet(hs) /\ IsFiniteSet(Heads(d))
  <2>1. IsFiniteSet(1 .. Len(c)) /\ IsFiniteSet(1 .. Len(d))
    BY <1>1, FS_Interval
  <2>2. hs \in SUBSET (1 .. Len(c)) /\ Heads(d) \in SUBSET (1 .. Len(d))
    BY <1>1 DEF Heads
  <2> QED BY <2>1, <2>2, FS_Subset
<1>4. Cardinality(Heads(d)) <= Cardinality(hs)
  <2> DEFINE f == [i \in Heads(d) |-> pos[i]]
  <2>1. f \in [Heads(d) -> hs]
    BY <1>2
  <2>2. ASSUME NEW i \in Heads(d), NEW j \in Heads(d), i # j
        PROVE  f[i] # f[j]
    <3>1. /\ i \in 1 .. Len(d) /\ i > 1 /\ j \in 1 .. Len(d) /\ j > 1
          /\ pos[i] \in Int /\ pos[j] \in Int
      BY <1>1, <1>2 DEF Heads
    <3>2. /\ i < j => pos[i] < pos[j]
          /\ j < i => pos[j] < pos[i]
      BY <3>1 DEF Taken
    <3>3. f[i] = pos[i] /\ f[j] = pos[j]
      OBVIOUS
    <3> HIDE DEF f
    <3> QED BY <3>1, <3>2, <3>3, <2>2
  <2>3. f \in Injection(Heads(d), hs)
    BY <2>1, <2>2 DEF Injection, IsInjective
  <2> QED BY <2>3, <1>3, FS_Injection
<1> QED BY <1>2, <1>3, <1>4

\* Of the units held back, two are not the opening one.
LEMMA HeldAreFew ==
  ASSUME NEW c, Shape(c), NEW hs \in SUBSET Heads(c), IsFiniteSet(hs),
         hs \subseteq Held(c) \ {Min(Heads(c))}
  PROVE  Cardinality(hs) <= 2
<1>1. \A h \in Heads(c) : h \in Int
  BY DEF Shape, Heads
<1> DEFINE full == {h \in Heads(c) : HasResults(c, h) /\ \A g \in Heads(c) : HasResults(c, g) => g <= h}
<1>2. \A h, g \in full : h = g
  BY <1>1
<1>3. \E x : hs \subseteq {Max(Heads(c)), x}
  <2>1. hs \subseteq {Max(Heads(c))} \cup full
    BY DEF Held
  <2> HIDE DEF full
  <2>2. CASE full = {}
    BY <2>1, <2>2
  <2>3. CASE full # {}
    <3>1. PICK x : x \in full
      BY <2>3
    <3>2. full = {x}
      BY <3>1, <1>2
    <3> QED BY <2>1, <3>2
  <2> QED BY <2>2, <2>3
<1>4. PICK x : hs \subseteq {Max(Heads(c)), x}
  BY <1>3
<1> DEFINE a == Max(Heads(c))
           pair == {a} \cup {x}
<1>5. IsFiniteSet({a}) /\ Cardinality({a}) = 1
  BY FS_Singleton
<1>6. /\ IsFiniteSet(pair)
      /\ Cardinality(pair) = IF x \in {a} THEN Cardinality({a}) ELSE Cardinality({a}) + 1
  BY <1>5, FS_AddElement
<1>7. hs \in SUBSET pair
  BY <1>4
<1> HIDE DEF pair
<1>8. Cardinality(hs) <= Cardinality(pair) /\ Cardinality(hs) \in Nat /\ Cardinality(pair) \in Nat
  BY <1>6, <1>7, FS_Subset, FS_CardinalityType
<1> QED BY <1>5, <1>6, <1>8

\* Truncation leaves what fits, or what cannot be given up.
LEMMA TruncationFits ==
  ASSUME NEW c, Shape(c), c[1].size < MaxInput, NEW d \in Truncated(c)
  PROVE  Fits(d)
<1>1. /\ c \in Seq(Messages) /\ Len(c) >= 1 /\ Len(c) \in Nat /\ DOMAIN c = 1 .. Len(c)
      /\ c[1].kind = "system"
  BY DEF Shape
<1>2. CASE Size(d) <= MaxInput
  BY <1>2 DEF Fits
<1>3. CASE ~ (Size(d) <= MaxInput)
  <2>1. PICK e, hs, tail, q :
              /\ Alike(c, e) /\ hs \in SUBSET Heads(c)
              /\ tail \in Seq(Messages) /\ d = <<c[1]>> \o tail
              /\ Chosen(tail, e, Units(c, hs), q)
              /\ \A p \in Units(c, hs) : e[p].kind = "result" => e[p].size <= Floor
              /\ \/ hs = Heads(c) /\ Heads(c) = {Min(Heads(c))}
                 \/ hs \subseteq Held(c) \ {Min(Heads(c))}
    BY <1>1, <1>3, TruncatedFits
  <2>2. PICK pos : Taken(d, c, hs, pos) /\ TakenFrom(d, e, pos)
    <3>1. /\ c \in Seq(Messages) /\ Len(c) >= 1 /\ Alike(c, e) /\ hs \in SUBSET Heads(c)
          /\ tail \in Seq(Messages) /\ d = <<c[1]>> \o tail /\ Chosen(tail, e, Units(c, hs), q)
      BY <1>1, <2>1
    <3> QED BY <3>1, ChosenIsTaken
  <2>3. /\ d \in Seq(Messages) /\ DOMAIN d = 1 .. Len(d) /\ Len(d) \in Nat /\ Len(d) >= 1
        /\ d[1].kind = "system"
    BY <1>1, <2>2 DEF Taken
  <2>4. /\ \A i \in Heads(d) : i \in 1 .. Len(d) /\ i > 1 /\ pos[i] \in hs
        /\ IsFiniteSet(Heads(d)) /\ IsFiniteSet(hs)
        /\ Cardinality(Heads(d)) <= Cardinality(hs)
    BY <2>1, <2>2, HeadsAreTaken
  <2>5. Cardinality(Heads(d)) \in Nat /\ Cardinality(hs) \in Nat
    BY <2>4, FS_CardinalityType
  <2>6. ASSUME NEW i \in 1 .. Len(d), d[i].kind = "result"
        PROVE  d[i].size <= Floor
    <3>1. i > 1
      BY <2>3, <2>6
    <3>2. pos[i] \in Units(c, hs) /\ d[i] = e[pos[i]]
      BY <2>2, <3>1 DEF Taken, TakenFrom
    <3> QED BY <2>1, <2>6, <3>2
  <2>7. Shape(d)
    BY <2>1, <2>2, TakenKeepsShape
\* The task of d was the task of c, in the opening unit.
  <2>8. ASSUME HasTask(d)
        PROVE  2 \in Heads(d) /\ 2 \in hs /\ Min(Heads(c)) = 2
    <3>1. 2 \in 1 .. Len(d) /\ d[2].kind = "user" /\ d[2].round = -1
      BY <2>3, <2>7, <2>8 DEF Shape, HasTask
    <3>2. 2 \in Heads(d)
      BY <2>3, <3>1 DEF Heads
    <3>3. /\ pos[2] \in Units(c, hs) /\ pos[2] \in 1 .. Len(c)
          /\ c[pos[2]].kind = "user" /\ c[pos[2]].round = -1 /\ pos[2] \in hs
      BY <2>1, <2>2, <2>4, <3>1, <3>2, Neighbours DEF Taken
    <3>4. pos[2] = 2
      BY <3>3 DEF Shape
    <3>5. 2 \in Heads(c) /\ \A h \in Heads(c) : h \in Int /\ 2 <= h
      <4>1. \A h \in Heads(c) : h \in 1 .. Len(c) /\ h # 1
        BY <1>1 DEF Heads
      <4> QED BY <4>1, <3>3, <3>4, <2>1, <1>1
    <3>6. Min(Heads(c)) = 2
      BY <3>5 DEF Min
    <3> QED BY <3>2, <3>3, <3>4, <3>6
  <2>9. CASE hs = Heads(c) /\ Heads(c) = {Min(Heads(c))}
    <3>1. Cardinality(hs) = 1
      BY <2>9, FS_Singleton
    <3>2. CASE HasTask(d)
      <4>1. Cardinality(Heads(d)) # 0
        BY <2>4, <2>8, <3>2, FS_EmptySet
      <4>2. Cardinality(Heads(d)) = 1
        BY <4>1, <2>4, <2>5, <3>1
      <4> QED BY <3>2, <4>2 DEF Fits
    <3>3. CASE ~ HasTask(d)
      <4>1. Cardinality(Heads(d)) <= 2
        BY <2>4, <2>5, <3>1
      <4> QED BY <2>3, <2>6, <3>3, <4>1 DEF Fits
    <3> QED BY <3>2, <3>3
  <2>10. CASE hs \subseteq Held(c) \ {Min(Heads(c))}
    <3>1. Cardinality(hs) <= 2
      BY <2>1, <2>4, <2>10, HeldAreFew
    <3>2. Cardinality(Heads(d)) <= 2
      BY <2>4, <2>5, <3>1
    <3>3. ~ HasTask(d)
      BY <2>8, <2>10
    <3> QED BY <2>3, <2>6, <3>2, <3>3 DEF Fits
  <2> QED BY <2>1, <2>9, <2>10
<1> QED BY <1>2, <1>3

LEMMA TruncationKeepsTheFirst ==
  ASSUME NEW c, Shape(c), NEW d \in Truncated(c)
  PROVE  d[1] = c[1]
<1>1. c \in Seq(Messages) /\ Len(c) >= 1
  BY DEF Shape
<1>2. CASE d = c
  BY <1>2
<1>3. CASE d # c
  <2>1. PICK hs, pos : Taken(d, c, hs, pos)
    BY <1>1, <1>3, EditedIs
  <2> QED BY <2>1 DEF Taken
<1> QED BY <1>2, <1>3

Fitting ==
  /\ conv[1].size = 1
  /\ pc \in {"send", "handle"} => Fits(conv)

LEMMA FirstStays ==
  ASSUME NEW S, NEW c \in Seq(S), Len(c) >= 1, NEW t \in Seq(S)
  PROVE  (c \o t)[1] = c[1]
<1>1. 1 \in 1 .. Len(c) + Len(t) /\ 1 <= Len(c)
  OBVIOUS
<1> QED BY <1>1, ConcatProperties

LEMMA InitFits == Init => Fitting
<1> SUFFICES ASSUME Init PROVE Fitting
  OBVIOUS
<1> QED BY DEF Init, Fitting

LEMMA StepFits ==
  ASSUME MaxInput > 1, CInv, CInv', Fitting, [Next]_vars
  PROVE  Fitting'
<1>1. Shape(conv) /\ conv \in Seq(Messages) /\ Len(conv) >= 1 /\ conv[1].size < MaxInput
  BY ToolLoopAssumption DEF CInv, Conversing, Shape, Fitting, ToolLoopAssumption
<1>2. ASSUME UNCHANGED conv, pc' \in {"send", "handle"} => pc \in {"send", "handle"}
      PROVE  Fitting'
  BY <1>2 DEF Fitting
<1>3. ASSUME pc' = "prepare", conv'[1] = conv[1]
      PROVE  Fitting'
  BY <1>3 DEF Fitting
<1>4. ASSUME Nudge, pc' = "prepare"
      PROVE  Fitting'
  <2> DEFINE u == Message("user", 1)
  <2>1. u \in Messages
    BY MessageIs DEF Kinds, CInv, Conversing
  <2>2. conv' = Append(conv, u)
    BY <1>4 DEF Nudge
  <2> HIDE DEF u
  <2>3. conv'[1] = conv[1]
    BY <1>1, <2>1, <2>2
  <2> QED BY <1>4, <2>3 DEF Fitting
<1>5. CASE Prepare
  <2>1. conv' \in Truncated(conv)
    BY <1>5 DEF Prepare
  <2>2. Fits(conv')
    BY <1>1, <2>1, TruncationFits
  <2>3. conv'[1] = conv[1]
    BY <1>1, <2>1, TruncationKeepsTheFirst
  <2> QED BY <2>2, <2>3 DEF Fitting
<1>6. CASE Synthesize
  <2> DEFINE u == Message("user", 1)
             c == Append(conv, u)
  <2>1. conv' \in Truncated(c) /\ Shape(c)
    BY <1>6, UserMessage DEF Synthesize
  <2>2. c[1] = conv[1]
    <3>1. u \in Messages
      BY MessageIs DEF Kinds, CInv, Conversing
    <3> HIDE DEF u
    <3> QED BY <3>1, <1>1
  <2> HIDE DEF c
  <2>3. Fits(conv') /\ conv'[1] = conv[1]
    BY <1>1, <2>1, <2>2, TruncationFits, TruncationKeepsTheFirst
  <2> QED BY <2>3 DEF Fitting
<1>7. CASE ToolRound
  <2> DEFINE a == [Message("call", 1) EXCEPT !.think =
                           [under |-> Said(request.messages), tools |-> request.tools]]
             b == Message("result", response.size)
             u == Message("user", 1)
             last == IF setup.budgetLine THEN <<u>> ELSE <<>>
             S == Messages \cup {a, b, u}
  <2>1. pc' = "prepare" /\ conv' = (conv \o <<a, b>>) \o last
    BY <1>7 DEF ToolRound
  <2> HIDE DEF a, b, u
  <2>2. <<a, b>> \in Seq(S) /\ last \in Seq(S) /\ Len(<<a, b>>) = 2
    <3>1. a \in S /\ b \in S /\ u \in S
      OBVIOUS
    <3> HIDE DEF S
    <3>2. <<a, b>> \in Seq(S) /\ Len(<<a, b>>) = 2 /\ <<u>> \in Seq(S) /\ <<>> \in Seq(S)
      BY <3>1
    <3> QED BY <3>2
  <2>3. conv \in Seq(S)
    <3>1. conv \in [1 .. Len(conv) -> Messages] /\ Len(conv) \in Nat
      BY <1>1
    <3>2. conv \in [1 .. Len(conv) -> S]
      BY <3>1
    <3> HIDE DEF S
    <3> QED BY <3>1, <3>2, SeqDef
  <2> HIDE DEF last, S
  <2>4. /\ conv \o <<a, b>> \in Seq(S) /\ Len(conv \o <<a, b>>) >= 1
        /\ (conv \o <<a, b>>)[1] = conv[1]
    <3>1. Len(conv \o <<a, b>>) = Len(conv) + Len(<<a, b>>) /\ Len(<<a, b>>) = 2
      BY <2>2, <2>3, ConcatProperties
    <3>2. conv \o <<a, b>> \in Seq(S)
      BY <2>2, <2>3, ConcatProperties
    <3>3. Len(conv) \in Nat
      BY <1>1
    <3> QED BY <3>1, <3>2, <3>3, <2>2, <2>3, <1>1, FirstStays
  <2>5. conv'[1] = conv[1]
    BY <2>1, <2>2, <2>4, FirstStays
  <2> QED BY <2>1, <2>5, <1>3
<1>8. CASE Send
  BY <1>2, <1>8 DEF Send
<1>9. CASE Retry
  BY <1>2, <1>9 DEF Retry
<1>10. CASE GiveUp
  BY <1>2, <1>10 DEF GiveUp
<1>11. CASE GateNudge
  BY <1>4, <1>11 DEF GateNudge
<1>12. CASE EmptyNudge
  BY <1>4, <1>12 DEF EmptyNudge
<1>13. CASE Answer
  BY <1>2, <1>13 DEF Answer
<1>14. CASE Finish
  <2>1. UNCHANGED conv /\ pc' \notin {"send", "handle"}
    BY <1>14 DEF Finish
  <2> QED BY <2>1, <1>2
<1>15. CASE UNCHANGED vars
  BY <1>2, <1>15 DEF vars
<1>16. CASE Over
  BY <1>15, <1>16 DEF Over
<1> QED BY <1>5, <1>6, <1>7, <1>8, <1>9, <1>10, <1>11, <1>12, <1>13, <1>14, <1>15, <1>16 DEF Next

\* A request is as large as the conversation it was made from.
LEMMA FittingIsSent ==
  ASSUME CInv, Fitting
  PROVE  RequestsFit
<1> SUFFICES ASSUME pc = "handle" PROVE Fits(request.messages)
  BY DEF RequestsFit, Fits
<1> DEFINE w == WithoutStaleThinking(conv)
<1>1. conv \in Seq(Messages) /\ Len(conv) \in Nat /\ DOMAIN conv = 1 .. Len(conv)
  BY DEF CInv, Conversing, Shape
<1>2. request.messages = w /\ Fits(conv)
  BY DEF CInv, Remembered, Fitting
<1>3. /\ w \in Seq(Messages) /\ Len(w) = Len(conv)
      /\ \A i \in 1 .. Len(conv) :
           w[i].kind = conv[i].kind /\ w[i].round = conv[i].round /\ w[i].size = conv[i].size
  BY <1>1, SentIs
<1> HIDE DEF w
<1>4. DOMAIN w = 1 .. Len(conv)
  BY <1>3
<1>5. Heads(w) = Heads(conv)
  <2>1. Alike(conv, w)
    BY <1>1, <1>3 DEF Alike
  <2> QED BY <2>1, AlikeUnits
<1>6. Size(w) = Size(conv)
  BY <1>1, <1>3, SizeOfSame
<1>7. HasTask(w) <=> HasTask(conv)
  BY <1>1, <1>3, <1>4 DEF HasTask
<1>8. ASSUME \A i \in DOMAIN conv : conv[i].kind = "result" => conv[i].size <= Floor
      PROVE  \A i \in DOMAIN w : w[i].kind = "result" => w[i].size <= Floor
  BY <1>1, <1>3, <1>4, <1>8
<1> QED BY <1>2, <1>5, <1>6, <1>7, <1>8 DEF Fits

\* What is sent fits the window or cannot be given up, for every window that has
\* room beside the system prompt: with none, the code sends what it has.
THEOREM RequestsFitHolds == MaxInput > 1 => (Spec => []RequestsFit)
<1> SUFFICES ASSUME MaxInput > 1 PROVE Spec => []RequestsFit
  OBVIOUS
<1>1. Init => CInv /\ Fitting
  BY InitConverses, InitFits
<1>2. CInv /\ Fitting /\ [Next]_vars => (CInv /\ Fitting)'
  <2>1. CInv /\ [Next]_vars => CInv'
    BY StepConverses
  <2> QED BY <2>1, StepFits
<1>3. CInv /\ Fitting => RequestsFit
  BY FittingIsSent
<1> QED BY <1>1, <1>2, <1>3, PTL DEF Spec

-----------------------------------------------------------------------------
(* A run has a bounded number of steps. *)

Bounded ==
  /\ pc \in {"prepare", "send", "handle", "done", "failed"}
  /\ round \in 0 .. MaxRounds
  /\ attempt \in 1 .. Attempts

PerRound == 2 * Attempts + 2
LeftInRound == IF pc = "prepare" THEN 2 * Attempts + 1
        ELSE IF pc = "send" THEN 2 * (Attempts - attempt) + 2
        ELSE 2 * (Attempts - attempt) + 1

LEMMA BoundsArePositive == /\ MaxRounds \in Nat /\ Attempts \in Nat /\ PerRound \in Nat
                           /\ MaxRounds >= 1 /\ Attempts >= 1
BY ToolLoopAssumption DEF ToolLoopAssumption, PerRound

\* While a run lasts, what is left in its round is less than a round.
LEMMA LeftIs ==
  ASSUME Bounded, pc \in {"prepare", "send", "handle"}
  PROVE  /\ Remaining = (MaxRounds - round) * PerRound + LeftInRound
         /\ LeftInRound \in 1 .. PerRound - 1
<1>1. Remaining = (MaxRounds - round) * PerRound + LeftInRound
  BY DEF Remaining, LeftInRound, PerRound
<1>2. LeftInRound \in 1 .. PerRound - 1
  BY BoundsArePositive DEF Bounded, LeftInRound, PerRound
<1> QED BY <1>1, <1>2

LEMMA ProductIsNat == \A m, n \in Nat : m * n \in Nat
OBVIOUS

LEMMA RemainingIsNat == Bounded => Remaining \in Nat
<1> SUFFICES ASSUME Bounded PROVE Remaining \in Nat
  OBVIOUS
<1>1. CASE pc \in {"done", "failed"}
  BY <1>1 DEF Remaining
<1>2. CASE pc \in {"prepare", "send", "handle"}
  <2>1. /\ Remaining = (MaxRounds - round) * PerRound + LeftInRound
        /\ LeftInRound \in 1 .. PerRound - 1
    BY <1>2, LeftIs
  <2>2. MaxRounds - round \in Nat
    BY BoundsArePositive DEF Bounded
  <2>3. (MaxRounds - round) * PerRound \in Nat
    BY <2>2, ProductIsNat, BoundsArePositive
  <2> QED BY <2>1, <2>3, BoundsArePositive
<1> QED BY <1>1, <1>2 DEF Bounded

\* A later round has less before it, whatever is left of the one in hand.
LEMMA NextRoundIsLess ==
  ASSUME NEW n \in Nat, NEW w \in Nat, NEW r \in 1 .. w - 1, NEW s \in 1 .. w - 1, n >= 1
  PROVE  (n - 1) * w + s < n * w + r
<1>1. (n - 1) * w = n * w - w
  OBVIOUS
<1>2. n * w \in Nat
  BY ProductIsNat
<1> QED BY <1>1, <1>2

\* The run goes on in its round.
LEMMA SameRound ==
  ASSUME Bounded, pc \in {"prepare", "send", "handle"}, pc' \in {"prepare", "send", "handle"},
         round' = round, attempt' \in 1 .. Attempts, LeftInRound' < LeftInRound
  PROVE  Bounded' /\ Remaining' < Remaining
<1> USE BoundsArePositive
<1>1. Bounded'
  BY DEF Bounded
<1>2. /\ Remaining = (MaxRounds - round) * PerRound + LeftInRound
      /\ LeftInRound \in Nat
  BY LeftIs
<1>3. /\ Remaining' = (MaxRounds - round) * PerRound + LeftInRound'
      /\ LeftInRound' \in Nat
  BY <1>1 DEF Remaining, LeftInRound, PerRound, Bounded
<1>4. MaxRounds - round \in Nat
  BY DEF Bounded
<1>5. (MaxRounds - round) * PerRound \in Nat
  BY <1>4, ProductIsNat
<1> QED BY <1>1, <1>2, <1>3, <1>5

\* The run goes to its next round.
LEMMA LaterRound ==
  ASSUME Bounded, pc \in {"prepare", "send", "handle"}, pc' = "prepare", round < MaxRounds,
         round' = round + 1, attempt' = attempt
  PROVE  Bounded' /\ Remaining' < Remaining
<1> USE BoundsArePositive
<1>1. Bounded'
  BY DEF Bounded
<1>2. /\ Remaining = (MaxRounds - round) * PerRound + LeftInRound
      /\ LeftInRound \in 1 .. PerRound - 1
  BY LeftIs
<1>3. /\ Remaining' = (MaxRounds - (round + 1)) * PerRound + LeftInRound'
      /\ LeftInRound' \in 1 .. PerRound - 1
  BY <1>1 DEF Remaining, LeftInRound, PerRound
<1>4. /\ MaxRounds - round \in Nat /\ MaxRounds - round >= 1
      /\ MaxRounds - (round + 1) = (MaxRounds - round) - 1
  BY DEF Bounded
<1>5. ((MaxRounds - round) - 1) * PerRound + LeftInRound'
        < (MaxRounds - round) * PerRound + LeftInRound
  <2> DEFINE n == MaxRounds - round
  <2>1. n \in Nat /\ n >= 1
    BY <1>4
  <2> HIDE DEF n
  <2>2. (n - 1) * PerRound + LeftInRound' < n * PerRound + LeftInRound
    BY <1>2, <1>3, <2>1, NextRoundIsLess
  <2> QED BY <2>2 DEF n
<1> QED BY <1>1, <1>2, <1>3, <1>4, <1>5

\* The run is over.
LEMMA RunEnds ==
  ASSUME Bounded, pc \in {"prepare", "send", "handle"}, pc' \in {"done", "failed"},
         round' = round, attempt' = attempt
  PROVE  Bounded' /\ Remaining' < Remaining
<1> USE BoundsArePositive
<1>1. /\ Remaining = (MaxRounds - round) * PerRound + LeftInRound
      /\ LeftInRound \in 1 .. PerRound - 1
  BY LeftIs
<1>2. MaxRounds - round \in Nat
  BY DEF Bounded
<1>3. (MaxRounds - round) * PerRound \in Nat
  BY <1>2, ProductIsNat
<1>4. Remaining' = 0
  BY DEF Remaining
<1> QED BY <1>1, <1>3, <1>4 DEF Bounded

LEMMA StepShortens ==
  ASSUME Bounded, [Next]_vars
  PROVE  Bounded' /\ (UNCHANGED vars \/ Remaining' < Remaining)
<1> USE BoundsArePositive
<1>1. CASE UNCHANGED vars
  BY <1>1 DEF vars, Bounded
<1>2. CASE Over
  BY <1>1, <1>2 DEF Over
<1>3. CASE Prepare \/ Synthesize
  <2>1. /\ pc = "prepare" /\ pc' = "send" /\ attempt' = 1 /\ round' = round
    BY <1>3 DEF Prepare, Synthesize
  <2>2. LeftInRound' < LeftInRound
    BY <2>1 DEF LeftInRound
  <2> QED BY <2>1, <2>2, SameRound
<1>4. CASE Send
  <2>1. /\ pc = "send" /\ pc' = "handle" /\ attempt' = attempt /\ round' = round
    BY <1>4 DEF Send
  <2>2. LeftInRound' < LeftInRound
    BY <2>1 DEF LeftInRound, Bounded
  <2> QED BY <2>1, <2>2, SameRound DEF Bounded
<1>5. CASE Retry
  <2>1. /\ pc = "handle" /\ pc' = "send" /\ attempt' = attempt + 1 /\ round' = round
        /\ attempt < Attempts
    BY <1>5 DEF Retry, Retries
  <2>2. LeftInRound' < LeftInRound
    BY <2>1 DEF LeftInRound, Bounded
  <2>3. attempt' \in 1 .. Attempts
    BY <2>1 DEF Bounded
  <2> QED BY <2>1, <2>2, <2>3, SameRound
<1>6. CASE GateNudge \/ EmptyNudge \/ ToolRound
  <2>1. /\ pc = "handle" /\ pc' = "prepare" /\ attempt' = attempt /\ round' = round + 1
        /\ round # MaxRounds
    BY <1>6 DEF GateNudge, EmptyNudge, ToolRound, NextRound, Synthesis
  <2> QED BY <2>1, LaterRound DEF Bounded
<1>7. CASE GiveUp \/ Answer \/ Finish
  <2>1. /\ pc = "handle" /\ pc' \in {"done", "failed"} /\ attempt' = attempt /\ round' = round
    BY <1>7 DEF GiveUp, Answer, Finish
  <2> QED BY <2>1, RunEnds
<1> QED BY <1>1, <1>2, <1>3, <1>4, <1>5, <1>6, <1>7 DEF Next

\* A run takes at most as many steps as its bounds allow, whatever its provider
\* answers: Remaining is a natural number and every step makes it less.
THEOREM RunsAreBounded == Spec => [](Remaining \in Nat) /\ Shortens
<1>1. Init => Bounded
  BY BoundsArePositive DEF Init, Bounded
<1>2. Bounded /\ [Next]_vars => Bounded' /\ [Remaining' < Remaining]_vars
  BY StepShortens
<1> QED BY <1>1, <1>2, RemainingIsNat, PTL DEF Spec, Shortens
=============================================================================
