------------------------------ MODULE ToolLoop ------------------------------
(***************************************************************************)
(* The tool loop of an agent (llm/tool_loop.py) with what it calls: the    *)
(* truncation of the conversation (llm/conversation.py), the choice of a   *)
(* model per attempt (llm/runtime.py) and the retry condition              *)
(* (llm/errors.py).                                                        *)
(*                                                                         *)
(* A message is its kind, the round that appended it, its size and its     *)
(* thinking.  All results of a round are one message.  Thinking is what    *)
(* the model saw when it produced it.  Both models read the same message   *)
(* shapes.  A run is one coroutine; its provider is the environment.       *)
(***************************************************************************)
EXTENDS Integers, Sequences, SequencesExt

CONSTANTS
  Primary, Fallback,  \* the models of an agent
  Openings,           \* sizes of the message that states the task
  Results,            \* sizes of tool results as tools return them
  Floor,              \* the size below which a result is not clipped
  MaxInput,           \* max_input_tokens
  MaxRounds,          \* max_tool_iterations
  MaxForced,          \* max_forced_iterations
  Attempts,           \* retry_attempts
  None

ASSUME ToolLoopAssumption ==
  /\ Primary # Fallback
  /\ Openings \subseteq Nat \ {0} /\ Results \subseteq Nat \ {0} /\ Floor \in Nat \ {0}
  /\ {MaxInput, MaxRounds, MaxForced, Attempts} \subseteq Nat \ {0}

VARIABLES
  setup,     \* what the caller asked for
  conv,      \* conversation_messages
  pc,
  round,     \* iteration
  attempt,   \* attempt number of the call in hand
  pinned,    \* the model a streamed synthesis keeps, or None
  forcing,   \* effective_tool_choice is "required" or "any"
  forced,    \* forced_rounds
  nudged,    \* the empty-response nudge is spent
  stale,     \* stale_thinking_before
  request,   \* the request that was answered, or None
  response,  \* its response
  recalled,  \* history: a tool of the gate has succeeded
  pressed    \* history: responses accepted while a tool was forced

vars == <<setup, conv, pc, round, attempt, pinned, forcing, forced, nudged, stale,
          request, response, recalled, pressed>>

\* final: what ends a run out of rounds, a call with no tools, one with
\* final_call_tools, or a stream.
Setups == [opening : Openings, fallback : BOOLEAN, structured : BOOLEAN, budgetLine : BOOLEAN,
           choice : {"auto", "required", "gated"}, final : {"answer", "tools", "stream"},
           preserving : {Primary, Fallback}]

-----------------------------------------------------------------------------
(* Messages and truncation. *)

Message(kind, size) == [kind |-> kind, round |-> round, size |-> size, think |-> None]

Size(c) ==
  LET upto[n \in 0 .. Len(c)] == IF n = 0 THEN 0 ELSE upto[n - 1] + c[n].size
  IN  upto[Len(c)]
\* The messages at some positions, in order.
Pick(c, kept) == [i \in 1 .. Cardinality(kept) |->
                    c[CHOOSE p \in kept : Cardinality({q \in kept : q < p}) = i - 1]]
SizeOf(c, kept) == Size(Pick(c, kept))

\* What a message says, its thinking apart.
Said(c) == [i \in DOMAIN c |-> [c[i] EXCEPT !.think = None]]

\* Mutant: results are units of their own.
Heads_Split(c) == {i \in DOMAIN c : c[i].kind # "system"}
\* The first messages of the units: a call goes with the results that follow it
\* and with the user message right after those.
Heads(c) ==
  {i \in DOMAIN c :
     /\ c[i].kind \notin {"system", "result"}
     /\ ~ (c[i].kind = "user" /\ i > 1 /\ c[i - 1].kind = "result")}

Unit(c, h) == {i \in h .. Len(c) : (h + 1 .. i) \cap Heads(c) = {}}
Units(c, heads) == UNION {Unit(c, h) : h \in heads}
HasResults(c, h) == \E i \in Unit(c, h) : c[i].kind = "result"

\* The opening unit, the newest one with tool results, and the newest one.
Held(c) ==
  {Min(Heads(c)), Max(Heads(c))} \cup
    {h \in Heads(c) : HasResults(c, h) /\ \A g \in Heads(c) : HasResults(c, g) => g <= h}

\* Mutant: the payload of a result is not found in its message.
Cut_Never(m, size) == m
Cut(m, size) == IF m.kind = "result" /\ m.size > Max({Floor, size})
                  THEN [m EXCEPT !.size = Max({Floor, size})] ELSE m

\* Clipping gives up as few results as will do, or all of them.
Clipped(c, kept, room) ==
  LET bulky     == {i \in kept : Cut(c[i], Floor) # c[i]}
      cut(some) == [i \in DOMAIN c |-> IF i \in some THEN Cut(c[i], Floor) ELSE c[i]]
      fitting   == {some \in SUBSET bulky : SizeOf(cut(some), kept) <= room}
      fewest    == {some \in fitting : \A i \in some : some \ {i} \notin fitting}
  IN  {Pick(cut(some), kept) : some \in IF fitting = {} THEN {bulky} ELSE fewest}

\* The oldest units go first, as long as they do not fit and are not held back.
Left(c, n) == {h \in Heads(c) : h > n \/ h \in Held(c)}
LeftToFit(c, room) ==
  LET enough == {n \in DOMAIN c : SizeOf(c, Units(c, Left(c, n))) <= room}
  IN  Left(c, IF enough = {} THEN Len(c) ELSE Min(enough))

\* The opening unit is the last one given up.
Shrunk(c, heads, room) ==
  LET clips == Clipped(c, Units(c, heads), room)
      rest  == Units(c, heads \ {Min(Heads(c))})
  IN  IF rest # {} /\ \A d \in clips : Size(d) > room THEN Clipped(c, rest, room) ELSE clips

Capped(c, room) == [i \in DOMAIN c |-> Cut(c[i], room \div 2)]

Truncated(c) ==
  LET room == MaxInput - Head(c).size
  IN  IF Size(c) <= MaxInput \/ room <= 0 THEN {c}
      ELSE {<<Head(c)>> \o d : d \in UNION {Shrunk(e, LeftToFit(e, room), room) : e \in {Capped(c, room)}}}

\* Mutant: only a dropped message counts as an edit.
StaleAfter_Dropped(c, d) == IF Len(d) < Len(c) THEN Len(d) ELSE stale
\* Messages whose thinking no longer follows what it was produced under.
StaleAfter(c, d) == IF d # c THEN Len(d) ELSE stale

-----------------------------------------------------------------------------
(* Attempts. *)

\* The fallback takes the last attempt.
PlanFor(n) == IF n = Attempts /\ setup.fallback THEN Fallback ELSE Primary
Model == IF pinned # None THEN pinned ELSE PlanFor(attempt)

Synthesis == round = MaxRounds

Offered == IF ~ Synthesis THEN "all" ELSE IF setup.final = "tools" THEN "final" ELSE "none"

WithoutStaleThinking(c) ==
  IF Model # setup.preserving THEN c
  ELSE [i \in DOMAIN c |-> IF i <= stale THEN [c[i] EXCEPT !.think = None] ELSE c[i]]

GateNudgeDue ==
  /\ setup.choice = "gated" /\ forcing
  /\ forced + 1 < MaxForced /\ round < MaxRounds - 1
EmptyNudgeDue == ~ nudged /\ round < MaxRounds - 1

\* A final answer that does not parse fails its attempt.
Misses(r) ==
  /\ setup.structured /\ r.kind = "answer" /\ r.content # "parsed"
  /\ pinned = None
  /\ ~ Synthesis => ~ GateNudgeDue /\ ~ (r.content = "empty" /\ EmptyNudgeDue)

Failures == {[kind |-> k] : k \in {"failed", "rejected"}}
Answers == {[kind |-> "answer", content |-> a] :
              a \in IF setup.structured THEN {"parsed", "text", "empty"} ELSE {"text", "empty"}}
\* A recall succeeds when a tool of the gate reports no error.
Calls == [kind : {"calls"}, recalls : BOOLEAN, size : Results]

Failed(r) == r \in Failures \/ Misses(r)
Retries(r) == /\ attempt < Attempts
              /\ r.kind = "rejected" => setup.fallback /\ pinned = None

Send ==
  /\ pc = "send"
  /\ request' = [model |-> Model, tools |-> Offered, messages |-> WithoutStaleThinking(conv)]
  /\ response' \in Failures \cup Answers \cup (IF Offered = "none" THEN {} ELSE Calls)
  /\ pc' = "handle"
  /\ UNCHANGED <<setup, conv, round, attempt, pinned, forcing, forced, nudged, stale, recalled, pressed>>

Handled == request' = None /\ response' = None

Retry ==
  /\ pc = "handle" /\ Failed(response) /\ Retries(response)
  /\ attempt' = attempt + 1 /\ pc' = "send" /\ Handled
  /\ UNCHANGED <<setup, conv, round, pinned, forcing, forced, nudged, stale, recalled, pressed>>

GiveUp ==
  /\ pc = "handle" /\ Failed(response) /\ ~ Retries(response)
  /\ pc' = "failed" /\ Handled
  /\ UNCHANGED <<setup, conv, round, attempt, pinned, forcing, forced, nudged, stale, recalled, pressed>>

-----------------------------------------------------------------------------
(* Rounds. *)

Press == pressed' = pressed + IF forcing THEN 1 ELSE 0

\* Mutant: rounds that call tools are not counted.
NextRound_Unlimited(r) == IF r.kind = "calls" THEN round ELSE round + 1
NextRound(r) == round + 1

Prepare ==
  /\ pc = "prepare" /\ ~ Synthesis
  /\ conv' \in Truncated(conv)
  /\ stale' = StaleAfter(conv, conv')
  /\ attempt' = 1 /\ pc' = "send"
  /\ UNCHANGED <<setup, round, pinned, forcing, forced, nudged, request, response, recalled, pressed>>

Nudge == conv' = Append(conv, Message("user", 1))

GateNudge ==
  /\ pc = "handle" /\ ~ Synthesis /\ response.kind = "answer" /\ GateNudgeDue
  /\ Nudge /\ forced' = forced + 1 /\ Press
  /\ round' = NextRound(response) /\ pc' = "prepare" /\ Handled
  /\ UNCHANGED <<setup, attempt, pinned, forcing, nudged, stale, recalled>>

EmptyNudge ==
  /\ pc = "handle" /\ ~ Synthesis /\ ~ Failed(response) /\ response.kind = "answer"
  /\ ~ GateNudgeDue /\ response.content = "empty" /\ EmptyNudgeDue
  /\ Nudge /\ nudged' = TRUE /\ Press
  /\ round' = NextRound(response) /\ pc' = "prepare" /\ Handled
  /\ UNCHANGED <<setup, attempt, pinned, forcing, forced, stale, recalled>>

\* The answer in hand is returned, or streamed as it is.
Answer ==
  /\ pc = "handle" /\ ~ Synthesis /\ ~ Failed(response) /\ response.kind = "answer"
  /\ ~ GateNudgeDue /\ ~ (response.content = "empty" /\ EmptyNudgeDue)
  /\ Press /\ pc' = "done"
  /\ UNCHANGED <<setup, conv, round, attempt, pinned, forcing, forced, nudged, stale, request,
                 response, recalled>>

\* Mutant: any successful tool satisfies the gate.
GateMet_AnyTool(r) == TRUE
GateMet(r) == setup.choice = "gated" => r.recalls

\* The calls with their thinking, the results, and the budget line.
ToolRound ==
  /\ pc = "handle" /\ ~ Synthesis /\ response.kind = "calls"
  /\ conv' = conv \o <<[Message("call", 1) EXCEPT !.think =
                           [under |-> Said(request.messages), tools |-> request.tools]],
                       Message("result", response.size)>>
                  \o IF setup.budgetLine THEN <<Message("user", 1)>> ELSE <<>>
  /\ recalled' = (recalled \/ response.recalls) /\ Press
  /\ forced' = forced + IF forcing THEN 1 ELSE 0
  /\ forcing' = (forcing /\ ~ GateMet(response) /\ forced' < MaxForced)
  /\ round' = NextRound(response) /\ pc' = "prepare" /\ Handled
  /\ UNCHANGED <<setup, attempt, pinned, nudged, stale>>

\* After the last round, one call with other tools or none.  A streamed one
\* keeps the model that the last round settled on.
Synthesize ==
  /\ pc = "prepare" /\ Synthesis
  /\ conv' \in Truncated(Append(conv, Message("user", 1)))
  /\ stale' = Len(conv')
  /\ pinned' = IF setup.final = "stream" THEN PlanFor(attempt) ELSE None
  /\ attempt' = 1 /\ pc' = "send"
  /\ UNCHANGED <<setup, round, forcing, forced, nudged, request, response, recalled, pressed>>

\* The tools of the last call run, and nothing follows.  A stream may break.
Finish ==
  /\ pc = "handle" /\ Synthesis /\ ~ Failed(response)
  /\ pc' \in IF pinned = None THEN {"done"} ELSE {"done", "failed"}
  /\ UNCHANGED <<setup, conv, round, attempt, pinned, forcing, forced, nudged, stale, request,
                 response, recalled, pressed>>

\* The run is over.
Over == pc \in {"done", "failed"} /\ UNCHANGED vars

Init ==
  /\ setup \in Setups
  /\ conv = <<[kind |-> "system", round |-> -1, size |-> 1, think |-> None],
              [kind |-> "user", round |-> -1, size |-> setup.opening, think |-> None]>>
  /\ pc = "prepare" /\ round = 0 /\ attempt = 1 /\ pinned = None
  /\ forcing = (setup.choice # "auto") /\ forced = 0 /\ nudged = FALSE /\ stale = 0
  /\ request = None /\ response = None
  /\ recalled = FALSE /\ pressed = 0

Next == \/ Prepare \/ Send \/ Retry \/ GiveUp \/ GateNudge \/ EmptyNudge \/ Answer \/ ToolRound
        \/ Synthesize \/ Finish \/ Over

Spec == Init /\ [][Next]_vars
\* A provider answers or fails, and a tool returns: the loop goes on until it
\* is over.  WF_vars(Next), with its ENABLED written out: every step but Over
\* moves pc, and one is possible until then.
FairSpec == Spec /\ ([]<>(pc \in {"done", "failed"}) \/ []<><<pc' # pc>>_vars)

-----------------------------------------------------------------------------
\* The message that states the task is there.
HasTask(c) == \E i \in DOMAIN c : c[i].kind = "user" /\ c[i].round = -1

\* Every call is directly followed by its results.
Whole(c) ==
  /\ \A i \in DOMAIN c : c[i].kind = "call" =>
       i < Len(c) /\ c[i + 1].kind = "result" /\ c[i + 1].round = c[i].round
  /\ \A i \in DOMAIN c : c[i].kind = "result" => i > 1 /\ c[i - 1].kind = "call"

\* Every request replays each call directly followed by its results, and the
\* newest results outlive every truncation as long as the task does
\* (truncate_messages_to_fit; "tool_use/tool_result pairs are never broken").
\* Once the task is given up, a call with its results is the opening unit, and
\* a nudge that follows it can cost them.
RequestsAreWhole ==
  [][/\ request' # None => Whole(request'.messages)
     /\ HasTask(conv) =>
          \A i \in DOMAIN conv : conv[i].kind = "result" =>
            \E j \in DOMAIN conv' : conv'[j].kind = "result" /\ conv'[j].round >= conv[i].round]_vars

\* A request fits max_input_tokens, or nothing is left to give up: it is the
\* task alone, or the task is gone and the newest results, clipped, and the last
\* turn are all there is.
RequestsFit ==
  pc = "handle" =>
    LET c == request.messages IN
      \/ Size(c) <= MaxInput
      \/ Cardinality(Heads(c)) = 1 /\ HasTask(c)
      \/ /\ Cardinality(Heads(c)) <= 2 /\ ~ HasTask(c)
         /\ \A i \in DOMAIN c : c[i].kind = "result" => c[i].size <= Floor

\* A model that preserves thinking is only sent thinking that it would find
\* after the same messages and under the same tools as when it was produced,
\* through truncations, nudges, retries and the fallback (_without_stale_thinking).
PrefixKept ==
  pc = "handle" /\ request.model = setup.preserving =>
    \A i \in DOMAIN request.messages :
      LET t == request.messages[i].think IN
        t # None => /\ t.under = Said(SubSeq(request.messages, 1, i - 1))
                    /\ t.tools = request.tools

\* A returned answer has the shape that was asked for, unless it was streamed,
\* and an agent that must recall answers without a recall only after it was
\* pressed as often as the loop can (force_tools_until, _require_structured_answer).
AnswersAreEarned ==
  pc = "done" =>
    /\ setup.structured /\ pinned = None /\ response.kind = "answer" => response.content = "parsed"
    /\ setup.choice = "gated" /\ ~ recalled => pressed >= Min({MaxForced, MaxRounds})

\* The task is in every request that no results compete with ("an oversized
\* prompt with no tool results is returned over budget", truncate_messages_to_fit).
TaskIsSent ==
  pc = "handle" /\ (\A i \in DOMAIN conv : conv[i].kind # "result") => HasTask(request.messages)

\* The steps a run may still take: one to prepare a round, two for each attempt
\* of its call.
Remaining ==
  IF pc \in {"done", "failed"} THEN 0
  ELSE (MaxRounds - round) * (2 * Attempts + 2) +
         CASE pc = "prepare" -> 2 * Attempts + 1
           [] pc = "send"    -> 2 * (Attempts - attempt) + 2
           [] pc = "handle"  -> 2 * (Attempts - attempt) + 1

\* Every step is one of a bounded number, whatever the model answers and however
\* nudges, retries, the fallback and the synthesis call meet
\* (max_tool_iterations, retry_attempts).
Shortens == [][Remaining' < Remaining]_vars

\* A run ends, even with a model that never stops calling tools.
Ends == <>(pc \in {"done", "failed"})
=============================================================================
