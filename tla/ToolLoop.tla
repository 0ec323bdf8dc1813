------------------------------ MODULE ToolLoop ------------------------------
(***************************************************************************)
(* ToolHandler.run_loop (llm/tool_handler.py), the loop every agent with   *)
(* tools runs in: send the conversation, execute the tools the model asks  *)
(* for, send their results back. With it the doom-loop detector            *)
(* (llm/loop_detection.py), the guard on tool results                      *)
(* (prompt/tool_result_guard.py) and the compaction of the conversation    *)
(* (prompt/compaction_client.py).                                          *)
(*                                                                         *)
(* A message is its role, the tool calls it makes or answers, and whether  *)
(* it alone fills the part of the context window a conversation may take   *)
(* before it is compacted; calls are numbered in the order the model made  *)
(* them. The prompt's messages count as one, and a loop without a          *)
(* compaction client behaves like one whose prompt is short.               *)
(***************************************************************************)
EXTENDS Naturals, Sequences, FiniteSets

CONSTANTS MaxTurns,   \* max_turns
          Threshold,  \* loop_threshold
          Keep,       \* _RECENT_MESSAGES_KEEP
          Resources,  \* the operations and tools whose calls are tracked
          MaxCalls    \* bound: an answer that takes their number above this has one call

\* Keep is 10: what matters is that it is even, see PairsSurvive.
ASSUME LoopAssumption == /\ MaxTurns \in Nat \ {0}
                         /\ Threshold \in Nat \ {0}
                         /\ Keep \in Nat \ {0} /\ Keep % 2 = 0
                         /\ MaxCalls \in Nat \ {0}
                         /\ {"untracked", "unknown"} \cap Resources = {}

\* What a call can name: a tracked resource, execute_api with no operation,
\* or a tool nobody handles.
Targets == Resources \cup {"untracked", "unknown"}

VARIABLES
  pc,        \* "turn", "send", "tools"; "done" or "raised" when run_loop is left
  turn,      \* turns
  messages,  \* current_messages
  calls,     \* all_tool_calls: what each names
  results,   \* what became of each call executed so far
  counts,    \* ResourceEditTracker._counts
  errors,    \* tool_errors
  warnings,  \* loop_warnings
  reached    \* max_turns_reached

vars == <<pc, turn, messages, calls, results, counts, errors, warnings, reached>>

Text(r, big) == [role |-> r, uses |-> {}, answers |-> {}, big |-> big]
ToolUse(uses) == [role |-> "assistant", uses |-> uses, answers |-> {}, big |-> FALSE]
ToolResults(answers, big) ==
  [role |-> "user", uses |-> {}, answers |-> answers, big |-> big]

IsText(m) == m.uses = {} /\ m.answers = {}

Init == /\ pc = "turn"
        /\ turn = 0
        /\ \E long \in BOOLEAN : messages = <<Text("user", long)>>
        /\ calls = <<>>
        /\ results = <<>>
        /\ counts = [r \in Resources |-> 0]
        /\ errors = 0
        /\ warnings = 0
        /\ reached = FALSE

-----------------------------------------------------------------------------
tally == <<calls, results, counts, errors, warnings>>

\* The words of the messages whose content is a string: a summary is short,
\* and the blocks of tool calls and tool results count nothing.
NeedsCompaction == \E i \in 1 .. Len(messages) : IsText(messages[i]) /\ messages[i].big

NextTurn == /\ pc = "turn"
            /\ turn < MaxTurns
            /\ turn' = turn + 1
            /\ pc' = "send"
            /\ UNCHANGED <<tally, reached>>

Begin == /\ NextTurn
         /\ ~NeedsCompaction
         /\ UNCHANGED messages

\* Mutant of Recent: one message fewer than _RECENT_MESSAGES_KEEP.
Recent_odd(ms) == IF Len(ms) > Keep - 1 THEN SubSeq(ms, Len(ms) - Keep + 2, Len(ms))
                                        ELSE ms

Recent(ms) == IF Len(ms) > Keep THEN SubSeq(ms, Len(ms) - Keep + 1, Len(ms)) ELSE ms

\* The conversation is replaced by a summary and its last messages; one no
\* longer than Keep grows.
Compact == /\ NextTurn
           /\ NeedsCompaction
           /\ messages' = <<Text("assistant", FALSE)>> \o Recent(messages)

\* stop_reason is not tool_use: whatever the answer is, it is the result.
Finish == /\ pc = "send"
          /\ pc' = "done"
          /\ UNCHANGED <<turn, messages, tally, reached>>

\* The model asks for some calls, all of which go into one message.
CallTools == /\ pc = "send"
             /\ \E n \in 1 .. MaxCalls : \E asked \in [1 .. n -> Targets] :
                  /\ n = 1 \/ Len(calls) + n <= MaxCalls
                  /\ calls' = calls \o asked
                  /\ messages' = Append(messages, ToolUse(Len(calls) + 1 .. Len(calls) + n))
             /\ pc' = "tools"
             /\ UNCHANGED <<turn, results, counts, errors, warnings, reached>>

\* The call that is executed next: one after the other, in the order asked.
Current == Len(results) + 1
Executing == pc = "tools" /\ Current <= Len(calls)

\* Mutant of Fault: an exception of a handler is not counted.
Fault_uncounted(how) == /\ results' = Append(results, how)
                        /\ errors' = IF how = "raised" THEN errors ELSE errors + 1
                        /\ UNCHANGED <<pc, turn, messages, calls, counts, warnings, reached>>

Fault(how) == /\ results' = Append(results, how)
              /\ errors' = errors + 1
              /\ UNCHANGED <<pc, turn, messages, calls, counts, warnings, reached>>

NoHandler == /\ Executing
             /\ calls[Current] = "unknown"
             /\ Fault("unknown")

\* The handler's exception becomes the call's result; the tracker, which
\* comes after the try, does not see the call.
Raises == /\ Executing
          /\ calls[Current] # "unknown"
          /\ Fault("raised")

\* Mutant of Warned: the guidance comes one call late.
Warned_late(n) == n > Threshold

\* record(): the guidance is given from the threshold on.
Warned(n) == n >= Threshold

\* The output, redacted if the guard finds it suspicious, is tracked.
Returns == /\ Executing
           /\ calls[Current] # "unknown"
           /\ \E how \in {"output", "redacted"} :
                /\ results' = Append(results, how)
                /\ errors' = IF how = "redacted" THEN errors + 1 ELSE errors
           /\ IF calls[Current] \in Resources
              THEN LET n == counts[calls[Current]] + 1
                   IN  /\ counts' = [counts EXCEPT ![calls[Current]] = n]
                       /\ warnings' = IF Warned(n) THEN warnings + 1 ELSE warnings
              ELSE UNCHANGED <<counts, warnings>>
           /\ UNCHANGED <<pc, turn, messages, calls, reached>>

\* All calls of the turn are answered in one message, long if an output is.
Reply == /\ pc = "tools"
         /\ Current > Len(calls)
         /\ LET asked == messages[Len(messages)].uses
            IN  \E long \in BOOLEAN :
                  /\ long => \E k \in asked : results[k] = "output"
                  /\ messages' = Append(messages, ToolResults(asked, long))
         /\ pc' = "turn"
         /\ UNCHANGED <<turn, tally, reached>>

\* Mutant of Exhaust: the result after the loop is returned one turn late.
Exhaust_late == /\ pc = "turn"
                /\ turn > MaxTurns
                /\ pc' = "done"
                /\ reached' = TRUE
                /\ UNCHANGED <<turn, messages, tally>>

\* The model still asks for tools after max_turns.
Exhaust == /\ pc = "turn"
           /\ turn = MaxTurns
           /\ pc' = "done"
           /\ reached' = TRUE
           /\ UNCHANGED <<turn, messages, tally>>

\* A call to the model, to answer or to compact, raises out of run_loop.
ModelFails == /\ pc = "send" \/ (pc = "turn" /\ turn < MaxTurns /\ NeedsCompaction)
              /\ pc' = "raised"
              /\ UNCHANGED <<turn, messages, tally, reached>>

Next == \/ Begin \/ Compact \/ Finish \/ CallTools
        \/ NoHandler \/ Raises \/ Returns \/ Reply
        \/ Exhaust \/ ModelFails

\* The coroutine runs on: the model and the tools answer or raise.
Spec == Init /\ [][Next]_vars /\ WF_vars(Next)

-----------------------------------------------------------------------------
Messages == [role : {"user", "assistant"}, uses : SUBSET Nat, answers : SUBSET Nat,
             big : BOOLEAN]
Hows == {"unknown", "raised", "output", "redacted"}

TypeOK == /\ pc \in {"turn", "send", "tools", "done", "raised"}
          /\ turn \in 0 .. MaxTurns
          /\ messages \in Seq(Messages)
          /\ calls \in Seq(Targets)
          /\ results \in Seq(Hows)
          /\ counts \in [Resources -> Nat]
          /\ errors \in Nat
          /\ warnings \in Nat
          /\ reached \in BOOLEAN

\* The conversation sent to the model never has a tool result without its
\* call in the message before, nor a call without its result in the message
\* after, however often it was compacted: a compaction cuts at an even
\* distance from a result that is the last message.
PairsSurvive ==
  \A i \in 1 .. Len(messages) :
    /\ messages[i].answers # {} =>
         i > 1 /\ messages[i - 1].uses = messages[i].answers
    /\ messages[i].uses # {} /\ (i < Len(messages) \/ pc \in {"turn", "send"}) =>
         i < Len(messages) /\ messages[i + 1].answers = messages[i].uses

Tracked(k) == calls[k] \in Resources /\ results[k] \in {"output", "redacted"}

\* The tracked calls of r among the first n, and the calls the guidance is
\* due for.
TrackedOf(r, n) == {j \in 1 .. n : Tracked(j) /\ calls[j] = r}
Due == {k \in 1 .. Len(results) :
          Tracked(k) /\ Cardinality(TrackedOf(calls[k], k)) >= Threshold}

\* The guidance is given for exactly the calls from the Threshold-th of a
\* resource on, counted over the whole loop and across compactions.
GuidanceIsDue == warnings = Cardinality(Due)

Failed == {k \in 1 .. Len(results) : results[k] # "output"}

\* What run_loop reports of its errors is what happened to the calls, and
\* when it returns every call the model made was executed.
ReportIsTrue ==
  /\ errors = Cardinality(Failed)
  /\ pc = "done" => Len(results) = Len(calls)

\* The loop ends with a result, or with the exception of a call to the model,
\* although the model may ask for tools for ever.
Ends == <>(pc \in {"done", "raised"})
-----------------------------------------------------------------------------
(* The inductive invariant.                                                *)

\* After the p-th message calls and their results take turns.
PairsAfter(p) ==
  /\ p \in 1 .. Len(messages)
  /\ \A i \in 1 .. p : IsText(messages[i])
  /\ \A i \in p + 1 .. Len(messages) :
       IF (i - p) % 2 = 1
       THEN messages[i].uses # {} /\ messages[i].answers = {}
       ELSE messages[i].uses = {} /\ messages[i].answers = messages[i - 1].uses
  /\ (Len(messages) - p) % 2 = IF pc = "tools" THEN 1 ELSE 0

\* The conversation is some texts, the prompt or the summaries, and then pairs.
Paired == \E p \in 1 .. Len(messages) : PairsAfter(p)

\* Calls are executed in the order they were made, all of a turn in the turn.
InOrder == /\ Len(results) <= Len(calls)
           /\ pc # "tools" => Len(results) = Len(calls)

Counted == \A r \in Resources : counts[r] = Cardinality(TrackedOf(r, Len(results)))

IInv == TypeOK /\ Paired /\ InOrder /\ Counted /\ GuidanceIsDue /\ ReportIsTrue
=============================================================================
