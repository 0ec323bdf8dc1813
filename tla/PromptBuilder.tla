----------------------------- MODULE PromptBuilder -----------------------------
(***************************************************************************)
(* PromptBuilder (prompt/builder.py): the layers of a prompt are set in an *)
(* order that keeps what seldom changes in front, so that prompts share    *)
(* the prefix a model's provider caches. The client is any code that calls *)
(* it, the agents' build_prompt (agents/base.py) among it.                 *)
(***************************************************************************)
EXTENDS Integers, Sequences

CONSTANT MaxMessages  \* bound: working messages of one prompt

ASSUME BuilderAssumption == MaxMessages \in Nat

VARIABLES
  content,  \* of the layers 0 to 3: "unset", "empty" or "text"
  working,  \* how many working messages there are
  last,     \* _last_layer
  raised,   \* the last call raised PromptOrderViolation
  built,    \* the blocks of the last prompt built from this builder
  usual     \* history: calls made in the agents' order, -1 once it was left

builder == <<content, working, last, raised, built, usual>>

\* _LAYER_ORDER: patterns are more stable than the state of a session.
Order == <<0, 1, 3, 2, 4>>
Position == [l \in 0 .. 4 |-> CHOOSE i \in 1 .. 5 : Order[i] = l]

\* BaseAgent.build_prompt: the five layers, and the prompt.
AgentCalls == <<"0", "1", "3", "2", "4", "build">>
Layer == [l \in 0 .. 4 |-> <<"0", "1", "2", "3", "4">>[l + 1]]

NewBuilder == /\ content' = [l \in 0 .. 3 |-> "unset"]
              /\ working' = 0
              /\ last' = -1
              /\ raised' = FALSE
              /\ built' = <<>>
              /\ usual' = 0

BuilderInit == /\ content = [l \in 0 .. 3 |-> "unset"]
               /\ working = 0
               /\ last = -1
               /\ raised = FALSE
               /\ built = <<>>
               /\ usual = 0

IsSet(l) == IF l = 4 THEN working > 0 ELSE content[l] # "unset"

\* Mutant of InOrder: a layer may be set again after a later one.
InOrder_again(l) == /\ l # last
                    /\ \A i \in 1 .. Position[l] - 1 : IsSet(Order[i])

\* _check_order: after the layer set last, and with all layers before it set.
InOrder(l) == /\ l # last
              /\ last # -1 => Position[l] > Position[last]
              /\ \A i \in 1 .. Position[l] - 1 : IsSet(Order[i])

Follows(call) == usual' = IF usual \in 0 .. 5 /\ AgentCalls[usual + 1] = call
                          THEN usual + 1 ELSE -1

\* set_system_identity, set_domain_memory, set_session_state and
\* set_semantic_patterns.
SetLayer(l) == /\ Follows(Layer[l])
               /\ raised' = ~InOrder(l)
               /\ IF InOrder(l)
                  THEN /\ \E c \in IF l = 0 THEN {"text"} ELSE {"empty", "text"} :
                            content' = [content EXCEPT ![l] = c]
                       /\ last' = l
                  ELSE UNCHANGED <<content, last>>
               /\ UNCHANGED <<working, built>>

\* The order is not checked once there is a session state.
AddMessage == /\ working < MaxMessages
              /\ Follows(Layer[4])
              /\ raised' = ~(IsSet(2) \/ InOrder(4))
              /\ working' = IF raised' THEN working ELSE working + 1
              /\ last' = IF raised' THEN last ELSE 4
              /\ UNCHANGED <<content, built>>

\* A layer without text is left out.
Block(l) == IF content[l] = "text" THEN <<l>> ELSE <<>>

\* The system prompt is the identity and the domain memory; then come the
\* patterns, the session state and the working messages.
Assembled == Block(0) \o Block(1) \o Block(3) \o Block(2) \o [i \in 1 .. working |-> 4]

Build == /\ Follows("build")
         /\ raised' = ~IsSet(0)
         /\ built' = IF raised' THEN built ELSE Assembled
         /\ UNCHANGED <<content, working, last>>

BuilderNext == \/ NewBuilder
               \/ \E l \in 0 .. 3 : SetLayer(l)
               \/ AddMessage
               \/ Build

BuilderTypeOK == /\ content \in [0 .. 3 -> {"unset", "empty", "text"}]
                 /\ working \in 0 .. MaxMessages
                 /\ last \in -1 .. 4
                 /\ raised \in BOOLEAN
                 /\ built \in Seq(0 .. 4)
                 /\ usual \in -1 .. 6

\* Thariq's Law: whatever a client calls, in whatever order, what it builds
\* later from the same builder starts with what it built before, so that the
\* cached prefix stays valid; and the calls of the agents never raise.
PromptsOnlyGrow == /\ Len(built) <= Len(Assembled)
                   /\ built = SubSeq(Assembled, 1, Len(built))
                   /\ usual > 0 => ~raised
-----------------------------------------------------------------------------
(* The inductive invariant.                                                *)

\* Exactly the first k layers of the order are set, the k-th of them last.
Depth(k) == /\ \A i \in 1 .. 5 : IsSet(Order[i]) <=> i <= k
            /\ last = IF k = 0 THEN -1 ELSE Order[k]

\* And those are as many as there were calls, while they come in the agents'
\* order.
BuilderIInv == /\ BuilderTypeOK
               /\ PromptsOnlyGrow
               /\ \E k \in 0 .. 5 : Depth(k) /\ (usual \in 0 .. 5 => k = usual)
=============================================================================
