--------------------------------- MODULE Memory --------------------------------
(***************************************************************************)
(* What the agents of one worker process remember, and how it gets into    *)
(* their prompts: the domain memory cached for the life of the process     *)
(* (activities/implementations.py), the graph store with its recall        *)
(* (memory/graph_store.py, recall.py), and the bulletins that summarise it *)
(* (memory/bulletin.py, bulletin_store.py, workflows/cortex.py).           *)
(*                                                                         *)
(* Tasks are coroutines of the worker's event loop: a step runs from one   *)
(* await to the next. The store and the bulletins are modelled with their  *)
(* whole interface, whoever calls it; see the README for who does.         *)
(***************************************************************************)
EXTENDS PromptBuilder, FiniteSets

CONSTANTS Tasks,        \* concurrent activities and callers
          Nodes,        \* bound: memory nodes of one life of the worker
          MaxVersion,   \* bound: versions of the domain memory file
          MaxClock      \* bound: generations of a bulletin in all

ASSUME MemoryAssumption == MaxVersion \in Nat \ {0} /\ MaxClock \in Nat

VARIABLES
  version,    \* of the domain's file in the storage
  cache,      \* _DOMAIN_MEMORY_CACHE of the domain, 0 when there is none
  stored,     \* the store's nodes
  forgotten,  \* _forgotten
  bulletin,   \* the domain's bulletin
  clock,      \* the time; it is looked at when a bulletin is generated
  pc,         \* where each task is
  held,       \* what each task holds, see Holding
  born,       \* history: version when the worker was started
  dropped,    \* history: when each node was forgotten
  saved       \* history: when the bulletins saved in this life were generated

memory == <<version, cache, stored, forgotten, bulletin, clock, pc, held, born, dropped, saved>>
vars == <<memory, builder>>

graph == <<stored, forgotten, dropped>>
bulletins == <<bulletin, clock, saved>>
domain == <<version, cache, born>>

\* A bulletin, or none: when it was generated, and the nodes it summarises.
\* Without a node its summary is empty.
NoBulletin == [at |-> 0, seen |-> {}]

\* What a task holds: the domain memory it loaded, the nodes it recalled,
\* the bulletin it was shown or has generated, and when it asked.
NothingHeld == [memory |-> 0, recalled |-> {}, bulletin |-> NoBulletin, asked |-> {}]

Init == /\ version = 1
        /\ cache = 0
        /\ stored = {}
        /\ forgotten = {}
        /\ bulletin = NoBulletin
        /\ clock = 0
        /\ pc = [t \in Tasks |-> "idle"]
        /\ held = [t \in Tasks |-> NothingHeld]
        /\ born = 1
        /\ dropped = [n \in Nodes |-> 0]
        /\ saved = {}
        /\ BuilderInit

Moves(t, from, to) == /\ pc[t] = from
                      /\ pc' = [pc EXCEPT ![t] = to]

-----------------------------------------------------------------------------
(* An agent's prompt.                                                      *)

\* Mutant of LoadDomain: what was loaded is not kept.
LoadDomain_uncached(t) ==
  /\ Moves(t, "idle", "embed query")
  /\ held' = [held EXCEPT ![t] = [NothingHeld EXCEPT
       !.memory = IF cache # 0 THEN cache ELSE version, !.asked = forgotten]]
  /\ UNCHANGED <<domain, graph, bulletins>>

\* _get_domain_memory_cached. A read of local storage does not suspend, so
\* no other task comes between the look at the cache and its filling.
LoadDomain(t) ==
  /\ Moves(t, "idle", "embed query")
  /\ cache' = IF cache # 0 THEN cache ELSE version
  /\ held' = [held EXCEPT ![t] = [NothingHeld EXCEPT !.memory = cache', !.asked = forgotten]]
  /\ UNCHANGED <<version, born, graph, bulletins>>

Live == stored \ forgotten

\* The query is embedded: the nodes alive now are its candidates, few enough
\* for top_k to take them all, and the bulletin kept now is added to them.
Prompt(t) ==
  /\ Moves(t, "embed query", "answer")
  /\ held' = [held EXCEPT ![t].recalled = Live, ![t].bulletin = bulletin]
  /\ UNCHANGED <<domain, graph, bulletins>>

\* The model answers or raises, and so does the embedder.
Ends(t) ==
  /\ \E s \in {"embed query", "answer", "embed node", "gather", "summarise"} : Moves(t, s, "idle")
  /\ held' = [held EXCEPT ![t] = NothingHeld]
  /\ UNCHANGED <<domain, graph, bulletins>>

-----------------------------------------------------------------------------
(* The graph store.                                                        *)

Embed(t) ==
  /\ Moves(t, "idle", "embed node")
  /\ UNCHANGED <<held, domain, graph, bulletins>>

Store(t) ==
  /\ Moves(t, "embed node", "idle")
  /\ \E n \in Nodes \ stored : stored' = stored \cup {n}
  /\ UNCHANGED <<held, forgotten, dropped, domain, bulletins>>

\* A soft delete: the node stays, and is no candidate any more.
Forget(n) ==
  /\ n \in Live
  /\ forgotten' = forgotten \cup {n}
  /\ dropped' = [dropped EXCEPT ![n] = clock]
  /\ UNCHANGED <<stored, pc, held, domain, bulletins>>

-----------------------------------------------------------------------------
(* Bulletins.                                                              *)

\* cortex_generate_bulletin: the patterns are recalled first.
Generate(t) ==
  /\ Moves(t, "idle", "gather")
  /\ UNCHANGED <<held, domain, graph, bulletins>>

\* They are there, and the time of the bulletin is taken, before the model
\* is asked to summarise them. Without patterns it is not asked.
Gather(t) ==
  /\ clock < MaxClock
  /\ Moves(t, "gather", IF Live = {} THEN "generated" ELSE "summarise")
  /\ clock' = clock + 1
  /\ held' = [held EXCEPT ![t].bulletin = [at |-> clock', seen |-> Live]]
  /\ UNCHANGED <<bulletin, saved, domain, graph>>

Summarised(t) ==
  /\ Moves(t, "summarise", "generated")
  /\ UNCHANGED <<held, domain, graph, bulletins>>

\* Mutant of Save: the last one saved is kept.
Save_last(t) ==
  /\ Moves(t, "generated", "idle")
  /\ bulletin' = held[t].bulletin
  /\ saved' = saved \cup {held[t].bulletin.at}
  /\ held' = [held EXCEPT ![t] = NothingHeld]
  /\ UNCHANGED <<clock, domain, graph>>

Save(t) ==
  /\ Moves(t, "generated", "idle")
  /\ bulletin' = IF held[t].bulletin.at >= bulletin.at THEN held[t].bulletin ELSE bulletin
  /\ saved' = saved \cup {held[t].bulletin.at}
  /\ held' = [held EXCEPT ![t] = NothingHeld]
  /\ UNCHANGED <<clock, domain, graph>>

\* What CortexBulletinWorkflow does with it: the bulletin is its result.
Discard(t) ==
  /\ Moves(t, "generated", "idle")
  /\ held' = [held EXCEPT ![t] = NothingHeld]
  /\ UNCHANGED <<domain, graph, bulletins>>

-----------------------------------------------------------------------------
(* The world around.                                                       *)

\* The file is changed by its maintainers; DomainStore.write always raises.
UpdateDomain == /\ version < MaxVersion
                /\ version' = version + 1
                /\ UNCHANGED <<cache, born, graph, bulletins, pc, held>>

\* All of it was in the memory of the process.
Restart == /\ cache' = 0
           /\ born' = version
           /\ stored' = {}
           /\ forgotten' = {}
           /\ dropped' = [n \in Nodes |-> 0]
           /\ bulletin' = NoBulletin
           /\ saved' = {}
           /\ pc' = [t \in Tasks |-> "idle"]
           /\ held' = [t \in Tasks |-> NothingHeld]
           /\ UNCHANGED <<version, clock>>

Remember == \/ \E t \in Tasks : \/ LoadDomain(t) \/ Prompt(t) \/ Ends(t)
                                \/ Embed(t) \/ Store(t)
                                \/ Generate(t) \/ Gather(t) \/ Summarised(t)
                                \/ Save(t) \/ Discard(t)
            \/ \E n \in Nodes : Forget(n)
            \/ UpdateDomain
            \/ Restart

Next == \/ Remember /\ UNCHANGED builder
        \/ BuilderNext /\ UNCHANGED memory

Spec == Init /\ [][Next]_vars

-----------------------------------------------------------------------------
Bulletins == [at : 0 .. MaxClock, seen : SUBSET Nodes]

\* The worker's stores, its tasks and a builder.
TypeOK == /\ version \in 1 .. MaxVersion
          /\ cache \in 0 .. version
          /\ stored \subseteq Nodes
          /\ forgotten \subseteq stored
          /\ bulletin \in Bulletins
          /\ clock \in 0 .. MaxClock
          /\ pc \in [Tasks -> {"idle", "embed query", "answer", "embed node", "gather",
                               "summarise", "generated"}]
          /\ held \in [Tasks -> [memory : 0 .. version, recalled : SUBSET Nodes,
                                 bulletin : Bulletins, asked : SUBSET Nodes]]
          /\ born \in 1 .. version
          /\ dropped \in [Nodes -> 0 .. MaxClock]
          /\ saved \subseteq 1 .. MaxClock
          /\ BuilderTypeOK

Prompted == {t \in Tasks : pc[t] = "answer"}

\* The agents that work at the same time in one process work from the same
\* domain memory, one the file has had since the process started, however it
\* was changed meanwhile; and no prompt shows a node that was forgotten
\* before its agent asked.
PromptsAreCurrent ==
  \A t \in Prompted :
    /\ held[t].memory \in born .. version
    /\ \A u \in Prompted : held[u].memory = held[t].memory
    /\ held[t].recalled \cap held[t].asked = {}

\* The bulletin shown is the newest of those saved, though generations
\* overlap and end in any order, and it summarises nothing that had been
\* forgotten when it was generated. What is forgotten later it still shows.
BulletinIsNewest ==
  /\ bulletin.at \in saved \cup {0}
  /\ \A at \in saved : at <= bulletin.at
  /\ \A n \in bulletin.seen \cap forgotten : dropped[n] >= bulletin.at
-----------------------------------------------------------------------------
(* The inductive invariant.                                                *)

\* Until it is answered a task that prompts holds what is cached, and asked
\* when no more was forgotten than now.
HoldsCache ==
  /\ cache # 0 => cache >= born
  /\ \A t \in Tasks : pc[t] \in {"embed query", "answer"} =>
       /\ cache # 0 /\ held[t].memory = cache
       /\ held[t].asked \subseteq forgotten
       /\ pc[t] = "answer" => held[t].recalled \cap held[t].asked = {}

\* A bulletin tells of no node that was forgotten before it, wherever it is.
Timely(b) == /\ b.at <= clock
             /\ \A n \in b.seen \cap forgotten : dropped[n] >= b.at

BulletinsTimely ==
  /\ Timely(bulletin)
  /\ \A t \in Tasks : /\ Timely(held[t].bulletin)
                      /\ pc[t] = "generated" => held[t].bulletin.at > 0
                      /\ pc[t] = "summarise" => held[t].bulletin.at > 0

IInv == TypeOK /\ BuilderIInv /\ HoldsCache /\ BulletinsTimely /\ BulletinIsNewest
=============================================================================
