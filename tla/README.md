# Simuladores / agent-harness: a TLA+ verification project

The program (`src/agent_harness`) runs *operativos*: a caller submits a document
through an HTTP gateway, a Temporal workflow takes it through seven phases, LLM
agents do the work of each phase in activities, and the result is returned,
posted to a callback endpoint and learned from. The modules here model the parts
of it where order, failure and time decide whether it is right. TLC checks them
on small instances; TLAPS proves the main results for every value of the
constants. `PROJECT.json` lists runs, mutants, findings, hazards, theorems, and
for each definition the source lines it stands for.

Paths below are relative to `src/agent_harness/`.

## 1. Inventory

| Component | State | Operations | Talks to | Where it is modelled |
|---|---|---|---|---|
| DCE workflow, `workflows/operativo_workflow.py` | the coroutine's locals: outputs, the review, the attempt | `run`, `_qa_with_retry` | Temporal server (activities) | `DceWorkflow` (implements `Operativo`) |
| IDP and HAS workflows, `workflows/{idp,has}_workflow.py` | as DCE | `run`, `_qa_with_retry` | Temporal server | `RetryingWorkflow` (implements `Operativo`) |
| Worker shutdown, `workers/` | two tasks, one event | drain with a limit | Temporal worker | `RetryingWorkflow`; as `Crash` in `DceWorkflow` |
| DCE activities and agents, `activities/implementations.py`, `agents/` | none | one function per activity | LLM client, tool loop, stores | what they return and raise, in `DceWorkflow` |
| Callback delivery, `gateway/callback.py`, `activities/callback.py` | attempt, last error | `deliver` | the caller's endpoint | `Callback` |
| Gateway, `gateway/app.py` | Temporal client singleton and its lock | submit, status, feedback, probes | limiter, audit log, Temporal | `Gateway` |
| Rate limiter, `gateway/rate_limiter.py` | timestamps by caller | `check` | the clock | `RateLimiter` |
| Audit log, `observability/audit.py` | entries, index by caller | `log` | gateway | `Gateway` (`Log`) |
| Tool loop, `llm/tool_handler.py`, `llm/loop_detection.py`, `prompt/compaction_client.py`, `prompt/tool_result_guard.py` | conversation, counters | `run_loop`, `record`, `compact`, `sanitize_tool_result` | LLM client, tool handlers | `ToolLoop` |
| Tool handlers and job polling, `activities/factory.py` | elapsed, extraction | one handler per tool | DCE Backend, IDP Platform, session storage | `ToolHandlers`; the product profile in `Citations` |
| Diagnostics, `diagnostics/dce.py` | none | `collect_dce_diagnostics` | history, session, DCE Backend | `ToolHandlers` (the order of its reads) |
| Citation completeness, `domains/dce/citation_*.py` and the web verification | constant tables | normalise, classify, report, verify | workflow, web search | `Citations` |
| Prompt builder, `prompt/builder.py` | layers set so far | one setter per layer, `build` | all agents | `PromptBuilder` |
| Domain memory, graph memory, recall, bulletins, cortex | the process's cache; nodes; bulletins | load, store, forget, recall, generate, save | activities | `Memory` (extends `PromptBuilder`) |
| Session store, `memory/session_store.py` | files | append, read | storage backend | not modelled: only tests append |
| Cache monitor, `observability/cache_monitor.py` | buckets under a lock | `record`, `get_stats` | agents | not modelled (section 5) |
| Heartbeat and feedback workflows | loop counters | `run` | Temporal | not modelled (section 5) |
| Permissions, registries, routing, request validation, injection guard | constant tables | lookups | gateway, tools, agents | not modelled: no state changes |
| Embeddings, other memory backends, prompt cache adapter | none | calls of services, a translation | LLM providers | not modelled: no state of their own |
| Sandbox, export, logging, metrics | none or I/O | | | not modelled: I/O and formatting |

### How the parts interact

`Gateway` authenticates, asks the limiter, validates, gets the lazily connected
Temporal client, starts a workflow and logs the dispatch. From then on the
Temporal server owns the operativo: it runs the workflow's coroutine, queues its
activities and hands them to a worker process that executes them. Most activities
run one agent: it loads the domain memory, recalls nodes, builds a prompt in
layers, and makes one call to the model or runs one tool loop, whose handlers
upload to and poll the DCE Backend or ask the IDP Platform. Between the phases the
DCE workflow computes the citation report itself. When the
result is synthesized the workflow runs `deliver_callback`, which posts it, and
`post_job_learn`. The status handler asks the Temporal server, nobody else; the
diagnostics read the history, the session files and the backend one after the other.

### Behaviours that are hard

* An activity lives in the server's history and in a worker, and the two part
  company: `start_to_close` expires while the code runs, the worker dies or drains.
  In the DCE workflow there is no second attempt; in the others there is always
  one, beside the first.
* The correction loop has five exits and two copies of "the output".
* The callback retries, and a tool polls, inside an activity that is itself timed.
* A job of the backend outlives the call, and the reply of an upload can be lost.
* Handlers of the gateway interleave at every await, probes are cancelled, the
  reply of `start_workflow` can be lost.
* Compaction rewrites the conversation while tool calls and results must stay
  paired.
* Two pieces of code derive a product profile from one document, each from fields of
  its own and with regular expressions of its own.
* Domain memory is cached for the life of a process; nodes are forgotten and
  bulletins generated between the awaits of other tasks.

### What makes each part correct

Workflows: no result is handed out on a review that missed the last
correction; a suspicious document reaches no later phase; nothing runs for a DCE
operativo that was delivered; it closes. Callback: it reports what it heard, repeats only what it did not hear
accepted, and fits its time. Gateway: one connection, a lock that is never left
held, a log that agrees with the answers and with the server. Limiter: no window
holds more than the limit and the `retry_after` it computes is exact. Tool loop: it ends, what it
reports is what happened, and every conversation it sends is well formed. Tool
handlers: "completed" is earned by a poll or by the whole budget, what is rejected was
never sent, and a call ends by itself. Citations: the report says of every citation and
requirement what the registry says, the two profiles differ only where the document
shows why, and the evidence is complete when the review begins. Prompts: a prefix that was cached stays valid. Memory: concurrent
agents see one domain memory, and nothing that was forgotten before they asked.

## 2. Modules

| Module | Extends | Lines of code it models |
|---|---|---|
| `Operativo` | | `core/operativo.py`: what any operativo promises its caller |
| `DceWorkflow` | (INSTANCE `Operativo`) | `run`, `_qa_with_retry`, the activities' results, server and worker |
| `RetryingWorkflow` | (INSTANCE `Operativo`) | the IDP and HAS workflows, the default retry policy, the worker's life |
| `Callback` | | `CallbackService.deliver` on a clock |
| `RateLimiter` | | `InMemoryRateLimiter.check` |
| `Gateway` | `RateLimiter` | the handlers, the client singleton, `AuditLogger.log` |
| `ToolLoop` | | `ToolHandler.run_loop` and what it calls |
| `ToolHandlers` | | the handlers a tool loop calls, the backend's jobs, the diagnostics |
| `Citations`, `MCCitations` | | the citation report, the web verification, the tool's profile |
| `PromptBuilder` | | `PromptBuilder`, every call in every order |
| `Memory`, `MCMemory` | `PromptBuilder` | domain cache, graph store, recall, bulletins |
| `*_proofs` | the module it proves about, `TLAPS` | theorems and proofs; the limiter's are in `Gateway_proofs`, the builder's in `Memory_proofs` |

### `DceWorkflow`

`pc` is the await the coroutine is parked at. One action per stretch of code
between two awaits: `Resumes(p)` is "the results awaited at p are there", `ParkAt`
"schedule the next activities and wait", `Close` "return". `server[a]` is the
activity in the workflow's history (idle, scheduled, started, done, failed),
`running` the set executing in the worker. Each activity has one instance
at a time except after a timeout, so the activity's name identifies it;
`NoOverlap` checks that this is right.

Outputs of Lamponne are numbered; output 0 is the original. A review is the
number it looked at and one of four findings: clean, unreadable (an answer that
is not JSON, which `_parse_qa_json` reads as an empty report), fixable and
unfixable. A synthesized result is the output it was assembled from, the status
it states, and whether Ravenna answered in prose.

`halted` is Medina's verdict. What Medina writes in the snapshot is data, except
that a citation which is no string makes `compute_completeness_report` raise in
workflow code: Temporal retries the workflow task for ever, state `blocked`.

### `RetryingWorkflow`

The two workflows are one shape in two files: one activity at a time, called by
name, with no retry policy and no result type. Hence `server` is the state of the
one awaited activity, `alive` tells whether the attempt it waits for is executing,
and `strays[a]` counts the executions the server has given up and the worker
still runs. `input` says what makes the two files differ in effect: the domain
(for `has`, `build_tool_handler` raises, so that Medina, Lamponne and Ravenna
always fail) and whether the client's data converter rebuilds typed results.
With the default one the plan is a dict, and `plan_output.phase_result` raises in
the workflow task (`ReadsDict`). `worker` goes from `up` by a signal to `stopping`
(inside `worker.shutdown()`), `draining` (inside `wait_for`) and `down`, from where
whoever operates it starts another. The SDK cancels the running activity during
a shutdown (`Cancelled`), since no grace period is configured.

### `Callback`

Seconds are natural numbers and `Tick` lets one pass. `remaining` is what is left
of the socket operation or of the pause. The timeout given to `urlopen` bounds
each socket operation and not the attempt, hence `Trickle`. The endpoint may
handle a request long after nobody waits for it (`Handle`). `activity` is
`deliver_callback` as the server sees it.

### `RateLimiter` and `Gateway`

Grants are numbered by caller, so the list of timestamps is a set of numbers;
`granted` and `promise` are history. `Gateway` puts the limiter's actions
into the handlers. A request is parked at one await: `queued` (the lock),
`connecting`, `call` (to the server), `reply` (on its way back). A request's
number is also the id of its operativo, for dispatch makes a fresh one. The three
submissions begin with what their dispatch requires (`CreateDce`, `CreateHas`,
`CreateIdp`); from the lock on their handlers are the same but for names, so that one
kind, `create`, and one set of actions stand for them.

### `ToolLoop` and `ToolHandlers`

In `ToolLoop` a message is its role, the calls it makes or answers, and whether it
alone fills the window. Calls are numbered in order; `results[k]` is what became
of call k. `NeedsCompaction` counts what the code counts: the messages whose
content is a string. `factory.build_tool_handler` gives the loop no compaction
client today; a loop without one behaves like one with a short prompt, which is
one of the initial states.

`ToolHandlers` looks into one call. `extract_pdf_text` is upload, then fetch, status
and pause in turn until a poll shows a job that is not running or the pauses add up to
the budget, then a last fetch. A job is a status, of which the handler tells only
"running" from the others, as `factory.py:154` does, and an error, which a running job
may have, too. The handler's own account of time, `elapsed`, holds the pauses only,
while `spent`, the activity's time, also holds the requests: `Takes` lets a request
last nothing or `Latency` (a poll's fetch and status together). A reply can be lost
after the job or the write was made. The handlers of the IDP Platform are one request
each; `JobTools`, `PluginTools` and `SettingsTools` list them one by one with what each
refuses to do without and whether its request changes anything, and `Reject`, `Replied`
and `RequestFails` are the three ways a call of one of them can go. An expired activity
goes on, for nobody tells it. The diagnostics read the history first and the session's
job id second, with steps of the activity in between.

### `Citations`

A document is reduced to what the regular expressions tell apart: in which place (a
field of the extraction, the labelled description in the text, or the rest of the text)
which words occur and which statements of an age, each with its form, its numbers and
whether it names months, and the parts of each listed citation. A date or a telephone
number is a range that names no months. `Normalize`, `Citable` and `Required` are the
registry's functions. `WorkflowProfile` takes its words from the first field that is not
empty and its age from `age_grade`, `age_range`, `age` and that field, with months
named; `ToolProfile` joins other fields (`ToolPlaces`; never `age`), takes any range,
knows more forms, and lets the fields of ages and the category it is given go first.
Hence the two can differ, and `ProfilesAgree` says that where they differ `Explained`
holds: the document shows the place, the form, the field or the pair of ages that makes
them differ. Every list the
code filters is the list at certain of its places (`At`, `Among`), in order. The state
machine is the order in which the pieces are used: Medina may ask the tool, the
workflow assesses, asks at most `MaxQueries` questions when the report is ambiguous,
and each is answered by search or, when that raises, without it; when the second
call raises too, the activity fails and its answers are lost. `ReportIsExact`
states the report's meaning again, by sets and without the code's order.

### `PromptBuilder` and `Memory`

A layer is unset, empty or text; what is built is the sequence of layers in it.
`_check_order` compares with the layer set last and wants all earlier ones set.
`usual` records whether the calls so far are those of the agents.

In `Memory` tasks of one event loop step from await to await. `LoadDomain` is one
step, for a local read does not suspend; `Prompt` comes after the embedding of the
query and takes the nodes alive then. A bulletin carries the time at which its
patterns were gathered. `Restart` drops everything but the file. The store and the
bulletin store are modelled with their whole interface, whoever calls it: today the
repository's workflows hand the bulletin out as a result (`Discard`) and only the
tests save one.

## 3. Runs

Bounds are in the `.cfg` files. TLC visits every state within them.

| Run | Shows | Bounds, and why they are enough |
|---|---|---|
| `dce_workflow` | seven invariants, the refinement of `Operativo`, termination and delivery | The code's budget of three attempts, all four kinds of fault, both modes, with and without callback. 11,588 states. Nothing is scaled down: the budget is the production one. |
| `retrying_workflow` | reviews, quarantine under repeated attempts of Medina, the refinement of `Operativo`, termination | The code's three attempts, both domains, both converters, four faults (failed attempts, timeouts, signals and crashes together): a stray, its successor, a drain that is cut off and a crash of the next worker fit into one behaviour. 19,987 states. |
| `callback` | the verdict, no needless repeat, the schedule | The code's own numbers: three attempts, ten seconds an operation, pauses of one and two seconds, 30 seconds for the activity; at most three operations in an attempt, so that the endpoint may trickle. 456,348 states. |
| `gateway` | limiter, singleton, audit log, answers | Three requests of two callers, or without a key, a limit of two, a window of two, a log of two entries: refusal, expiry, eviction of one caller's entry by the other's, a race of all three to connect, cancellation while one holds the lock. 416,373 states. |
| `tool_loop` | pairing, guidance, report, end | Four turns, of which any may ask for a tool and one for two at once, a threshold of two and four recent messages kept: the smallest numbers that let a compaction drop the prompt and keep pairs. The model may always ask for one more call, so that only `MaxTurns` ends the loop. 449,055 states. |
| `tool_handlers` | honest answers, diagnostics, time | Two calls of one activity; a budget of 3 s in one pause of 1 and one of 2, so that a call polls twice; requests that take one second or none; a limit of 6 s, which two calls of 3 s of pauses each reach and requests push over. 1,333,139 states. The proofs hold for the code's 300, 20, 2 and 5 seconds. |
| `citations` | the report, the profiles, the evidence | Every list of up to two out of 18 citations with a few products (two show every effect of order and repetition); every set of the six words in each place and every pair of words in two places; every form of age in each place with bounds below, at and above 36 months, alone with the tool's fields of ages or in pairs over the places that differ between the two codes; more questions than `MaxQueries` = 4. 378,124 states. |
| `memory` | domain memory, recall, bulletins, the builder | Two tasks, two nodes, two versions of the file, three bulletins: overlapping generations that end in either order, a node forgotten between the two awaits of an agent. `Apart` explores builder and stores one beside the other: they share no variable and no property relates them. 922,304 states. |
| `dce_correction_lost`, `dce_unread_review`, `callback_timeout`, `operativo_ends` | where the code does not do what its documentation says (section 6) | |

Deadlock checking is off where the system really stops: a closed operativo, a
delivery that returned, a gateway with no more requests, a finished loop, two calls
made, a review begun; in `memory` where the bounds are reached.

### Fairness

* `DceWorkflow`: the server runs a workflow task that is due; a worker polls the
  queue; an activity ends or is timed out, as `start_to_close` is set on each of
  them. No fairness is assumed of the endpoint, of crashes, or of what a result says.
* `RetryingWorkflow`: workflow tasks run; a queued attempt begins; an attempt
  returns, raises, is cancelled or is timed out; `shutdown()` returns and the drain
  ends by itself or by its limit; a worker that is down is started again (by whoever
  runs it; without that nothing could end). Nothing is assumed of strays, one may
  hang for ever, and faults are finitely many (`MaxFaults`).
* `Gateway`: the event loop runs a handler that can go on, and a call to the
  Temporal server returns or raises. Nothing is assumed about which handler gets the lock.
* `ToolLoop`: the coroutine runs on; the model and the tools answer or raise.
* `ToolHandlers`: the handler's coroutine runs on, as each of its requests has a
  timeout. Nothing is assumed of the backend's job, which may run for ever.
* `Callback`, `Citations`, `Memory`: safety only.

### Mutants

Each property of a passing run has a mutant, defined beside the definition it
replaces: a dropped guard, a shifted bound, a lock not released, a stale output.
TLC finds the property violated by it under the run's own bounds.

## 4. Proofs

Checked by TLAPS for all values of the constants allowed by the `ASSUME`s. The
assumptions say that budgets, windows and timeouts are positive, for `ToolLoop` that
the number of messages kept is even as the code's ten is, for `Citations` that the
documents are of the kinds the extraction gives, with lists of any length, and for
`ToolHandlers` that the short pauses meet their end and the long ones the budget
exactly, as 2, 20, 5 and 300 do.

* `DceWorkflow_proofs`. `IInv` says what each await knows: `InFlight` (only
  what the coroutine waits for is in flight; the worker executes only what was
  handed out), `Progress` (the phase that goes with each await; nothing
  downstream of a halt), `Versions` (which output is under review, which one the
  last review looked at), `Verdicts` (the status of the last review is the
  one that counts). None of the properties is inductive alone: that a
  delivered operativo leaves nothing running rests on `InFlight`, that every
  correction is reviewed on the numbering of `Versions`. The
  steps are grouped: a lemma for what any step of the server or the worker does,
  one for parking, one for closing, then one step per action.
  `Refinement` maps every step to a step of `Operativo` or to a stutter.
* `RetryingWorkflow_proofs`. The same argument for a workflow whose attempts
  overlap. `InFlight`: an attempt that executes is the one the server has started,
  so no stray's answer counts. `Rounds`: which output each round is about.
  `Halting`: what keeps a suspicious document from going on; `HaltedIsQuarantined`
  follows from it, though attempts of Medina repeat and stray.
  `Refinement`: retries, strays and restarts do not show in `Operativo`.
* `ToolHandlers_proofs`. The difficulty is time: `PollsAt(e)` says how often a
  call has polled after e seconds of pauses, `OnGrid` that the pauses only ever
  reach points from which that number grows by exactly one, and `Left` bounds
  what the call may still take, so that `spent + Left` never exceeds as many
  `Longest` as there were calls (`InTime`). The lemmas about division come first,
  then the arithmetic of one pause. The result, `ExpiryExplained`: an activity
  that expires while a tool polls had a limit of no more than `Longest`
  = budget + (polls + 2) requests for each call, 300 + 68 requests with the code's
  numbers; the fast mode gives Medina 300 seconds, the pauses alone. `Honest` and
  `Correlated` follow from `Asked` and `Recorded`, what the call
  under way and the session's file are known to stand for. `Honest` claims what
  `AnswersAreHonest` says and no more: a job that still runs when the budget is spent may
  be reported as completed, and a fallback may drop an extraction already fetched.
* `Callback_proofs`. `Timing` accounts for the time the operation under way may
  still use; `Knowledge` says what has been sent and heard. Besides the
  properties, `ExpiryNeedsTheSchedule`: an expired activity had a
  `start_to_close` below the schedule of the attempt it had reached. With
  the code's numbers that schedule exceeds 30 seconds; a timeout of at least
  `MaxRetries * SocketOps * Timeout + BackoffBase * (2^(MaxRetries-1) - 1)` rules
  the failure out.
* `Gateway_proofs`. First the limiter: its list of timestamps is pruned at every
  check, so the limit for all windows rests on `Remembered` (what was forgotten has
  expired for good) and on a counting lemma, `Room`: there is room exactly when the
  grant `MaxRequests` places back has expired. `UsesLimiter` shows every step of the
  gateway to be a step of the limiter or a stutter, so the limit holds in
  the gateway whatever its handlers interleave. `RetryAfterExact` is about the value
  `check` returns: the gateway sends a constant in its place. `ConnectsOnce` proves the
  singleton.
  Then the audit log. `AuditAgrees` says by `IsFilter` that a caller's index is the
  log filtered by caller: there is an increasing map from the one into the other
  that hits exactly that caller's entries. The lemmas move such a map along an
  append, and along the eviction of an oldest entry, which shifts one caller's
  index and nobody else's. `DispatchLogged` needs `ReplyIsOfStarted`.
* `ToolLoop_proofs`. `PairsSurvive` is not inductive, since nothing in it tells what
  a compaction may cut. `Paired` does: the conversation is some texts and then
  calls and results in turn, up to a call whose results are being gathered. A lemma
  shows that keeping an even number of recent messages leaves a conversation of
  this form, whether the cut falls into the texts or into the pairs. `Counted` ties
  the detector's counters, which the loop keeps, to the results, from which
  `GuidanceIsDue` counts again; `InOrder` keeps results within calls.
* `Memory_proofs`. The builder first: `Depth(k)` says that exactly the first k
  layers are set, which is what `_check_order` achieves by comparing with one layer
  only. From it a setter accepted after a `build` concerns a layer not yet built,
  and the built sequence stays a prefix. For the memory, `HoldsCache`: a task that
  prompts holds what the process has cached since it started, hence two of them hold
  the same; `BulletinsTimely`: a bulletin tells of nothing that was forgotten before
  its time, in a task's hands as well as in the store.
* `Citations_proofs`. A counting lemma gives each place of a finite set of numbers
  its rank, so that `Among(s, S)` has exactly the elements of s in S; by this the
  report, which is written with lists, and `ReportIsExact`, which is written with
  sets, can be compared for lists of any length. `NormalizeFinds` shows the registry's order
  of lookups to be what `Names` says without it. `IInv` says that whatever was said
  is what the document makes one say (`Report`, `ToolProfile`, `Questions`), and
  that questions are answered in their order; the three properties follow. For
  `ProfilesAlwaysAgree` the two profiles are taken apart by what decided each of them:
  which range, which bound, which field, and each pair is one of the explanations.

The constants that bound only the runs (`MaxTurns`, `MaxClock`, `MaxMessages`,
`MaxEntries`, `Documents` and so on) are arbitrary in the theorems. The library's
induction theorems cannot be instantiated here. Where an argument needs induction
over numbers (the first occurrence of a citation, the first alias in it), it uses
the least-number principle in its set form: a set of numbers has a least.

Every invariant of a passing run is stated by a theorem (`RetryAfterIsExact` of the
limiter's own specification, which the gateway implements). Only model-checked is
liveness, which is out of the prover's reach: `Terminates` of both workflow modules,
`EveryRequestIsAnswered`, `Ends` and `CallsAreAnswered`. The properties of the four
runs that end in a violation are false, and nothing is proved of them. `TypeOK` of
`ToolLoop`, `Memory` and `ToolHandlers` is proved and no property of a run, since
TLC would find nothing there that the deeper properties miss.

## 5. Not modelled

Prompts, reports, schemas, token counts and documents are data: the models keep
only what a later step depends on. Authentication is "a known caller or none".
The status handler shows Temporal's own status, COMPLETED also for an operativo
that needs review; it changes nothing and is not modelled further. Limiter and log
live in one process.

* *Cache monitor.* Counters that one event loop increments between awaits, so no
  step can come in between; nothing reads them but the endpoint, whose monitor is an
  instance of its own in which nobody records.
* *Heartbeat and feedback workflows.* One or two activities in a row, with the shape
  of `RetryingWorkflow` without its loop; nothing in the repository starts them.
* *Session store.* `append_progress` is a read and a write with an await in between;
  nothing outside the tests appends, so no second writer exists. The edges of the
  graph memory are left out for the same reason.
* *Injection guard, permissions, registries, routing.* Functions of their input with
  constant tables. The guard's verdict is Medina's free choice.
* *Handlers that look up a manifest or extract fields by regular expressions, and
  Ravenna's four.* Data, or one storage call each. A stray attempt of Ravenna may
  overwrite `structured_result.json` after its successor has written it; strays are
  in `RetryingWorkflow`, their files are not, as no workflow reads them.
* *Embeddings, other backends, prompt cache adapter, sandbox, export, logging,
  metrics, scripts.* I/O, translation and formatting, with no protocol of their own.

## 6. Findings

1. **A correction is reviewed and then lost** (`ReviewedOutputIsDelivered`).
   Ravenna is handed Lamponne's first output even when the review that accepted
   the operativo looked at a corrected one (`workflows/operativo_workflow.py:345`).
2. **An unreadable review approves** (`CompletedWasRead`). The docstring promises
   a `ValueError`; the code reads an empty report.
3. **An endpoint that hangs fails the workflow** (`NeverFailsTheWorkflow`): the
   callback's schedule does not fit its activity.
4. **An IDP or HAS operativo does not end** (`OperativoEnds`): its results arrive as
   dicts whose attributes the workflow reads, and the domain `has` has no tools.

Observed while reading, without a run:

* A failure of `post_job_learn` fails a DCE operativo whose result its caller has been
  posted (`operativo_workflow.py:382`); `Operativo` allows it, after `Notify`.
* When the polling budget is spent on a job that still runs, the answer is "completed"
  (`factory.py:177`), as it is for a status other than "running" in which the job has yet
  to run. A poll that cannot connect drops an extraction already fetched
  (`factory.py:189`).
* The questions about missing citations are those dropped at the cap
  (`implementations.py:91`).
* The workflow reads the field `age`, the tool does not (`factory.py:412-422`); the tool
  takes any first N-N, also of a date, for an age (`factory.py:391`), the workflow only one
  of months. So one can require Part 1501 where the other sees no children's product.
* A worker crash fails a DCE operativo, since no activity has a second attempt
  (`operativo_workflow.py:39`); `docs/ARCHITECTURE.md:105` says it resumes.
* Calls that raise are not counted by the loop detection (`llm/tool_handler.py:173`),
  though it says it tracks how many times each resource is invoked (`llm/loop_detection.py:10`).
* Tool results do not count towards compaction (`llm/tool_handler.py:100`), and a
  conversation of no more than ten messages grows when it is compacted.
* `post_job_learn` stores what it learns into a store made for the call, and its
  pattern matches no progress line a workflow writes. Nobody saves bulletins.
* "Under 36 months" is read as age 36, so the report does not require Part 1501
  where the tool calls the product a children's product; an age field of 0 is falsy.
* An alias such as "Section 101" covers its part in the report, which the reviewer's
  prompt forbids (`agents/qa_reviewer.py:38-40`). The local extraction's pattern drops
  sections and does not see "16 CFR Part N".
* `worker.shutdown()` cancels the activities at once; `_shutdown.py` says that those
  in flight complete. The model takes it to return before the drain's limit begins.
* A result posted for an operativo that needs review may state any status Ravenna
  wrote. The reply of `start_workflow` lost gives the caller a 503 for an operativo that
  runs, and a new submission gets a new id; `DispatchIsLogged` allows it and says only
  that such an operativo is not in the log.
* The `Retry-After` header of a 429 is the constant 60 whatever the limiter computed
  (`gateway/app.py:220`); `submit_feedback` answers `feedback_queued` and queues nothing;
  the cache statistics are always zero.
* `scripts/run_dce_e2e.py` gives up after its timeout and leaves the workflow running.

## 7. Plan

Done: all modules of section 2, and the proofs of every invariant that a run checks,
of both refinements of `Operativo` and of the gateway's use of the limiter. Next, in
this order:

1. An abstract audit log, a queue of bounded length and its view by caller, that
   `Gateway` implements; today `AuditAgrees` states the relation directly.
2. `ExpiryExplained` as a statement about a whole run: which of the program's timeouts
   would rule each failure out.
3. The hazards without a property: each is what the code does, so it needs a repair
   before it can have one. Listed in `PROJECT.json` with its note.
