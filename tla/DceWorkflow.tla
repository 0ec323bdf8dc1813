----------------------------- MODULE DceWorkflow -----------------------------
(***************************************************************************)
(* CPCOperativoWorkflow (workflows/operativo_workflow.py): the workflow    *)
(* that takes one DCE operativo through its phases, the Temporal server    *)
(* that dispatches its activities, the worker process that executes them,  *)
(* and the caller's callback endpoint.                                     *)
(*                                                                         *)
(* The workflow is a durable coroutine: pc names the await it is parked    *)
(* at. An activity lives twice, in the server's history (server) and in    *)
(* the worker (running). The two part company when start_to_close expires  *)
(* while the code still runs, and when the worker crashes.                 *)
(***************************************************************************)
EXTENDS Naturals, FiniteSets

CONSTANTS MaxAttempts,  \* WorkflowConfig.max_correction_attempts
          Faults        \* what the environment may do to this operativo

FaultKinds == {"raise",      \* an activity raises
               "timeout",    \* an activity outlives its start_to_close timeout
               "crash",      \* the worker process dies
               "citation"}   \* the snapshot has a citation_text that is no string

ASSUME ConfigAssumption == /\ MaxAttempts \in Nat \ {0}
                           /\ Faults \subseteq FaultKinds

Activities == {"santos_plan", "medina_investigate", "gemini_vision_extract",
               "lamponne_execute", "cpc_web_verify", "santos_qa_review",
               "ravenna_synthesize", "deliver_callback", "post_job_learn"}

VARIABLES
  input,     \* CPCOperativoInput: e2e_fast_mode, and whether there is a callback_url
  pc,        \* the await the workflow is parked at
  server,    \* activity -> its state in the workflow's history
  running,   \* the activities the worker process is executing
  halted,    \* Medina's verdict on the document
  outputs,   \* how many outputs Lamponne has returned; output 0 is the original
  current,   \* current_output_json: the output that goes to review
  attempt,   \* the loop variable of _qa_with_retry
  review,    \* the last QAReviewOutput
  payload,   \* the structured_result Ravenna returned
  received,  \* what the callback endpoint has been posted
  outcome,   \* OperativoStatus of the closed workflow
  cause      \* why an activity failed, for the properties

vars == <<input, pc, server, running, halted, outputs, current, attempt,
          review, payload, received, outcome, cause>>

\* The locals of the coroutine that only some of its steps touch.
results == <<halted, outputs, review, payload>>
loop == <<current, attempt>>
endpoint == <<received>>

-----------------------------------------------------------------------------
(* Data. A review is known by the output it looked at and by what Santos   *)
(* found: "unreadable" is an answer that is not JSON, which is read as an  *)
(* empty report; "fixable" has a blocking auto-correctable check and       *)
(* "unfixable" only blocking checks that are not.                          *)

Findings == {"clean", "unreadable", "fixable", "unfixable"}
NoReview == [of |-> 0, found |-> "none"]
Reviews == [of : Nat, found : Findings] \cup {NoReview}

HasBlocking(found) == found \in {"fixable", "unfixable"}

\* One blocking check that Lamponne can correct is enough.
HasRetryableBlockingIssues(found) == found = "fixable"

\* Mutant of FinalStatus: the worst severity is reported in place of a status.
FinalStatus_severity(r) == IF HasBlocking(r.found) THEN "BLOCKING" ELSE "COMPLETED"

FinalStatus(r) == IF HasBlocking(r.found) THEN "NEEDS_REVIEW" ELSE "COMPLETED"

\* A structured_result is known by the output it was assembled from, by the
\* status it states, and by whether Ravenna's answer was prose.
Statuses == {"COMPLETED", "NEEDS_REVIEW", "none"}
NoPayload == [output |-> 0, status |-> "absent", prose |-> FALSE]
Payloads == [output : Nat, status : Statuses, prose : BOOLEAN] \cup {NoPayload}

\* Mutant of Synthesized: prose is always replaced by a COMPLETED result.
Synthesized_optimistic(output, r) ==
  {[output |-> output, status |-> "COMPLETED", prose |-> b] : b \in BOOLEAN}

\* Ravenna's own JSON states whatever status the model wrote, or none; prose
\* is replaced by a result whose status follows the checks of the report.
Synthesized(output, r) ==
  {[output |-> output, status |-> s, prose |-> FALSE] : s \in Statuses}
    \cup {[output |-> output, status |-> FinalStatus(r), prose |-> TRUE]}

Attempts == IF input.fast THEN 1 ELSE MaxAttempts

Awaits == {"start", "plan", "gather", "execute", "verify", "review", "correct",
           "synthesize", "callback", "learn", "blocked", "closed"}

\* The activities the coroutine waits for at each await.
Awaited == [p \in Awaits |->
  CASE p = "plan"       -> {"santos_plan"}
    [] p = "gather"     -> {"medina_investigate", "gemini_vision_extract"}
    [] p = "execute"    -> {"lamponne_execute"}
    [] p = "verify"     -> {"cpc_web_verify"}
    [] p = "review"     -> {"santos_qa_review"}
    [] p = "correct"    -> {"lamponne_execute"}
    [] p = "synthesize" -> {"ravenna_synthesize"}
    [] p = "callback"   -> {"deliver_callback"}
    [] p = "learn"      -> {"post_job_learn"}
    [] OTHER            -> {}]

-----------------------------------------------------------------------------
Init == /\ input \in [fast : BOOLEAN, callback : BOOLEAN]
        /\ pc = "start"
        /\ server = [a \in Activities |-> "idle"]
        /\ running = {}
        /\ halted = FALSE
        /\ outputs = 0
        /\ current = 0
        /\ attempt = 0
        /\ review = NoReview
        /\ payload = NoPayload
        /\ received = {}
        /\ outcome = "none"
        /\ cause = "none"

-----------------------------------------------------------------------------
(* The workflow's coroutine.                                               *)

\* Mutant of Resumes: gather goes on with the first result (FIRST_COMPLETED).
Resumes_first(p) == /\ pc = p
                    /\ \E a \in Awaited[p] : server[a] = "done"

\* The await at p is over: every activity waited for has returned.
Resumes(p) == /\ pc = p
              /\ \A a \in Awaited[p] : server[a] = "done"

\* The coroutine parks at p and schedules what it waits for there.
ParkAt(p) ==
  /\ pc' = p
  /\ server' = [a \in Activities |->
                  IF a \in Awaited[p] THEN "scheduled" ELSE server[a]]
  /\ UNCHANGED <<input, running, endpoint, outcome, cause>>

Close(s) == /\ pc' = "closed"
            /\ outcome' = s
            /\ UNCHANGED <<input, server, running, endpoint, cause>>

Plan == /\ pc = "start"
        /\ ParkAt("plan")
        /\ UNCHANGED <<results, loop>>

\* Medina and the vision extraction run in parallel.
Investigate == /\ Resumes("plan")
               /\ ParkAt("gather")
               /\ UNCHANGED <<results, loop>>

\* An injection risk ends the operativo: nothing is executed, nobody is
\* called back and nothing is learned.
HaltOnInjection == /\ Resumes("gather")
                   /\ halted
                   /\ Close("NEEDS_REVIEW")
                   /\ UNCHANGED <<results, loop>>

\* Mutant of Execute: the verdict of the investigation is not looked at.
Execute_unguarded == /\ Resumes("gather")
                     /\ ParkAt("execute")
                     /\ UNCHANGED <<results, loop>>

Execute == /\ Resumes("gather")
           /\ ~halted
           /\ ParkAt("execute")
           /\ UNCHANGED <<results, loop>>

\* The citation report decides whether the citations are looked up first.
\* The QA loop starts on Lamponne's original output.
AssessCitations == /\ Resumes("execute")
                   /\ \/ ParkAt("verify")
                      \/ ParkAt("review")
                   /\ UNCHANGED <<results, loop>>

\* The report is computed inside the workflow: an exception there fails the
\* workflow task, which Temporal retries for ever on the same history.
BlockOnCitation == /\ Resumes("execute")
                   /\ "citation" \in Faults
                   /\ pc' = "blocked"
                   /\ UNCHANGED <<input, server, running, endpoint, outcome,
                                  cause, results, loop>>

Review == /\ Resumes("verify")
          /\ ParkAt("review")
          /\ UNCHANGED <<results, loop>>

\* Mutant of LastAttempt: attempt < max_correction_attempts is off by one.
LastAttempt_late == attempt + 1 > Attempts

LastAttempt == attempt + 1 >= Attempts

Approve == /\ Resumes("review")
           /\ FinalStatus(review) = "COMPLETED"
           /\ ParkAt("synthesize")
           /\ UNCHANGED <<results, loop>>

Correct == /\ Resumes("review")
           /\ FinalStatus(review) # "COMPLETED"
           /\ ~LastAttempt
           /\ HasRetryableBlockingIssues(review.found)
           /\ ParkAt("correct")
           /\ UNCHANGED <<results, loop>>

\* Mutant of ReviewAgain: the attempt is not counted.
ReviewAgain_uncounted == /\ Resumes("review")
                         /\ FinalStatus(review) # "COMPLETED"
                         /\ ~LastAttempt
                         /\ ~HasRetryableBlockingIssues(review.found)
                         /\ ParkAt("review")
                         /\ UNCHANGED <<results, loop>>

\* Nothing can be corrected: the same output is reviewed again.
ReviewAgain == /\ Resumes("review")
               /\ FinalStatus(review) # "COMPLETED"
               /\ ~LastAttempt
               /\ ~HasRetryableBlockingIssues(review.found)
               /\ attempt' = attempt + 1
               /\ ParkAt("review")
               /\ UNCHANGED <<results, current>>

\* Mutant of ReviewCorrection: the output before the correction is reviewed.
ReviewCorrection_stale == /\ Resumes("correct")
                          /\ attempt' = attempt + 1
                          /\ ParkAt("review")
                          /\ UNCHANGED <<results, current>>

ReviewCorrection == /\ Resumes("correct")
                    /\ current' = outputs - 1
                    /\ attempt' = attempt + 1
                    /\ ParkAt("review")
                    /\ UNCHANGED results

GiveUp == /\ Resumes("review")
          /\ FinalStatus(review) # "COMPLETED"
          /\ LastAttempt
          /\ ParkAt("synthesize")
          /\ UNCHANGED <<results, loop>>

\* Phase 6 is skipped in e2e fast mode.
LearnOrClose == IF input.fast THEN Close(FinalStatus(review)) ELSE ParkAt("learn")

Deliver == /\ Resumes("synthesize")
           /\ IF input.callback THEN ParkAt("callback") ELSE LearnOrClose
           /\ UNCHANGED <<results, loop>>

\* Whether the endpoint could be reached is in the CallbackOutput, which the
\* workflow does not look at.
AfterCallback == /\ Resumes("callback")
                 /\ LearnOrClose
                 /\ UNCHANGED <<results, loop>>

AfterLearning == /\ Resumes("learn")
                 /\ Close(FinalStatus(review))
                 /\ UNCHANGED <<results, loop>>

\* Mutants of Abort: the default retry policy in place of _NO_RETRY; and a
\* failure at any phase delivered as NEEDS_REVIEW.
Abort_retries == /\ \E a \in Awaited[pc] :
                      /\ server[a] = "failed"
                      /\ server' = [server EXCEPT ![a] = "scheduled"]
                 /\ UNCHANGED <<input, pc, running, endpoint, outcome, cause>>
                 /\ UNCHANGED <<results, loop>>

Abort_flags == /\ \E a \in Awaited[pc] : server[a] = "failed"
               /\ Close("NEEDS_REVIEW")
               /\ UNCHANGED <<results, loop>>

\* No activity has a retry policy, so one failure of an awaited activity
\* fails the workflow; gather does not wait for the other activity.
Abort == /\ \E a \in Awaited[pc] : server[a] = "failed"
         /\ Close("FAILED")
         /\ UNCHANGED <<results, loop>>

Workflow == \/ Plan \/ Investigate \/ HaltOnInjection \/ Execute
            \/ AssessCitations \/ BlockOnCitation \/ Review
            \/ Approve \/ Correct \/ ReviewAgain \/ ReviewCorrection \/ GiveUp
            \/ Deliver \/ AfterCallback \/ AfterLearning \/ Abort

-----------------------------------------------------------------------------
(* The Temporal server and the worker process.                             *)

workflow == <<input, pc, loop, outcome>>

\* Once the workflow has closed, its queued activities are not handed out
\* and the answers of its executing ones are refused.
Open == pc # "closed"

\* The worker polls the task queue and begins to execute a.
Begin(a) == /\ Open
            /\ server[a] = "scheduled"
            /\ server' = [server EXCEPT ![a] = "started"]
            /\ running' = running \cup {a}
            /\ UNCHANGED <<workflow, results, endpoint, cause>>

\* The activity function returned in time and the server takes its result.
Completes(a) == /\ Open
                /\ a \in running
                /\ server[a] = "started"
                /\ server' = [server EXCEPT ![a] = "done"]
                /\ running' = running \ {a}
                /\ UNCHANGED <<workflow, endpoint, cause>>

MedinaReturns == /\ Completes("medina_investigate")
                 /\ halted' \in BOOLEAN
                 /\ UNCHANGED <<outputs, review, payload>>

LamponneReturns == /\ Completes("lamponne_execute")
                   /\ outputs' = outputs + 1
                   /\ UNCHANGED <<halted, review, payload>>

SantosReviews == /\ Completes("santos_qa_review")
                 /\ \E f \in Findings : review' = [of |-> current, found |-> f]
                 /\ UNCHANGED <<halted, outputs, payload>>

\* Ravenna is handed Lamponne's original output, corrected or not.
RavennaReturns == /\ Completes("ravenna_synthesize")
                  /\ payload' \in Synthesized(0, review)
                  /\ UNCHANGED <<halted, outputs, review>>

\* The other activities return nothing a later step depends on.
Plain == {"santos_plan", "gemini_vision_extract", "cpc_web_verify",
          "deliver_callback", "post_job_learn"}

PlainReturns(a) == /\ Completes(a)
                   /\ UNCHANGED results

\* deliver_callback turns every exception into a CallbackOutput.
Raises(a) == /\ "raise" \in Faults
             /\ a # "deliver_callback"
             /\ Open
             /\ a \in running
             /\ server[a] = "started"
             /\ server' = [server EXCEPT ![a] = "failed"]
             /\ running' = running \ {a}
             /\ cause' = "raise"
             /\ UNCHANGED <<workflow, results, endpoint>>

\* start_to_close expires. The server does not stop the worker's execution.
TimesOut(a) == /\ Open
               /\ server[a] = "started"
               /\ "timeout" \in Faults \/ a \notin running
               /\ server' = [server EXCEPT ![a] = "failed"]
               /\ cause' = IF a \in running THEN "timeout" ELSE "crash"
               /\ UNCHANGED <<workflow, running, results, endpoint>>

\* An execution the server no longer waits for ends unheard.
AnswersLate(a) == /\ a \in running
                  /\ server[a] = "failed" \/ ~Open
                  /\ running' = running \ {a}
                  /\ UNCHANGED <<workflow, server, results, endpoint, cause>>

\* The callback's POST reaches the endpoint, perhaps again.
Post == /\ "deliver_callback" \in running
        /\ received' = received \cup {payload}
        /\ UNCHANGED <<workflow, server, running, results, cause>>

\* The process dies; the workflow and the history survive in the server.
Crash == /\ "crash" \in Faults
         /\ running # {}
         /\ running' = {}
         /\ UNCHANGED <<workflow, server, results, endpoint, cause>>

Returns(a) == CASE a = "medina_investigate" -> MedinaReturns
                [] a = "lamponne_execute"   -> LamponneReturns
                [] a = "santos_qa_review"   -> SantosReviews
                [] a = "ravenna_synthesize" -> RavennaReturns
                [] OTHER                    -> PlainReturns(a)

Worker == \/ \E a \in Activities : Begin(a) \/ Raises(a) \/ TimesOut(a) \/ AnswersLate(a)
          \/ MedinaReturns \/ LamponneReturns \/ SantosReviews \/ RavennaReturns
          \/ \E a \in Plain : PlainReturns(a)
          \/ Post
          \/ Crash

\* A closed workflow whose activities have all ended stops; a blocked one
\* does too, as far as anybody can see.
Next == Workflow \/ Worker

\* The server runs every workflow task that is due, the worker pool polls
\* the queue, and an activity ends or is timed out: start_to_close is set on
\* every one of them.
Fairness == /\ WF_vars(Workflow)
            /\ \A a \in Activities :
                 /\ WF_vars(Begin(a))
                 /\ WF_vars(Returns(a) \/ Raises(a) \/ TimesOut(a))
                 /\ WF_vars(AnswersLate(a))

Spec == Init /\ [][Next]_vars

FairSpec == Spec /\ Fairness

-----------------------------------------------------------------------------
ActivityStates == {"idle", "scheduled", "started", "done", "failed"}
Outcomes == {"none", "COMPLETED", "NEEDS_REVIEW", "FAILED"}

\* The state of the workflow, the server, the worker and the endpoint.
TypeOK == /\ input \in [fast : BOOLEAN, callback : BOOLEAN]
          /\ pc \in Awaits
          /\ server \in [Activities -> ActivityStates]
          /\ running \subseteq Activities
          /\ halted \in BOOLEAN
          /\ outputs \in Nat
          /\ current \in Nat
          /\ attempt \in Nat
          /\ review \in Reviews
          /\ payload \in Payloads
          /\ received \subseteq Payloads
          /\ outcome \in Outcomes
          /\ cause \in {"none", "raise", "timeout", "crash"}

Delivered == outcome \in {"COMPLETED", "NEEDS_REVIEW"}

\* No correction escapes the review: whenever the result is being assembled,
\* delivered or learned from, the review the workflow decided on looked at
\* the last output Lamponne produced, however the loop was left.
EveryCorrectionIsReviewed ==
  pc \in {"synthesize", "callback", "learn"} \/ (Delivered /\ ~halted)
    => review.of + 1 = outputs

\* The loop's budget: Lamponne executes at most Attempts times and no output
\* is more than one ahead of the review it is being corrected from.
WithinBudget == /\ outputs <= Attempts
                /\ attempt < Attempts
                /\ current <= attempt

\* The activities that act on a document Medina has cleared.
Downstream == {"lamponne_execute", "cpc_web_verify", "santos_qa_review",
               "ravenna_synthesize", "deliver_callback", "post_job_learn"}

\* A document Medina found suspicious reaches no later phase: no activity
\* that acts on it is ever scheduled and the endpoint hears nothing.
HaltQuarantines == halted => /\ \A a \in Downstream : server[a] = "idle"
                             /\ received = {}

\* When the workflow closes with a result, none of its activities is still
\* executing in a worker: nothing can act for it afterwards.
DeliveredLeavesNothingRunning == Delivered => running = {}

\* Two executions of one activity of an operativo never overlap: an activity
\* is not queued again while an earlier execution of it may still be running,
\* which a retry after a timeout would do.
NoOverlap == \A a \in Activities : server[a] = "scheduled" => a \notin running

\* When Ravenna answers in prose, the status her replacement result states
\* is the one the workflow closes with.
ProseResultAgrees ==
  Delivered /\ payload.prose => payload.status = outcome

\* Whatever fails, the workflow closes: it never waits for ever on an
\* activity and the correction loop never goes on for ever. And it closes
\* with a result, flagged or not, unless an activity failed: neither a bad
\* review nor an exhausted budget costs the caller the result. The one thing
\* that hangs it is an exception of its own code, see BlockOnCitation.
Terminates == <>(\/ pc = "blocked"
                 \/ pc = "closed" /\ (Delivered \/ cause # "none"))

\* A COMPLETED operativo hands out the output its review accepted.
ReviewedOutputIsDelivered == outcome = "COMPLETED" => payload.output = review.of

\* SantosQAReviewer.review raises when Santos's answer cannot be parsed, so
\* no operativo is COMPLETED on the strength of such an answer.
CompletedWasRead == outcome = "COMPLETED" => review.found # "unreadable"

-----------------------------------------------------------------------------
\* The phase an operativo has reached, from the activities it has scheduled.
PhaseReached ==
  IF server["post_job_learn"] # "idle" THEN 6
  ELSE IF server["ravenna_synthesize"] # "idle" THEN 5
  ELSE IF server["santos_qa_review"] # "idle" THEN 4
  ELSE IF server["lamponne_execute"] # "idle" THEN 3
  ELSE IF server["medina_investigate"] # "idle" THEN 2
  ELSE IF server["santos_plan"] # "idle" THEN 1
  ELSE 0

StatusShown == IF pc = "start" THEN "PENDING"
               ELSE IF pc = "closed" THEN outcome
               ELSE "RUNNING"

O == INSTANCE Operativo WITH phase <- PhaseReached,
                             status <- StatusShown,
                             notified <- received # {}

\* The workflow keeps the promise of Operativo: phases in order, one terminal
\* status, and nothing posted before there is a result.
ImplementsOperativo == O!Spec

-----------------------------------------------------------------------------
(* The inductive invariant: what each await knows.                         *)

\* Only what the coroutine waits for can be in flight, and the worker only
\* executes what the server has handed out.
InFlight ==
  /\ Open => \A a \in Activities \ Awaited[pc] : server[a] \in {"idle", "done"}
  /\ \A a \in running : server[a] \in {"started", "failed"}
  /\ Open <=> outcome = "none"

\* The phase that goes with each await.
PhaseAt == [p \in Awaits \ {"closed"} |->
              IF p = "start" THEN 0
              ELSE IF p = "plan" THEN 1
              ELSE IF p = "gather" THEN 2
              ELSE IF p \in {"execute", "verify", "blocked"} THEN 3
              ELSE IF p \in {"review", "correct"} THEN 4
              ELSE IF p \in {"synthesize", "callback"} THEN 5
              ELSE 6]

Progress ==
  /\ Open => PhaseReached = PhaseAt[pc]
  /\ pc \in {"start", "plan", "gather"} \/ halted
       => /\ \A a \in Downstream : server[a] = "idle"
          /\ received = {}
  /\ halted => pc \in {"gather", "closed"}
  /\ server["deliver_callback"] # "idle" => server["ravenna_synthesize"] # "idle"
  /\ received # {} => server["deliver_callback"] # "idle"

Returned(a) == IF server[a] = "done" THEN 1 ELSE 0

\* Which output is under review, and which one the last review looked at.
Versions ==
  /\ attempt < Attempts
  /\ current <= attempt
  /\ outputs <= Attempts
  /\ pc \in {"start", "plan", "gather"} => outputs = 0
  /\ pc = "execute" => outputs = Returned("lamponne_execute")
  /\ pc \in {"start", "plan", "gather", "execute"} => current = 0
  /\ pc \in {"verify", "review"} => outputs = current + 1
  /\ pc = "review" /\ server["santos_qa_review"] = "done" => review.of = current
  /\ pc = "correct" => /\ attempt + 1 < Attempts
                       /\ outputs = current + 1 + Returned("lamponne_execute")
  /\ pc \in {"synthesize", "callback", "learn"} \/ (Delivered /\ ~halted)
       => review.of + 1 = outputs

\* The status of the last review is the one that counts.
Verdicts ==
  /\ payload.prose => /\ server["ravenna_synthesize"] # "idle"
                      /\ payload.status = FinalStatus(review)
  /\ Delivered /\ ~halted => outcome = FinalStatus(review)

IInv == /\ TypeOK
        /\ InFlight
        /\ DeliveredLeavesNothingRunning
        /\ Progress
        /\ Versions
        /\ Verdicts
=============================================================================
