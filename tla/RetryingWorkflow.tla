--------------------------- MODULE RetryingWorkflow ---------------------------
(***************************************************************************)
(* IdpOperativoWorkflow and CEEOperativoWorkflow (workflows/idp_workflow.py*)
(* and has_workflow.py, one shape in two files) with the worker process    *)
(* they run on (workers/idp.py, has.py, _shutdown.py).                     *)
(*                                                                         *)
(* Their activities are called by name, one at a time, without a retry     *)
(* policy and without a result type. So Temporal's default policy holds,   *)
(* a failed attempt is queued again without limit, and an execution that   *)
(* outlived its start_to_close (a stray) may run beside its successor. And *)
(* what a result is when it reaches the workflow is the data converter's   *)
(* choice: the default one yields a dict, on which the first attribute     *)
(* access raises.                                                          *)
(***************************************************************************)
EXTENDS Naturals

CONSTANTS MaxAttempts,  \* config.max_correction_attempts
          Inputs,       \* the operativos considered, see InputKinds
          MaxFaults     \* bound: failed attempts, crashes and signals together

\* An operativo is known by its domain and by whether the converter of the
\* connection rebuilds the results of its activities.
InputKinds == [domain : {"idp", "has"}, typed : BOOLEAN]

ASSUME RetryAssumption == /\ MaxAttempts \in Nat \ {0}
                          /\ Inputs \subseteq InputKinds
                          /\ MaxFaults \in Nat

VARIABLES
  input,     \* the operativo
  pc,        \* the await the coroutine is parked at
  server,    \* the awaited activity in the workflow's history
  alive,     \* the attempt the server waits for is executing
  strays,    \* executions of each activity that the server has given up
  halted,    \* Medina's verdict
  outputs,   \* how many outputs of Lamponne the workflow has been given
  current,   \* current_output_json, by its number
  attempt,   \* the loop variable of _qa_with_retry
  review,    \* the last QAReviewOutput: the output it is of and its status
  outcome,   \* the status the workflow closed with
  worker,    \* the worker process
  faults,    \* how much has gone wrong, bounded by MaxFaults
  begun      \* history: an execution of Lamponne has been begun

vars == <<input, pc, server, alive, strays, halted, outputs, current, attempt,
          review, outcome, worker, faults, begun>>

results == <<halted, outputs, review>>
loop == <<current, attempt>>
process == <<alive, strays, worker, faults, begun>>

Awaits == {"start", "plan", "investigate", "execute", "review", "correct",
           "synthesize", "learn", "blocked", "closed"}

Activities == {"santos_plan", "medina_investigate", "lamponne_execute",
               "santos_qa_review", "ravenna_synthesize", "post_job_learn"}

\* The activity the coroutine waits for at each await.
Awaited == [p \in Awaits \ {"start", "blocked", "closed"} |->
  CASE p = "plan"                   -> "santos_plan"
    [] p = "investigate"            -> "medina_investigate"
    [] p \in {"execute", "correct"} -> "lamponne_execute"
    [] p = "review"                 -> "santos_qa_review"
    [] p = "synthesize"             -> "ravenna_synthesize"
    [] p = "learn"                  -> "post_job_learn"]

\* build_tool_handler raises for the domain "has", in the activities of the
\* agents that have tools.
Refused == {"medina_investigate", "lamponne_execute", "ravenna_synthesize"}

NoReview == [of |-> 0, status |-> "none"]
Reviews == [of : Nat, status : {"COMPLETED", "NEEDS_REVIEW"}] \cup {NoReview}

-----------------------------------------------------------------------------
Init == /\ input \in Inputs
        /\ pc = "start"
        /\ server = "none"
        /\ alive = FALSE
        /\ strays = [a \in Activities |-> 0]
        /\ halted = FALSE
        /\ outputs = 0
        /\ current = 0
        /\ attempt = 0
        /\ review = NoReview
        /\ outcome = "none"
        /\ worker = "up"
        /\ faults = 0
        /\ begun = FALSE

-----------------------------------------------------------------------------
(* The coroutine. Its tasks, too, are run by the worker.                   *)

Resumes(p) == /\ worker = "up"
              /\ pc = p
              /\ server = "done"

\* The next activity is scheduled and the coroutine waits for it.
ParkAt(p) == /\ pc' = p
             /\ server' = "scheduled"
             /\ UNCHANGED <<input, outcome, process>>

Close(s) == /\ pc' = "closed"
            /\ outcome' = s
            /\ UNCHANGED <<input, server, process>>

Plan == /\ worker = "up"
        /\ pc = "start"
        /\ ParkAt("plan")
        /\ UNCHANGED <<results, loop>>

\* plan_output.phase_result is read before the next phase is scheduled.
Investigate == /\ Resumes("plan")
               /\ input.typed
               /\ ParkAt("investigate")
               /\ UNCHANGED <<results, loop>>

\* A dict has no such attribute: the workflow task fails, and the server
\* runs it again on the same history, for ever.
ReadsDict == /\ Resumes("plan")
             /\ ~input.typed
             /\ pc' = "blocked"
             /\ UNCHANGED <<input, server, outcome, process, results, loop>>

\* Mutant of HaltOnInjection: the output's default status is left in place.
HaltOnInjection_default == /\ Resumes("investigate")
                           /\ halted
                           /\ Close("COMPLETED")
                           /\ UNCHANGED <<results, loop>>

HaltOnInjection == /\ Resumes("investigate")
                   /\ halted
                   /\ Close("NEEDS_REVIEW")
                   /\ UNCHANGED <<results, loop>>

\* Mutant of Execute: the verdict is not looked at.
Execute_unguarded == /\ Resumes("investigate")
                     /\ ParkAt("execute")
                     /\ UNCHANGED <<results, loop>>

Execute == /\ Resumes("investigate")
           /\ ~halted
           /\ ParkAt("execute")
           /\ UNCHANGED <<results, loop>>

\* The loop starts on Lamponne's first output.
Review == /\ Resumes("execute")
          /\ ParkAt("review")
          /\ UNCHANGED <<results, loop>>

\* Mutant of LastAttempt: the loop's bound is off by one.
LastAttempt_late == attempt + 1 > MaxAttempts

LastAttempt == attempt + 1 >= MaxAttempts

\* Whatever the review finds is sent to Lamponne, correctable or not.
Correct == /\ Resumes("review")
           /\ review.status # "COMPLETED"
           /\ ~LastAttempt
           /\ ParkAt("correct")
           /\ UNCHANGED <<results, loop>>

\* Mutant of ReviewCorrection: the output before the correction is reviewed.
ReviewCorrection_stale == /\ Resumes("correct")
                          /\ attempt' = attempt + 1
                          /\ ParkAt("review")
                          /\ UNCHANGED <<results, current>>

ReviewCorrection == /\ Resumes("correct")
                    /\ current' = outputs - 1
                    /\ attempt' = attempt + 1
                    /\ ParkAt("review")
                    /\ UNCHANGED results

Synthesize == /\ Resumes("review")
              /\ review.status = "COMPLETED" \/ LastAttempt
              /\ ParkAt("synthesize")
              /\ UNCHANGED <<results, loop>>

Learn == /\ Resumes("synthesize")
         /\ ParkAt("learn")
         /\ UNCHANGED <<results, loop>>

Finish == /\ Resumes("learn")
          /\ Close(review.status)
          /\ UNCHANGED <<results, loop>>

QaWithRetry == Correct \/ ReviewCorrection \/ Synthesize

Workflow == \/ Plan \/ Investigate \/ ReadsDict \/ HaltOnInjection \/ Execute
            \/ Review \/ QaWithRetry \/ Learn \/ Finish

-----------------------------------------------------------------------------
(* The Temporal server and the attempts of the awaited activity.           *)

coroutine == <<input, pc, loop, outcome>>

Open == pc \notin {"start", "blocked", "closed"}
InLamponne == Open /\ Awaited[pc] = "lamponne_execute"

\* A running worker polls the queue and starts the attempt.
Begin == /\ worker = "up"
         /\ server = "scheduled"
         /\ server' = "started"
         /\ alive' = TRUE
         /\ begun' = (begun \/ InLamponne)
         /\ UNCHANGED <<coroutine, results, strays, worker, faults>>

\* The awaited attempt returns in time: its result is the one that counts.
Returns(a) == /\ alive
              /\ Awaited[pc] = a
              /\ ~(input.domain = "has" /\ a \in Refused)
              /\ server' = "done"
              /\ alive' = FALSE
              /\ UNCHANGED <<coroutine, strays, worker, faults, begun>>

MedinaReturns == /\ Returns("medina_investigate")
                 /\ halted' \in BOOLEAN
                 /\ UNCHANGED <<outputs, review>>

LamponneReturns == /\ Returns("lamponne_execute")
                   /\ outputs' = outputs + 1
                   /\ UNCHANGED <<halted, review>>

SantosReviews == /\ Returns("santos_qa_review")
                 /\ \E s \in {"COMPLETED", "NEEDS_REVIEW"} :
                      review' = [of |-> current, status |-> s]
                 /\ UNCHANGED <<halted, outputs>>

PlainReturns == /\ \E a \in {"santos_plan", "ravenna_synthesize", "post_job_learn"} : Returns(a)
                /\ UNCHANGED results

\* The default retry policy: the failed attempt is queued again.
Retry == /\ server' = "scheduled"
         /\ UNCHANGED <<coroutine, results, worker, begun>>

\* The activity raises; in the domain "has" it always does.
Raises == /\ alive
          /\ \/ faults < MaxFaults /\ faults' = faults + 1
             \/ /\ input.domain = "has"
                /\ Awaited[pc] \in Refused
                /\ UNCHANGED faults
          /\ Retry
          /\ alive' = FALSE
          /\ UNCHANGED strays

\* start_to_close expires while the code runs: a stray stays behind.
TimesOut == /\ alive
            /\ faults < MaxFaults
            /\ faults' = faults + 1
            /\ Retry
            /\ alive' = FALSE
            /\ strays' = [strays EXCEPT ![Awaited[pc]] = @ + 1]

\* Mutant of Forgotten: the activities have no start_to_close timeout.
Forgotten_never == FALSE /\ UNCHANGED vars

\* The process that ran the attempt is gone; only the timeout tells.
Forgotten == /\ Open
             /\ server = "started"
             /\ ~alive
             /\ Retry
             /\ UNCHANGED <<alive, strays, faults>>

\* A stray ends, and its answer is refused.
StrayEnds == \E a \in Activities :
  /\ strays[a] > 0
  /\ strays' = [strays EXCEPT ![a] = @ - 1]
  /\ UNCHANGED <<coroutine, server, results, alive, worker, faults, begun>>

-----------------------------------------------------------------------------
(* The worker process: run_worker_with_graceful_shutdown.                  *)

history == <<coroutine, server, results, begun>>
Nothing == [a \in Activities |-> 0]

\* SIGTERM or SIGINT sets the event: worker.shutdown() stops the polling.
Signal == /\ worker = "up"
          /\ faults < MaxFaults
          /\ faults' = faults + 1
          /\ worker' = "stopping"
          /\ UNCHANGED <<history, alive, strays>>

\* The Temporal worker cancels an activity while it shuts down. Cancelled
\* by the shutdown and not by the server, the attempt has failed.
Cancelled == /\ worker \in {"stopping", "draining"}
             /\ alive
             /\ Retry
             /\ alive' = FALSE
             /\ UNCHANGED <<strays, faults>>

\* shutdown() returns, and the drain is waited for.
ShutdownReturns == /\ worker = "stopping"
                   /\ worker' = "draining"
                   /\ UNCHANGED <<history, alive, strays, faults>>

\* The worker's task ends when no activity is left.
Drained == /\ worker = "draining"
           /\ ~alive
           /\ strays = Nothing
           /\ worker' = "down"
           /\ UNCHANGED <<history, alive, strays, faults>>

\* max_drain_seconds are over: the task is cancelled and the process exits
\* with whatever it was executing.
DrainExpires == /\ worker = "draining"
                /\ worker' = "down"
                /\ alive' = FALSE
                /\ strays' = Nothing
                /\ UNCHANGED <<history, faults>>

\* The process dies, or worker.run() ends by itself.
Crash == /\ worker # "down"
         /\ faults < MaxFaults
         /\ faults' = faults + 1
         /\ worker' = "down"
         /\ alive' = FALSE
         /\ strays' = Nothing
         /\ UNCHANGED history

\* Whoever runs the workers starts another one.
Restart == /\ worker = "down"
           /\ worker' = "up"
           /\ UNCHANGED <<history, alive, strays, faults>>

Attempt == \/ Begin \/ MedinaReturns \/ LamponneReturns \/ SantosReviews \/ PlainReturns
           \/ Raises \/ TimesOut \/ Forgotten \/ StrayEnds

Worker == \/ Signal \/ Cancelled \/ ShutdownReturns \/ Drained \/ DrainExpires
          \/ Crash \/ Restart

Next == Workflow \/ Attempt \/ Worker

\* Workflow tasks are run, queued attempts are begun, an attempt ends or is
\* timed out, a drain ends by itself or by its limit, and a worker is
\* started again. Nothing is assumed of strays: one may hang for ever.
Fairness == /\ WF_vars(Workflow)
            /\ WF_vars(Begin)
            /\ WF_vars(MedinaReturns \/ LamponneReturns \/ SantosReviews \/ PlainReturns
                       \/ Raises \/ TimesOut \/ Forgotten \/ Cancelled)
            /\ WF_vars(ShutdownReturns)
            /\ WF_vars(Drained \/ DrainExpires)
            /\ WF_vars(Restart)

Spec == Init /\ [][Next]_vars

FairSpec == Spec /\ Fairness

-----------------------------------------------------------------------------
\* The coroutine, the server and the worker process.
TypeOK == /\ input \in InputKinds
          /\ pc \in Awaits
          /\ server \in {"none", "scheduled", "started", "done"}
          /\ alive \in BOOLEAN
          /\ strays \in [Activities -> 0 .. MaxFaults]
          /\ halted \in BOOLEAN
          /\ outputs \in 0 .. MaxAttempts
          /\ current \in 0 .. MaxAttempts - 1
          /\ attempt \in 0 .. MaxAttempts - 1
          /\ review \in Reviews
          /\ outcome \in {"none", "COMPLETED", "NEEDS_REVIEW"}
          /\ worker \in {"up", "stopping", "draining", "down"}
          /\ faults \in 0 .. MaxFaults
          /\ begun \in BOOLEAN

\* However the attempts of an activity overlap, and whatever the late ones
\* answer: once the loop is left, the review the workflow goes by looked at
\* the last of the outputs it was given, and it was given one output for
\* every round.
EveryCorrectionIsReviewed ==
  pc \in {"synthesize", "learn"} \/ (pc = "closed" /\ ~halted)
    => review.of + 1 = outputs /\ outputs = attempt + 1

\* Lamponne acts on other systems: on a document for which Medina's verdict
\* was to halt it is not begun, not once, whatever attempts of Medina failed,
\* went astray or were begun again before that verdict was heard.
HaltQuarantines == halted => ~begun /\ outputs = 0

Completable == input = [domain |-> "idp", typed |-> TRUE]

\* With results that can be read, an operativo survives everything that ends
\* at some time: attempts that raise or time out, strays that hang, crashes
\* and restarts of the worker.
Terminates == <>(pc = "closed" \/ ~Completable)

\* idp_workflow.py: "Phase 5: Ravenna synthesizes -> structured_result.json",
\* and has_workflow.py alike: an operativo gets to its end.
OperativoEnds == <>(pc = "closed")

PhaseReached == CASE pc = "start" -> 0
                  [] pc \in {"plan", "blocked"} -> 1
                  [] pc = "investigate" -> 2
                  [] pc = "execute" -> 3
                  [] pc \in {"review", "correct"} -> 4
                  [] pc = "synthesize" -> 5
                  [] pc = "learn" -> 6
                  [] pc = "closed" -> IF halted THEN 2 ELSE 6

StatusShown == IF pc = "start" THEN "PENDING"
               ELSE IF pc = "closed" THEN outcome
               ELSE "RUNNING"

O == INSTANCE Operativo WITH phase <- PhaseReached,
                             status <- StatusShown,
                             notified <- FALSE

\* Retried attempts and restarted workers do not show: phases in order, each
\* once, and one terminal status, NEEDS_REVIEW for a suspicious document.
ImplementsOperativo == O!Spec
-----------------------------------------------------------------------------
(* The inductive invariant.                                                *)

\* An attempt that executes is the one the server has started, and only an
\* open workflow has an attempt to come.
InFlight == /\ alive => server = "started"
            /\ server = "none" <=> pc = "start"
            /\ server \in {"scheduled", "started"} => Open
            /\ \A a \in Activities : strays[a] <= faults

Reviewed == \/ pc = "review" /\ server = "done"
            \/ pc \in {"synthesize", "learn"}
            \/ pc = "closed" /\ ~halted

\* Which output each round of the loop is about.
Rounds ==
  /\ pc \in {"start", "plan", "blocked", "investigate"} => outputs = 0
  /\ pc \in {"start", "plan", "blocked", "investigate", "execute"}
       => attempt = 0 /\ current = 0
  /\ pc = "execute" => outputs = (IF server = "done" THEN 1 ELSE 0)
  /\ pc = "review" => outputs = attempt + 1 /\ current = attempt
  /\ pc = "correct" => /\ attempt + 1 < MaxAttempts
                       /\ outputs = attempt + (IF server = "done" THEN 2 ELSE 1)
  /\ Reviewed => /\ review.of = attempt
                 /\ review.status # "none"
                 /\ outputs = attempt + 1

\* Medina's verdict keeps the workflow from going on, and so does a domain
\* without tools; Lamponne is begun only after it.
Halting == /\ halted => pc \in {"investigate", "closed"} /\ outputs = 0
           /\ input.domain = "has" /\ pc = "investigate" => server # "done"
           /\ begun => ~halted /\ pc \notin {"start", "plan", "blocked", "investigate"}

IInv == /\ TypeOK
        /\ InFlight
        /\ Rounds
        /\ Halting
=============================================================================
