----------------------- MODULE RetryingWorkflow_proofs -----------------------
(***************************************************************************)
(* Proofs about RetryingWorkflow, for every number of correction attempts, *)
(* every set of operativos and any number of faults: its types, the review *)
(* of every correction, the quarantine of what Medina halts, and that it   *)
(* implements Operativo.                                                   *)
(***************************************************************************)
EXTENDS RetryingWorkflow, TLAPS

(***************************************************************************)
(* What the coroutine waits for, await by await.                           *)
(***************************************************************************)
LEMMA AwaitedAt ==
  /\ Awaited["plan"] = "santos_plan"
  /\ Awaited["investigate"] = "medina_investigate"
  /\ Awaited["execute"] = "lamponne_execute"
  /\ Awaited["correct"] = "lamponne_execute"
  /\ Awaited["review"] = "santos_qa_review"
  /\ Awaited["synthesize"] = "ravenna_synthesize"
  /\ Awaited["learn"] = "post_job_learn"
BY DEF Awaited, Awaits

\* Lamponne is awaited in two places.
LEMMA LamponneAt == TypeOK => (InLamponne <=> pc \in {"execute", "correct"})
BY AwaitedAt DEF InLamponne, Open, TypeOK, Awaits

\* The awaited activity is one of the workflow's.
LEMMA AwaitedIsActivity == TypeOK /\ Open => Awaited[pc] \in Activities
BY AwaitedAt DEF TypeOK, Open, Awaits, Activities

\* The initial states satisfy the invariant.
LEMMA InitIInv == Init => IInv
<1> SUFFICES ASSUME Init PROVE IInv
  OBVIOUS
<1> USE DEF Init
<1>1. TypeOK
  <2>1. pc \in Awaits /\ review \in Reviews /\ input \in InputKinds
    BY RetryAssumption DEF Awaits, Reviews
  <2>2. strays \in [Activities -> 0 .. MaxFaults]
    BY RetryAssumption
  <2>3. alive \in BOOLEAN /\ halted \in BOOLEAN /\ begun \in BOOLEAN
    OBVIOUS
  <2>. QED
    BY <2>1, <2>2, <2>3, RetryAssumption DEF TypeOK
<1>2. InFlight /\ Halting
  BY DEF InFlight, Halting, Open
<1>3. Rounds
  BY DEF Rounds, Reviewed
<1>. QED
  BY <1>1, <1>2, <1>3 DEF IInv

(***************************************************************************)
(* The coroutine: it resumes on a result, so that no attempt is under way. *)
(***************************************************************************)

\* What every step of the coroutine leaves alone, and what it leaves behind:
\* an activity to be begun, or a workflow that waits for nothing.
LEMMA WorkflowShape ==
  ASSUME IInv, Workflow
  PROVE  /\ UNCHANGED <<input, process, results>>
         /\ server \in {"none", "done"}
         /\ ~alive
         /\ \/ /\ server' = "scheduled"
               /\ pc' \in Awaits \ {"start", "blocked", "closed"}
               /\ outcome' = outcome
            \/ /\ server' = "done"
               /\ pc' \in {"blocked", "closed"}
               /\ outcome' \in {"none", "COMPLETED", "NEEDS_REVIEW"}
         /\ current' \in 0 .. MaxAttempts - 1
         /\ attempt' \in 0 .. MaxAttempts - 1
<1> USE DEF IInv, TypeOK, InFlight, Awaits
<1>1. CASE Plan \/ Investigate \/ ReadsDict \/ HaltOnInjection \/ Execute \/ Review
             \/ Correct \/ Synthesize \/ Learn
  BY <1>1 DEF Plan, Investigate, ReadsDict, HaltOnInjection, Execute, Review, Correct,
              Synthesize, Learn, Resumes, ParkAt, Close, loop
<1>2. CASE ReviewCorrection
  <2>1. pc = "correct" /\ server = "done" /\ current' = outputs - 1 /\ attempt' = attempt + 1
    BY <1>2 DEF ReviewCorrection, Resumes
  <2>2. attempt + 1 < MaxAttempts /\ outputs = attempt + 2
    BY <2>1 DEF Rounds
  <2>3. attempt + 1 \in 0 .. MaxAttempts - 1 /\ outputs - 1 = attempt + 1
    BY <2>2, RetryAssumption
  <2>. QED
    BY <1>2, <2>1, <2>3 DEF ReviewCorrection, Resumes, ParkAt
<1>3. CASE Finish
  <2>1. review.status \in {"COMPLETED", "NEEDS_REVIEW", "none"}
    BY DEF Reviews, NoReview
  <2>. QED
    BY <1>3, <2>1 DEF Finish, Resumes, Close, loop
<1>. QED
  BY <1>1, <1>2, <1>3 DEF Workflow, QaWithRetry

\* A step of the coroutine begins the next round, or stays in this one.
LEMMA WorkflowRounds == ASSUME IInv, Workflow PROVE Rounds'
<1> USE DEF Rounds, Reviewed
<1>1. UNCHANGED results
  BY WorkflowShape
<1>2. CASE Plan \/ Investigate \/ ReadsDict \/ HaltOnInjection \/ Execute \/ Review
  BY <1>1, <1>2 DEF IInv, TypeOK, InFlight, Plan, Investigate, ReadsDict, HaltOnInjection,
                    Execute, Review, Resumes, ParkAt, Close, loop, results
<1>3. CASE Correct
  <2>1. attempt + 1 < MaxAttempts
    BY <1>3, RetryAssumption DEF Correct, LastAttempt, IInv, TypeOK
  <2>. QED
    BY <1>1, <1>3, <2>1 DEF IInv, Correct, Resumes, ParkAt, loop, results
<1>5. CASE Synthesize \/ Learn \/ Finish
  BY <1>1, <1>5 DEF IInv, Synthesize, Learn, Finish, Resumes, ParkAt, Close, loop, results
<1>4. CASE ReviewCorrection
  BY <1>1, <1>4 DEF IInv, TypeOK, ReviewCorrection, Resumes, ParkAt, results
<1>. QED
  BY <1>2, <1>3, <1>4, <1>5 DEF Workflow, QaWithRetry

\* It stops where it must.
LEMMA WorkflowHalts == ASSUME IInv, Workflow PROVE Halting'
<1> USE DEF Halting, results, process
<1>1. UNCHANGED <<input, process, results>> /\ input.typed \in BOOLEAN
  BY WorkflowShape DEF IInv, TypeOK, InputKinds
<1>2. CASE Plan \/ Investigate \/ ReadsDict \/ HaltOnInjection \/ Execute
  BY <1>1, <1>2 DEF IInv, Plan, Investigate, ReadsDict, HaltOnInjection, Execute, Resumes,
                    ParkAt, Close
<1>3. CASE Review \/ QaWithRetry \/ Learn \/ Finish
  BY <1>1, <1>3 DEF IInv, Review, QaWithRetry, Correct, ReviewCorrection, Synthesize, Learn,
                    Finish, Resumes, ParkAt, Close
<1>. QED
  BY <1>2, <1>3 DEF Workflow

\* Every step of the coroutine keeps the invariant.
LEMMA WorkflowIInv == ASSUME IInv, Workflow PROVE IInv'
<1>1. TypeOK'
  <2>1. pc' \in Awaits
    BY WorkflowShape DEF Awaits
  <2>. QED
    BY <2>1, WorkflowShape DEF IInv, TypeOK, process, results
<1>2. InFlight'
  BY WorkflowShape DEF IInv, InFlight, Open, process, Awaits
<1>. QED
  BY <1>1, <1>2, WorkflowRounds, WorkflowHalts DEF IInv

(***************************************************************************)
(* The server and the worker: the coroutine stays where it is.             *)
(***************************************************************************)

\* Retry, whatever made the attempt fail: the activity waits for another one.
LEMMA RetryIInv ==
  ASSUME IInv, server = "started", Retry, alive' = FALSE,
         faults' \in 0 .. MaxFaults, faults <= faults',
         strays' \in [Activities -> 0 .. MaxFaults],
         \A a \in Activities : strays'[a] <= faults'
  PROVE  IInv'
<1> USE DEF IInv, Retry, coroutine, results, loop
<1>1. TypeOK'
  <2>1. alive' \in BOOLEAN
    OBVIOUS
  <2>. QED
    BY <2>1 DEF TypeOK
<1>2. InFlight'
  BY DEF InFlight, Open
<1>3. Rounds'
  BY DEF Rounds, Reviewed, TypeOK
<1>4. Halting'
  BY DEF Halting
<1>. QED
  BY <1>1, <1>2, <1>3, <1>4

\* An attempt is begun.
LEMMA BeginIInv == ASSUME IInv, Begin PROVE IInv'
<1> USE DEF IInv, Begin, coroutine, results, loop
<1>1. TypeOK'
  BY DEF TypeOK
<1>2. InFlight' /\ Halting'
  <2>1. InLamponne => pc \in {"execute", "correct"} /\ ~halted
    BY LamponneAt DEF Halting
  <2>. QED
    BY <2>1 DEF InFlight, Open, Halting
<1>3. Rounds'
  BY DEF Rounds, Reviewed, TypeOK
<1>. QED
  BY <1>1, <1>2, <1>3

\* The awaited attempt returns.
LEMMA ReturnIInv ==
  ASSUME IInv, MedinaReturns \/ LamponneReturns \/ SantosReviews \/ PlainReturns
  PROVE  IInv'
<1> DEFINE A == {"medina_investigate", "lamponne_execute", "santos_qa_review",
                 "santos_plan", "ravenna_synthesize", "post_job_learn"}
<1>1. PICK a \in A : Returns(a)
  BY DEF MedinaReturns, LamponneReturns, SantosReviews, PlainReturns
<1>2. /\ alive /\ server = "started" /\ Open /\ Awaited[pc] = a
      /\ server' = "done" /\ ~alive'
      /\ UNCHANGED <<coroutine, strays, worker, faults, begun>>
      /\ ~(input.domain = "has" /\ pc = "investigate")
  BY <1>1, AwaitedAt DEF Returns, IInv, InFlight, Refused
<1>3. InFlight'
  BY <1>2 DEF IInv, InFlight, Open, coroutine
<1>9. alive' \in BOOLEAN
  BY <1>1 DEF Returns
<1>5. CASE MedinaReturns
  <2>1. pc = "investigate" /\ halted' \in BOOLEAN /\ UNCHANGED <<outputs, review>>
    BY <1>2, <1>5, AwaitedAt DEF MedinaReturns, Returns, IInv, TypeOK, Awaits, Open
  <2>2. TypeOK' /\ Halting'
    BY <1>2, <2>1, <1>9 DEF IInv, TypeOK, Rounds, Halting, coroutine, loop
  <2>3. Rounds'
    BY <1>2, <2>1 DEF IInv, Rounds, Reviewed, coroutine, loop
  <2>. QED
    BY <1>3, <2>2, <2>3 DEF IInv
<1>6. CASE LamponneReturns
  <2>1. InLamponne /\ pc \in {"execute", "correct"} /\ outputs' = outputs + 1
        /\ UNCHANGED <<halted, review>>
    BY <1>2, <1>6, LamponneAt DEF LamponneReturns, Returns, InLamponne, IInv
  <2>2. outputs = (IF pc = "execute" THEN 0 ELSE attempt + 1)
        /\ (pc = "correct" => attempt + 1 < MaxAttempts)
        /\ (pc = "execute" => attempt = 0)
    BY <1>2, <2>1 DEF IInv, Rounds
  <2>3. outputs' \in 0 .. MaxAttempts
    BY <2>1, <2>2, RetryAssumption DEF IInv, TypeOK
  <2>4. TypeOK' /\ Halting'
    BY <1>2, <2>1, <2>3, <1>9 DEF IInv, TypeOK, Halting, coroutine, loop
  <2>5. Rounds'
    BY <1>2, <2>1, <2>2 DEF IInv, TypeOK, Rounds, Reviewed, coroutine, loop
  <2>. QED
    BY <1>3, <2>4, <2>5 DEF IInv
<1>7. CASE SantosReviews
  <2>1. pc = "review" /\ UNCHANGED <<halted, outputs>>
    BY <1>2, <1>7, AwaitedAt DEF SantosReviews, Returns, IInv, TypeOK, Awaits, Open
  <2>2. PICK s \in {"COMPLETED", "NEEDS_REVIEW"} : review' = [of |-> current, status |-> s]
    BY <1>7 DEF SantosReviews
  <2>3. review' \in Reviews
    BY <2>2 DEF Reviews, IInv, TypeOK
  <2>4. TypeOK' /\ Halting'
    BY <1>2, <2>1, <2>3, <1>9 DEF IInv, TypeOK, Halting, coroutine, loop
  <2>5. Rounds'
    BY <1>2, <2>1, <2>2 DEF IInv, TypeOK, Rounds, Reviewed, coroutine, loop
  <2>. QED
    BY <1>3, <2>4, <2>5 DEF IInv
<1>8. CASE PlainReturns
  <2>1. pc \in {"plan", "synthesize", "learn"} /\ UNCHANGED results
    BY <1>2, <1>8, AwaitedAt DEF PlainReturns, Returns, IInv, TypeOK, Awaits, Open
  <2>2. TypeOK' /\ Halting'
    BY <1>2, <2>1, <1>9 DEF IInv, TypeOK, Halting, coroutine, loop, results
  <2>3. Rounds'
    BY <1>2, <2>1 DEF IInv, TypeOK, Rounds, Reviewed, coroutine, loop, results
  <2>. QED
    BY <1>3, <2>2, <2>3 DEF IInv
<1>. QED
  BY <1>5, <1>6, <1>7, <1>8

\* An attempt fails, is timed out, is cancelled or is lost with its worker.
LEMMA FailureIInv ==
  ASSUME IInv, Raises \/ TimesOut \/ Forgotten \/ Cancelled
  PROVE  IInv'
<1>0. /\ strays \in [Activities -> 0 .. MaxFaults]
      /\ faults \in 0 .. MaxFaults
      /\ \A a \in Activities : strays[a] <= faults
  BY DEF IInv, TypeOK, InFlight
<1>1. CASE Raises
  <2>1. UNCHANGED strays /\ (faults' = faults \/ (faults < MaxFaults /\ faults' = faults + 1))
    BY <1>1 DEF Raises
  <2>2. faults' \in 0 .. MaxFaults /\ faults <= faults'
    BY <1>0, <2>1, RetryAssumption
  <2>3. \A a \in Activities : strays'[a] <= faults'
    BY <1>0, <2>1, <2>2
  <2>4. server = "started" /\ Retry /\ alive' = FALSE
    BY <1>1 DEF Raises, IInv, InFlight
  <2>. QED
    BY <1>0, <2>1, <2>2, <2>3, <2>4, RetryIInv
<1>2. CASE TimesOut
  <2>1. /\ server = "started" /\ Retry /\ alive' = FALSE
        /\ faults' = faults + 1 /\ faults < MaxFaults
        /\ strays' = [strays EXCEPT ![Awaited[pc]] = @ + 1]
    BY <1>2 DEF TimesOut, IInv, InFlight
  <2>2. faults' \in 0 .. MaxFaults /\ faults <= faults'
    BY <1>0, <2>1, RetryAssumption
  <2>3. Awaited[pc] \in Activities
    BY <2>1, AwaitedIsActivity DEF IInv, InFlight
  <2>4. \A a \in Activities : strays'[a] <= faults' /\ strays'[a] \in 0 .. MaxFaults
    <3>1. \A a \in Activities :
            strays'[a] = (IF a = Awaited[pc] THEN strays[a] + 1 ELSE strays[a])
      BY <1>0, <2>1, <2>3
    <3>2. \A a \in Activities : strays[a] \in Nat /\ strays[a] <= faults
      BY <1>0
    <3>. QED
      BY <1>0, <2>1, <3>1, <3>2, RetryAssumption
  <2>5. strays' \in [Activities -> 0 .. MaxFaults]
    BY <1>0, <2>1, <2>4
  <2>. QED
    BY <2>1, <2>2, <2>4, <2>5, RetryIInv
<1>3. CASE Forgotten \/ Cancelled
  <2>1. /\ server = "started" /\ Retry /\ alive' = FALSE
        /\ UNCHANGED <<strays, faults>>
    BY <1>3 DEF Forgotten, Cancelled, IInv, InFlight
  <2>2. faults' \in 0 .. MaxFaults /\ faults <= faults'
    BY <1>0, <2>1, RetryAssumption
  <2>. QED
    BY <1>0, <2>1, <2>2, RetryIInv
<1>. QED
  BY <1>1, <1>2, <1>3

\* The rest changes only what executes, the worker and the faults.
LEMMA ProcessIInv ==
  ASSUME IInv, UNCHANGED history,
         alive' \in BOOLEAN, alive' => alive,
         worker' \in {"up", "stopping", "draining", "down"},
         faults' \in 0 .. MaxFaults, faults <= faults',
         strays' \in [Activities -> 0 .. MaxFaults],
         \A a \in Activities : strays'[a] <= faults'
  PROVE  IInv'
<1> USE DEF IInv, history, coroutine, results, loop
<1>1. TypeOK'
  BY DEF TypeOK
<1>2. InFlight'
  BY DEF InFlight, Open
<1>5. Halting'
  BY DEF Halting
<1>3. Rounds'
  BY DEF Rounds, Reviewed
<1>. QED
  BY <1>1, <1>2, <1>3, <1>5

\* A stray ends, or the worker process goes on, down or up again.
LEMMA LifeIInv ==
  ASSUME IInv, \/ StrayEnds \/ Signal \/ ShutdownReturns \/ Drained \/ DrainExpires
               \/ Crash \/ Restart
  PROVE  IInv'
<1>0. /\ strays \in [Activities -> 0 .. MaxFaults]
      /\ faults \in 0 .. MaxFaults
      /\ \A a \in Activities : strays[a] <= faults
  BY DEF IInv, TypeOK, InFlight
<1>1. CASE StrayEnds
  <2>1. PICK a \in Activities : /\ strays[a] > 0
                                /\ strays' = [strays EXCEPT ![a] = @ - 1]
                                /\ UNCHANGED history
                                /\ UNCHANGED <<alive, worker, faults>>
    BY <1>1 DEF StrayEnds, history
  <2>2. \A b \in Activities : strays'[b] <= faults' /\ strays'[b] \in 0 .. MaxFaults
    <3>1. \A b \in Activities : strays'[b] = (IF b = a THEN strays[a] - 1 ELSE strays[b])
      BY <1>0, <2>1
    <3>2. \A b \in Activities : strays[b] \in Nat /\ strays[b] <= MaxFaults
      BY <1>0
    <3>. QED
      BY <1>0, <2>1, <3>1, <3>2, RetryAssumption
  <2>3. strays' \in [Activities -> 0 .. MaxFaults]
    BY <1>0, <2>1, <2>2
  <2>4. /\ alive' \in BOOLEAN /\ (alive' => alive)
        /\ worker' \in {"up", "stopping", "draining", "down"}
    BY <2>1 DEF IInv, TypeOK
  <2>5. faults' \in 0 .. MaxFaults /\ faults <= faults'
    BY <1>0, <2>1
  <2>. QED
    BY <2>1, <2>2, <2>3, <2>4, <2>5, ProcessIInv
<1>2. CASE Signal \/ ShutdownReturns \/ Drained \/ Restart
  <2>1. /\ UNCHANGED history
        /\ UNCHANGED <<alive, strays>>
        /\ worker' \in {"up", "stopping", "draining", "down"}
        /\ faults' = faults \/ (faults < MaxFaults /\ faults' = faults + 1)
    BY <1>2 DEF Signal, ShutdownReturns, Drained, Restart
  <2>4. alive' \in BOOLEAN /\ (alive' => alive)
    BY <2>1 DEF IInv, TypeOK
  <2>2. faults' \in 0 .. MaxFaults /\ faults <= faults'
    BY <1>0, <2>1, RetryAssumption
  <2>3. \A a \in Activities : strays'[a] <= faults'
    BY <1>0, <2>1, <2>2
  <2>. QED
    BY <1>0, <2>1, <2>2, <2>3, <2>4, ProcessIInv
<1>3. CASE DrainExpires \/ Crash
  <2>1. /\ UNCHANGED history /\ alive' = FALSE /\ worker' = "down" /\ strays' = Nothing
        /\ faults' = faults \/ (faults < MaxFaults /\ faults' = faults + 1)
    BY <1>3 DEF DrainExpires, Crash
  <2>4. alive' \in BOOLEAN /\ ~alive'
    BY <2>1
  <2>2. faults' \in 0 .. MaxFaults /\ faults <= faults'
    BY <1>0, <2>1, RetryAssumption
  <2>3. strays' \in [Activities -> 0 .. MaxFaults] /\ \A a \in Activities : strays'[a] <= faults'
    BY <1>0, <2>1, <2>2, RetryAssumption DEF Nothing
  <2>. QED
    BY <2>1, <2>2, <2>3, <2>4, ProcessIInv
<1>. QED
  BY <1>1, <1>2, <1>3

\* Every step keeps the invariant.
LEMMA StepIInv == IInv /\ [Next]_vars => IInv'
<1> SUFFICES ASSUME IInv, [Next]_vars PROVE IInv'
  OBVIOUS
<1>1. CASE UNCHANGED vars
  BY <1>1 DEF vars, IInv, TypeOK, InFlight, Open, Rounds, Reviewed, Halting
<1>2. CASE Workflow
  BY <1>2, WorkflowIInv
<1>3. CASE Attempt
  BY <1>3, BeginIInv, ReturnIInv, FailureIInv, LifeIInv DEF Attempt
<1>4. CASE Worker
  BY <1>4, FailureIInv, LifeIInv DEF Worker
<1>. QED
  BY <1>1, <1>2, <1>3, <1>4 DEF Next

\* The inductive invariant holds in every reachable state, for every budget
\* of corrections and any number of faults.
THEOREM Invariance == Spec => []IInv
  BY InitIInv, StepIInv, PTL DEF Spec

\* Coroutine, server, strays and worker process keep their types; the loop
\* keeps within its budget.
THEOREM TypeCorrect == Spec => []TypeOK
<1>1. IInv => TypeOK
  BY DEF IInv
<1>. QED
  BY <1>1, Invariance, PTL

\* Nothing is ever executed on a document that Medina's verdict halts, however
\* many attempts of Medina it took and however often the worker went down.
THEOREM HaltedIsQuarantined == Spec => []HaltQuarantines
<1>1. IInv => HaltQuarantines
  BY DEF IInv, Halting, HaltQuarantines
<1>. QED
  BY <1>1, Invariance, PTL

\* However the loop of corrections is left, the last review looked at the
\* last output, for every number of corrections.
THEOREM CorrectionsReviewed == Spec => []EveryCorrectionIsReviewed
<1>1. IInv => EveryCorrectionIsReviewed
  BY DEF IInv, Rounds, Reviewed, EveryCorrectionIsReviewed
<1>. QED
  BY <1>1, Invariance, PTL

(***************************************************************************)
(* Refinement.                                                             *)
(***************************************************************************)

\* Every step of the coroutine is one of the operativo's, or a stutter.
LEMMA WorkflowRefines == ASSUME IInv, Workflow PROVE [O!Next]_(O!vars)
<1> USE DEF PhaseReached, StatusShown, O!vars
<1>1. UNCHANGED <<input, results>>
  BY WorkflowShape
<1>2. CASE Plan
  BY <1>2 DEF Plan, ParkAt, O!Next, O!Begin, O!PLAN
<1>3. CASE Investigate \/ Execute \/ Review \/ Synthesize \/ Learn
  BY <1>3 DEF Investigate, Execute, Review, Synthesize, Learn, Resumes, ParkAt, O!Next,
              O!Advance, O!POST_JOB
<1>4. CASE ReadsDict \/ Correct \/ ReviewCorrection
  BY <1>4 DEF ReadsDict, Correct, ReviewCorrection, Resumes, ParkAt
<1>5. CASE HaltOnInjection
  BY <1>1, <1>5 DEF HaltOnInjection, Resumes, Close, O!Next, O!Halt, O!INVESTIGATE, results
<1>6. CASE Finish
  <2>1. ~halted /\ pc = "learn" /\ review.status \in {"COMPLETED", "NEEDS_REVIEW"}
    BY <1>6 DEF Finish, Resumes, IInv, Halting, Rounds, Reviewed, TypeOK, Reviews, NoReview
  <2>2. ~halted' /\ pc' = "closed" /\ outcome' = review.status
    BY <1>1, <1>6, <2>1 DEF Finish, Close, results
  <2>. QED
    BY <2>1, <2>2 DEF O!Next, O!Deliver, O!SYNTHESIZE, O!POST_JOB
<1>. QED
  BY <1>2, <1>3, <1>4, <1>5, <1>6 DEF Workflow, QaWithRetry

\* Attempts and workers do not show.
LEMMA AttemptsAreHidden ==
  ASSUME IInv, Attempt \/ Worker
  PROVE  UNCHANGED O!vars
<1>1. UNCHANGED <<pc, outcome>>
  BY DEF Attempt, Worker, Begin, MedinaReturns, LamponneReturns, SantosReviews, PlainReturns,
         Returns, Raises, TimesOut, Forgotten, StrayEnds, Signal, Cancelled, ShutdownReturns,
         Drained, DrainExpires, Crash, Restart, Retry, coroutine, history
<1>2. pc = "closed" => UNCHANGED halted
  <2>1. ASSUME pc = "closed" PROVE ~alive
    BY <2>1 DEF IInv, InFlight, Open
  <2>. QED
    BY <2>1 DEF Attempt, Worker, Begin, MedinaReturns, LamponneReturns, SantosReviews,
                PlainReturns, Returns, Raises, TimesOut, Forgotten, StrayEnds, Signal, Cancelled,
                ShutdownReturns, Drained, DrainExpires, Crash, Restart, Retry, coroutine,
                history, results
<1>. QED
  BY <1>1, <1>2 DEF O!vars, PhaseReached, StatusShown

\* RetryingWorkflow implements Operativo: retried attempts, strays, crashes
\* and restarts do not show, for any number of them.
THEOREM Refinement == Spec => ImplementsOperativo
<1>1. Init => O!Init
  BY DEF Init, O!Init, O!INTAKE, PhaseReached, StatusShown
<1>2. IInv /\ [Next]_vars => [O!Next]_(O!vars)
  <2>1. ASSUME UNCHANGED vars PROVE UNCHANGED O!vars
    BY <2>1 DEF vars, O!vars, PhaseReached, StatusShown
  <2>. QED
    BY <2>1, WorkflowRefines, AttemptsAreHidden DEF Next
<1>. QED
  BY <1>1, <1>2, Invariance, PTL DEF Spec, ImplementsOperativo, O!Spec
=============================================================================
