-------------------------- MODULE DceWorkflow_proofs --------------------------
(***************************************************************************)
(* Proofs about DceWorkflow, for every number of correction attempts and   *)
(* every set of faults.                                                    *)
(***************************************************************************)
EXTENDS DceWorkflow, TLAPS

(***************************************************************************)
(* What the coroutine waits for, await by await.                           *)
(***************************************************************************)
LEMMA AwaitedAt ==
  /\ Awaited["start"] = {} /\ Awaited["blocked"] = {} /\ Awaited["closed"] = {}
  /\ Awaited["plan"] = {"santos_plan"}
  /\ Awaited["gather"] = {"medina_investigate", "gemini_vision_extract"}
  /\ Awaited["execute"] = {"lamponne_execute"}
  /\ Awaited["verify"] = {"cpc_web_verify"}
  /\ Awaited["review"] = {"santos_qa_review"}
  /\ Awaited["correct"] = {"lamponne_execute"}
  /\ Awaited["synthesize"] = {"ravenna_synthesize"}
  /\ Awaited["callback"] = {"deliver_callback"}
  /\ Awaited["learn"] = {"post_job_learn"}
BY DEF Awaited, Awaits

\* The phase of each await, spelled out.
LEMMA PhaseAtIs ==
  /\ PhaseAt["start"] = 0 /\ PhaseAt["plan"] = 1 /\ PhaseAt["gather"] = 2
  /\ PhaseAt["execute"] = 3 /\ PhaseAt["verify"] = 3 /\ PhaseAt["blocked"] = 3
  /\ PhaseAt["review"] = 4 /\ PhaseAt["correct"] = 4
  /\ PhaseAt["synthesize"] = 5 /\ PhaseAt["callback"] = 5
  /\ PhaseAt["learn"] = 6
BY DEF PhaseAt, Awaits

\* There is at least one attempt, in fast mode too.
LEMMA AttemptsPositive == TypeOK => Attempts \in Nat \ {0}
BY ConfigAssumption DEF Attempts, TypeOK

\* The initial states satisfy the invariant.
LEMMA InitInv == Init => IInv
<1> SUFFICES ASSUME Init PROVE IInv
  OBVIOUS
<1> USE DEF Init
<1>1. TypeOK
  <2>1. review \in Reviews /\ payload \in Payloads
    BY DEF Reviews, Payloads
  <2>2. server \in [Activities -> ActivityStates]
    BY DEF ActivityStates
  <2>3. pc \in Awaits /\ outcome \in Outcomes
    BY DEF Awaits, Outcomes
  <2>. QED
    BY <2>1, <2>2, <2>3 DEF TypeOK
<1>2. InFlight
  BY DEF InFlight, Open
<1>3. DeliveredLeavesNothingRunning
  BY DEF DeliveredLeavesNothingRunning, Delivered
<1>4. Progress
  BY PhaseAtIs DEF Progress, PhaseReached, Open, Activities, Downstream
<1>5. Versions
  BY <1>1, AttemptsPositive DEF Versions, Delivered
<1>6. Verdicts
  BY DEF Verdicts, Delivered, NoPayload
<1>. QED
  BY <1>1, <1>2, <1>3, <1>4, <1>5, <1>6 DEF IInv

(***************************************************************************)
(* A step of the worker or the server: the coroutine stays where it is, no *)
(* activity becomes idle or stops being idle, and an activity whose state  *)
(* changes was in flight.                                                  *)
(***************************************************************************)
LEMMA WorkerShape ==
  ASSUME TypeOK, Worker
  PROVE  /\ UNCHANGED workflow
         /\ server' \in [Activities -> ActivityStates]
         /\ running' \subseteq Activities
         /\ cause' \in {"none", "raise", "timeout", "crash"}
         /\ ~Open => running' \subseteq running
         /\ \A a \in Activities :
              \/ server'[a] = server[a]
              \/ /\ Open
                 /\ server[a] \in {"scheduled", "started"}
                 /\ server'[a] \in {"started", "done", "failed"}
                 /\ server'[a] = "done" => Completes(a)
<1> USE DEF TypeOK, ActivityStates
<1>1. ASSUME NEW a \in Activities, Completes(a)
      PROVE  /\ UNCHANGED workflow
             /\ server' \in [Activities -> ActivityStates]
             /\ running' \subseteq Activities
             /\ UNCHANGED cause
             /\ Open /\ server[a] = "started" /\ server'[a] = "done"
             /\ \A b \in Activities \ {a} : server'[b] = server[b]
  BY <1>1 DEF Completes
<1>2. CASE MedinaReturns \/ LamponneReturns \/ SantosReviews \/ RavennaReturns
             \/ \E a \in Plain : PlainReturns(a)
  <2>1. PICK a \in Activities : Completes(a)
    BY <1>2 DEF MedinaReturns, LamponneReturns, SantosReviews, RavennaReturns,
                PlainReturns, Plain, Activities
  <2>. QED
    BY <2>1, <1>1
<1>3. ASSUME NEW a \in Activities, Begin(a) \/ Raises(a) \/ TimesOut(a) \/ AnswersLate(a)
      PROVE  /\ UNCHANGED workflow
             /\ server' \in [Activities -> ActivityStates]
             /\ running' \subseteq Activities
             /\ cause' \in {"none", "raise", "timeout", "crash"}
             /\ ~Open => running' \subseteq running
             /\ \A b \in Activities :
                  \/ server'[b] = server[b]
                  \/ /\ Open
                     /\ server[b] \in {"scheduled", "started"}
                     /\ server'[b] \in {"started", "failed"}
  BY <1>3 DEF Begin, Raises, TimesOut, AnswersLate
<1>4. CASE Post \/ Crash
  BY <1>4 DEF Post, Crash
<1>. QED
  BY <1>2, <1>3, <1>4 DEF Worker

\* What a step of the server or the worker does to the results.
LEMMA WorkerResults ==
  ASSUME TypeOK, Worker
  PROVE  /\ halted' = halted \/ (halted' \in BOOLEAN /\ Completes("medina_investigate"))
         /\ \/ outputs' = outputs
            \/ outputs' = outputs + 1 /\ Completes("lamponne_execute")
         /\ \/ review' = review
            \/ /\ Completes("santos_qa_review")
               /\ review' \in [of : {current}, found : Findings]
         /\ \/ payload' = payload
            \/ /\ Completes("ravenna_synthesize")
               /\ payload' \in Synthesized(0, review)
         /\ Completes("lamponne_execute") => outputs' = outputs + 1
         /\ Completes("santos_qa_review") => review'.of = current
         /\ \/ received' = received
            \/ received' = received \cup {payload} /\ "deliver_callback" \in running
<1>1. ASSUME NEW a \in Activities, NEW b \in Activities, Completes(a), Completes(b)
      PROVE  a = b
  <2>1. server[b] = "started" /\ server'[b] = "done"
    BY <1>1 DEF Completes, TypeOK
  <2>. QED
    BY <1>1, <2>1 DEF Completes, TypeOK
<1>2. {"medina_investigate", "lamponne_execute", "santos_qa_review",
       "ravenna_synthesize"} \subseteq Activities /\ Plain \subseteq Activities
  BY DEF Activities, Plain
<1> USE DEF results, endpoint
<1>3. CASE MedinaReturns
  BY <1>1, <1>2, <1>3 DEF MedinaReturns, Completes
<1>4. CASE LamponneReturns
  BY <1>1, <1>2, <1>4 DEF LamponneReturns, Completes
<1>5. CASE SantosReviews
  <2>1. Completes("santos_qa_review") /\ ~Completes("lamponne_execute")
    BY <1>1, <1>2, <1>5 DEF SantosReviews
  <2>2. PICK f \in Findings : review' = [of |-> current, found |-> f]
    BY <1>5 DEF SantosReviews
  <2>3. UNCHANGED <<halted, outputs, payload, received>>
    BY <1>5 DEF SantosReviews, Completes
  <2>. QED
    BY <2>1, <2>2, <2>3
<1>6. CASE RavennaReturns
  BY <1>1, <1>2, <1>6 DEF RavennaReturns, Completes
<1>7. ASSUME NEW a \in Plain, PlainReturns(a)
      PROVE  /\ UNCHANGED <<results, received>>
             /\ ~Completes("lamponne_execute") /\ ~Completes("santos_qa_review")
  BY <1>1, <1>2, <1>7 DEF PlainReturns, Completes, Plain
<1>8. ASSUME NEW a \in Activities, Begin(a) \/ Raises(a) \/ TimesOut(a) \/ AnswersLate(a)
      PROVE  /\ UNCHANGED <<results, received>>
             /\ ~Completes("lamponne_execute") /\ ~Completes("santos_qa_review")
  <2>1. UNCHANGED <<results, received>>
    BY <1>8 DEF Begin, Raises, TimesOut, AnswersLate
  <2>2. \A b \in Activities : server'[b] = "done" => server[b] = "done"
    BY <1>8 DEF Begin, Raises, TimesOut, AnswersLate, TypeOK
  <2>3. \A b \in Activities : Completes(b) => server[b] = "started" /\ server'[b] = "done"
    BY DEF Completes, TypeOK
  <2>. QED
    BY <2>1, <2>2, <2>3, <1>2
<1>9. CASE Post \/ Crash
  <2>1. \A b \in Activities : Completes(b) => server[b] = "started" /\ server'[b] = "done"
    BY DEF Completes, TypeOK
  <2>. QED
    BY <1>9, <1>2, <2>1 DEF Post, Crash
<1>. QED
  BY <1>3, <1>4, <1>5, <1>6, <1>7, <1>8, <1>9 DEF Worker

\* What it does to the executions in the worker.
LEMMA WorkerRunning ==
  ASSUME TypeOK, InFlight, Worker
  PROVE  \A a \in running' : server'[a] \in {"started", "failed"}
<1> USE DEF TypeOK, InFlight
<1>1. ASSUME NEW a \in Activities, Completes(a)
      PROVE  \A b \in running' : server'[b] \in {"started", "failed"}
  BY <1>1 DEF Completes
<1>2. ASSUME NEW a \in Activities, Begin(a) \/ Raises(a) \/ TimesOut(a) \/ AnswersLate(a)
      PROVE  \A b \in running' : server'[b] \in {"started", "failed"}
  BY <1>2 DEF Begin, Raises, TimesOut, AnswersLate
<1>3. CASE Post \/ Crash
  BY <1>3 DEF Post, Crash
<1>4. CASE MedinaReturns \/ LamponneReturns \/ SantosReviews \/ RavennaReturns
             \/ \E a \in Plain : PlainReturns(a)
  <2>1. PICK a \in Activities : Completes(a)
    BY <1>4 DEF MedinaReturns, LamponneReturns, SantosReviews, RavennaReturns,
                PlainReturns, Plain, Activities
  <2>. QED
    BY <2>1, <1>1
<1>. QED
  BY <1>2, <1>3, <1>4 DEF Worker

\* Every step of the server and the worker preserves the invariant.
LEMMA WorkerStep == ASSUME IInv, Worker PROVE IInv'
<1> USE DEF IInv
<1>1. TypeOK'
  <2>1. review' \in Reviews
    BY WorkerResults DEF Reviews, TypeOK
  <2>2. payload' \in Payloads
    <3>1. FinalStatus(review) \in Statuses
      BY DEF FinalStatus, Statuses
    <3>2. \A t \in Statuses, b \in BOOLEAN :
             [output |-> 0, status |-> t, prose |-> b] \in Payloads
      BY DEF Payloads
    <3>3. \A q \in Synthesized(0, review) :
             \E t \in Statuses, b \in BOOLEAN :
                q = [output |-> 0, status |-> t, prose |-> b]
      BY <3>1 DEF Synthesized
    <3>. QED
      BY <3>2, <3>3, WorkerResults DEF TypeOK
  <2>3. received' \subseteq Payloads
    BY WorkerResults DEF TypeOK
  <2>4. outputs' \in Nat /\ halted' \in BOOLEAN
    BY WorkerResults DEF TypeOK
  <2>. QED
    BY <2>1, <2>2, <2>3, <2>4, WorkerShape DEF TypeOK, workflow, loop
<1>2. InFlight'
  <2>1. \A a \in running' : server'[a] \in {"started", "failed"}
    BY WorkerRunning
  <2>2. Open' = Open /\ pc' = pc /\ outcome' = outcome
    BY WorkerShape DEF workflow, Open
  <2>3. Open => \A a \in Activities \ Awaited[pc] : server'[a] \in {"idle", "done"}
    BY WorkerShape DEF InFlight
  <2>. QED
    BY <2>1, <2>2, <2>3 DEF InFlight
<1>3. DeliveredLeavesNothingRunning'
  BY WorkerShape DEF DeliveredLeavesNothingRunning, Delivered, InFlight, workflow
<1>4. \A a \in Activities : (server'[a] = "idle") <=> (server[a] = "idle")
  BY WorkerShape
<1>5. PhaseReached' = PhaseReached
  BY <1>4 DEF PhaseReached, Activities
<1>6. Progress'
  <2>1. pc' = pc /\ Open' = Open
    BY WorkerShape DEF workflow, Open
  <2>2. (Open => PhaseReached = PhaseAt[pc])'
    BY <2>1, <1>5 DEF Progress
  <2>3. halted' => halted \/ pc = "gather"
    <3>1. Completes("medina_investigate") => pc = "gather"
      <4>1. Completes("medina_investigate") =>
              Open /\ "medina_investigate" \in Awaited[pc]
        BY DEF Completes, InFlight, Activities
      <4>. QED
        BY <4>1, AwaitedAt DEF TypeOK, Awaits
    <3>. QED
      BY <3>1, WorkerResults
  <2>4. "deliver_callback" \in running => server["deliver_callback"] # "idle"
    BY DEF InFlight
  <2>5. received' = received \/ server["deliver_callback"] # "idle"
    BY WorkerResults, <2>4
  <2>. QED
    BY <2>1, <2>2, <2>3, <2>5, <1>4 DEF Progress, Downstream, Activities
<1>7. Completes("lamponne_execute") => pc \in {"execute", "correct"}
  <2>1. Completes("lamponne_execute") => Open /\ "lamponne_execute" \in Awaited[pc]
    BY DEF Completes, InFlight, Activities
  <2>. QED
    BY <2>1, AwaitedAt DEF TypeOK, Awaits
<1>8. Completes("santos_qa_review") => pc = "review"
  <2>1. Completes("santos_qa_review") => Open /\ "santos_qa_review" \in Awaited[pc]
    BY DEF Completes, InFlight, Activities
  <2>. QED
    BY <2>1, AwaitedAt DEF TypeOK, Awaits
<1>9. UNCHANGED <<pc, current, attempt, outcome, Attempts>>
  BY WorkerShape DEF workflow, loop, Attempts
<1>10. Delivered' = Delivered /\ (Delivered => ~Open)
  BY <1>9 DEF Delivered, InFlight
<1>11. ~Open => UNCHANGED <<halted, outputs, review, payload>>
  BY WorkerResults DEF Completes
<1>12. outputs' = outputs + 1 => Completes("lamponne_execute")
  BY WorkerResults DEF TypeOK
<1>13. /\ Returned("lamponne_execute") \in {0, 1}
       /\ Completes("lamponne_execute") =>
            Returned("lamponne_execute") = 0 /\ Returned("lamponne_execute")' = 1
       /\ ~Completes("lamponne_execute") /\ pc \in {"execute", "correct"} =>
            Returned("lamponne_execute")' = Returned("lamponne_execute")
  <2>1. "lamponne_execute" \in Activities
    BY DEF Activities
  <2>2. Completes("lamponne_execute") =>
          server["lamponne_execute"] = "started" /\ server'["lamponne_execute"] = "done"
    BY <2>1 DEF Completes, TypeOK
  <2>3. server["lamponne_execute"] = "done" => server'["lamponne_execute"] = "done"
    BY <2>1, WorkerShape
  <2>4. ~Completes("lamponne_execute") /\ server'["lamponne_execute"] = "done"
          => server["lamponne_execute"] = "done"
    BY <2>1, WorkerShape
  <2>. QED
    BY <2>2, <2>3, <2>4 DEF Returned
<1>14. Versions'
  <2> USE DEF Versions
  <2>1. Attempts \in Nat /\ outputs \in Nat /\ current \in Nat /\ attempt \in Nat
    BY AttemptsPositive DEF TypeOK
  <2>2. outputs' = outputs \/ (outputs' = outputs + 1 /\ pc \in {"execute", "correct"})
    BY <1>7, <1>12, WorkerResults
  <2>3. pc \in {"start", "plan", "gather"} => outputs' = 0
    BY <2>2
  <2>4. pc = "execute" => outputs' = Returned("lamponne_execute")'
    BY <1>12, <1>13, WorkerResults
  <2>5. pc \in {"verify", "review"} => outputs' = current + 1
    BY <2>2
  <2>6. pc = "correct" => outputs' = current + 1 + Returned("lamponne_execute")'
    BY <2>1, <1>12, <1>13, WorkerResults
  <2>7. outputs' <= Attempts
    BY <2>1, <2>2, <2>4, <2>6, <1>13, AttemptsPositive
  <2>8. pc = "review" /\ server'["santos_qa_review"] = "done" => review'.of = current
    <3>1. "santos_qa_review" \in Activities
      BY DEF Activities
    <3>2. server'["santos_qa_review"] = "done" =>
            server["santos_qa_review"] = "done" \/ Completes("santos_qa_review")
      BY <3>1, WorkerShape
    <3>. QED
      BY <3>2, WorkerResults
  <2>9. pc \in {"synthesize", "callback", "learn"} => review' = review /\ outputs' = outputs
    BY <1>8, <2>2, WorkerResults
  <2>10. Delivered => review' = review /\ outputs' = outputs /\ halted' = halted
    BY <1>10, <1>11
  <2>. QED
    BY <1>9, <1>10, <2>3, <2>4, <2>5, <2>6, <2>7, <2>8, <2>9, <2>10
<1>15. Verdicts'
  <2>1. server["ravenna_synthesize"] = "idle" <=> server'["ravenna_synthesize"] = "idle"
    BY <1>4 DEF Activities
  <2>2. Completes("ravenna_synthesize") => server["ravenna_synthesize"] # "idle"
    BY DEF Completes
  <2>3. Completes("santos_qa_review") => server["ravenna_synthesize"] = "idle"
    <3>1. Completes("santos_qa_review") => PhaseReached = 4
      BY <1>8, PhaseAtIs DEF Completes, Progress
    <3>. QED
      BY <3>1 DEF PhaseReached
  <2>4. payload'.prose => payload' = payload \/ payload'.status = FinalStatus(review)
    BY WorkerResults DEF Synthesized
  <2>5. payload'.prose => /\ server'["ravenna_synthesize"] # "idle"
                          /\ payload'.status = FinalStatus(review)'
    BY <2>1, <2>2, <2>3, <2>4, WorkerResults DEF Verdicts, FinalStatus
  <2>6. Delivered => review' = review /\ halted' = halted
    BY <1>10, <1>11
  <2>. QED
    BY <1>9, <1>10, <2>5, <2>6 DEF Verdicts, FinalStatus
<1>. QED
  BY <1>1, <1>2, <1>3, <1>6, <1>14, <1>15

(***************************************************************************)
(* A step of the coroutine: at the end of an await nothing is in flight.   *)
(***************************************************************************)
LEMMA Rested ==
  ASSUME IInv, NEW q \in Awaits \ {"closed"}, Resumes(q)
  PROVE  /\ Open /\ pc = q /\ outcome = "none"
         /\ \A a \in Activities : server[a] \in {"idle", "done"}
         /\ running = {}
<1>1. Open /\ pc = q /\ outcome = "none"
  BY DEF Resumes, Open, IInv, InFlight
<1>2. \A a \in Activities : server[a] \in {"idle", "done"}
  BY <1>1 DEF Resumes, IInv, InFlight
<1>. QED
  BY <1>1, <1>2 DEF IInv, InFlight, TypeOK

\* The state after the coroutine has parked at p.
LEMMA Parked ==
  ASSUME IInv, NEW q \in Awaits \ {"closed"}, Resumes(q),
         NEW p \in Awaits \ {"closed"}, ParkAt(p),
         UNCHANGED results
  PROVE  /\ pc' = p /\ Open' /\ ~Delivered'
         /\ server' \in [Activities -> ActivityStates]
         /\ \A a \in Activities :
              server'[a] = IF a \in Awaited[p] THEN "scheduled" ELSE server[a]
         /\ UNCHANGED <<input, received, halted, outputs, review, payload, Attempts>>
         /\ InFlight' /\ DeliveredLeavesNothingRunning'
<1>1. /\ pc' = p /\ Open' /\ ~Delivered'
      /\ UNCHANGED <<input, received, halted, outputs, review, payload, Attempts>>
  BY Rested DEF ParkAt, Open, Delivered, results, endpoint, Attempts
<1>2. \A a \in Activities :
         server'[a] = IF a \in Awaited[p] THEN "scheduled" ELSE server[a]
  BY DEF ParkAt
<1>3. server' \in [Activities -> ActivityStates]
  BY DEF ParkAt, IInv, TypeOK, ActivityStates
<1>4. InFlight'
  BY Rested, <1>1, <1>2 DEF InFlight, ParkAt
<1>. QED
  BY <1>1, <1>2, <1>3, <1>4 DEF DeliveredLeavesNothingRunning

\* The state after it has closed with a status.
LEMMA Closed ==
  ASSUME IInv, Open, NEW s \in Outcomes \ {"none"}, Close(s),
         UNCHANGED <<results, loop>>,
         s # "FAILED" => running = {},
         s # "FAILED" /\ ~halted => s = FinalStatus(review) /\ review.of + 1 = outputs
  PROVE  IInv'
<1> USE DEF IInv
<1>1. /\ pc' = "closed" /\ outcome' = s
      /\ UNCHANGED <<input, server, running, received, cause, halted, outputs,
                     review, payload, current, attempt, Attempts>>
  BY DEF Close, results, loop, endpoint, Attempts
<1>2. TypeOK'
  BY <1>1 DEF TypeOK, Awaits
<1>3. InFlight'
  BY <1>1 DEF InFlight, Open
<1>4. DeliveredLeavesNothingRunning'
  BY <1>1 DEF DeliveredLeavesNothingRunning, Delivered
<1>5. Progress'
  BY <1>1 DEF Progress, Open
<1>6. Versions'
  BY <1>1 DEF Versions, Delivered
<1>7. Verdicts'
  BY <1>1 DEF Verdicts, Delivered, FinalStatus
<1>. QED
  BY <1>2, <1>3, <1>4, <1>5, <1>6, <1>7

(* To park preserves the invariant when the version bookkeeping does. *)
LEMMA ParkedInv ==
  ASSUME IInv, NEW q \in Awaits \ {"closed"}, Resumes(q), ~halted,
         NEW p \in Awaits \ {"start", "blocked", "closed"}, ParkAt(p),
         UNCHANGED results,
         current' \in Nat, attempt' \in Nat,
         Versions',
         PhaseAt[p] \in {PhaseAt[q], PhaseAt[q] + 1},
         p \in {"verify", "correct", "callback"} => PhaseAt[p] = PhaseAt[q]
  PROVE  IInv'
<1> USE DEF IInv
<1>1. TypeOK'
  BY Parked DEF ParkAt, TypeOK
<1>2. PhaseReached = PhaseAt[q]
  BY Rested DEF Progress
<1>3. \A a \in Activities :
         server'[a] = IF a \in Awaited[p] THEN "scheduled" ELSE server[a]
  BY Parked
<1>4. PhaseReached' = PhaseAt[p]
  <2>1. PhaseReached \in {PhaseAt[p], PhaseAt[p] - 1}
    BY <1>2, PhaseAtIs DEF Awaits
  <2>2. CASE p \in {"plan", "gather", "execute"}
    BY <2>1, <2>2, <1>3, AwaitedAt, PhaseAtIs DEF PhaseReached, Activities
  <2>3. CASE p \in {"review", "synthesize", "learn"}
    BY <2>1, <2>3, <1>3, AwaitedAt, PhaseAtIs DEF PhaseReached, Activities
  <2>4. CASE p \in {"verify", "correct", "callback"}
    BY <1>2, <2>4, <1>3, AwaitedAt, PhaseAtIs DEF PhaseReached, Activities
  <2>. QED
    BY <2>2, <2>3, <2>4 DEF Awaits
<1>5. Progress'
  <2>1. p \in {"plan", "gather"} => /\ \A a \in Downstream : server'[a] = "idle"
                                    /\ received' = {}
    <3> SUFFICES ASSUME p \in {"plan", "gather"}
                 PROVE  /\ \A a \in Downstream : server'[a] = "idle"
                        /\ received' = {}
      OBVIOUS
    <3>1. q \in {"start", "plan", "gather"}
      BY PhaseAtIs DEF Awaits
    <3>. QED
      BY <3>1, <1>3, Rested, Parked, AwaitedAt DEF Progress, Downstream, Activities
  <2>2. server'["deliver_callback"] # "idle" => server'["ravenna_synthesize"] # "idle"
    <3>1. p = "callback" => server["ravenna_synthesize"] # "idle"
      BY <1>2, PhaseAtIs DEF PhaseReached
    <3>. QED
      BY <3>1, <1>3, AwaitedAt DEF Progress, Activities, Awaits
  <2>3. received' # {} => server'["deliver_callback"] # "idle"
    BY <1>3, Parked DEF Progress, Activities
  <2>. QED
    BY <1>4, <2>1, <2>2, <2>3, Parked DEF Progress
<1>6. Verdicts'
  <2>1. server["ravenna_synthesize"] # "idle" => server'["ravenna_synthesize"] # "idle"
    BY <1>3 DEF Activities
  <2>. QED
    BY <2>1, Parked DEF Verdicts, FinalStatus
<1>. QED
  BY Parked, <1>1, <1>5, <1>6

\* Every step of the coroutine preserves the invariant.
LEMMA WorkflowStep == ASSUME IInv, Workflow PROVE IInv'
<1> USE DEF IInv
<1>0. /\ attempt \in Nat /\ current \in Nat /\ outputs \in Nat
      /\ attempt + 1 \in Nat /\ Attempts \in Nat \ {0}
  BY AttemptsPositive DEF TypeOK
<1>1. CASE Plan
  <2>1. Resumes("start") /\ ~halted
    BY <1>1, AwaitedAt DEF Plan, Resumes, Progress
  <2>2. UNCHANGED <<results, loop>> /\ ParkAt("plan")
    BY <1>1 DEF Plan
  <2>3. Versions'
    BY <2>1, <2>2, Rested, Parked DEF Versions, loop, Awaits
  <2>. QED
    BY <1>0, <2>1, <2>2, <2>3, ParkedInv, PhaseAtIs DEF loop, Awaits
<1>2. CASE Investigate
  <2>1. Resumes("plan") /\ ~halted
    BY <1>2 DEF Investigate, Resumes, Progress
  <2>2. UNCHANGED <<results, loop>> /\ ParkAt("gather")
    BY <1>2 DEF Investigate
  <2>3. Versions'
    BY <2>1, <2>2, Rested, Parked DEF Versions, loop, Awaits
  <2>. QED
    BY <1>0, <2>1, <2>2, <2>3, ParkedInv, PhaseAtIs DEF loop, Awaits
<1>3. CASE HaltOnInjection
  BY <1>3, Rested, Closed DEF HaltOnInjection, Outcomes, Awaits
<1>4. CASE Execute
  <2>1. Resumes("gather") /\ ~halted
    BY <1>4 DEF Execute
  <2>2. UNCHANGED <<results, loop>> /\ ParkAt("execute")
    BY <1>4 DEF Execute
  <2>3. server'["lamponne_execute"] = "scheduled"
    BY <2>1, <2>2, Parked, AwaitedAt DEF Awaits, Activities
  <2>4. Versions'
    BY <2>1, <2>2, <2>3, Rested, Parked DEF Versions, loop, Awaits, Returned
  <2>. QED
    BY <1>0, <2>1, <2>2, <2>4, ParkedInv, PhaseAtIs DEF loop, Awaits
<1>5. ASSUME NEW p \in {"verify", "review"}, Resumes("execute"), ParkAt(p),
             UNCHANGED <<results, loop>>
      PROVE  IInv'
  <2>1. ~halted /\ pc = "execute"
    BY <1>5 DEF Resumes, Progress
  <2>2. server["lamponne_execute"] = "done"
    BY <1>5, AwaitedAt DEF Resumes
  <2>3. p = "review" => server'["santos_qa_review"] = "scheduled"
    BY <1>5, Parked, AwaitedAt DEF Awaits, Activities
  <2>4. Versions'
    BY <1>0, <1>5, <2>1, <2>2, <2>3, Parked DEF Versions, loop, Awaits, Returned
  <2>. QED
    BY <1>0, <1>5, <2>1, <2>4, ParkedInv, PhaseAtIs DEF loop, Awaits
<1>6. CASE AssessCitations
  BY <1>5, <1>6 DEF AssessCitations
<1>7. CASE BlockOnCitation
  <2>1. Resumes("execute") /\ server["lamponne_execute"] = "done"
    BY <1>7, AwaitedAt DEF BlockOnCitation, Resumes
  <2>2. /\ pc' = "blocked"
        /\ UNCHANGED <<input, server, running, received, outcome, cause, halted,
                       outputs, review, payload, current, attempt, Attempts>>
    BY <1>7 DEF BlockOnCitation, results, loop, endpoint, Attempts
  <2>3. PhaseReached' = PhaseReached /\ PhaseReached = 3
    BY <2>1, <2>2, Rested, PhaseAtIs DEF Progress, PhaseReached, Awaits
  <2>4. TypeOK' /\ InFlight' /\ DeliveredLeavesNothingRunning'
    BY <2>1, <2>2, Rested DEF TypeOK, InFlight, DeliveredLeavesNothingRunning,
                              Open, Delivered, Awaits
  <2>5. Progress'
    BY <2>1, <2>2, <2>3, PhaseAtIs DEF Progress, Resumes, Open
  <2>6. Versions' /\ Verdicts'
    BY <2>1, <2>2, Rested DEF Versions, Verdicts, FinalStatus, Delivered, Awaits
  <2>. QED
    BY <2>4, <2>5, <2>6
<1>8. CASE Review
  <2>1. Resumes("verify") /\ UNCHANGED <<results, loop>> /\ ParkAt("review")
    BY <1>8 DEF Review
  <2>2. ~halted /\ pc = "verify"
    BY <2>1 DEF Resumes, Progress
  <2>3. server'["santos_qa_review"] = "scheduled"
    BY <2>1, Parked, AwaitedAt DEF Awaits, Activities
  <2>4. Versions'
    BY <1>0, <2>1, <2>2, <2>3, Parked DEF Versions, loop, Awaits
  <2>. QED
    BY <1>0, <2>1, <2>2, <2>4, ParkedInv, PhaseAtIs DEF loop, Awaits
<1>9. CASE Approve \/ GiveUp
  <2>1. Resumes("review") /\ UNCHANGED <<results, loop>> /\ ParkAt("synthesize")
    BY <1>9 DEF Approve, GiveUp
  <2>2. ~halted /\ pc = "review" /\ server["santos_qa_review"] = "done"
    BY <2>1, AwaitedAt DEF Resumes, Progress
  <2>3. Versions'
    BY <1>0, <2>1, <2>2, Parked DEF Versions, loop, Awaits
  <2>. QED
    BY <1>0, <2>1, <2>2, <2>3, ParkedInv, PhaseAtIs DEF loop, Awaits
<1>10. CASE Correct
  <2>1. /\ Resumes("review") /\ UNCHANGED <<results, loop>> /\ ParkAt("correct")
        /\ ~(attempt + 1 >= Attempts)
    BY <1>10 DEF Correct, LastAttempt
  <2>2. ~halted /\ pc = "review"
    BY <2>1 DEF Resumes, Progress
  <2>3. server'["lamponne_execute"] = "scheduled"
    BY <2>1, Parked, AwaitedAt DEF Awaits, Activities
  <2>4. Versions'
    BY <1>0, <2>1, <2>2, <2>3, Parked DEF Versions, loop, Awaits, Returned
  <2>. QED
    BY <1>0, <2>1, <2>2, <2>4, ParkedInv, PhaseAtIs DEF loop, Awaits
<1>11. CASE ReviewAgain
  <2>1. /\ Resumes("review") /\ ParkAt("review")
        /\ UNCHANGED <<results, current>>
        /\ attempt' = attempt + 1 /\ ~(attempt + 1 >= Attempts)
    BY <1>11 DEF ReviewAgain, LastAttempt
  <2>2. ~halted /\ pc = "review"
    BY <2>1 DEF Resumes, Progress
  <2>3. server'["santos_qa_review"] = "scheduled"
    BY <2>1, Parked, AwaitedAt DEF Awaits, Activities
  <2>4. Versions'
    BY <1>0, <2>1, <2>2, <2>3, Parked DEF Versions, Awaits
  <2>. QED
    BY <1>0, <2>1, <2>2, <2>4, ParkedInv, PhaseAtIs DEF Awaits
<1>12. CASE ReviewCorrection
  <2>1. /\ Resumes("correct") /\ ParkAt("review")
        /\ UNCHANGED results
        /\ current' = outputs - 1 /\ attempt' = attempt + 1
    BY <1>12 DEF ReviewCorrection
  <2>2. ~halted /\ pc = "correct" /\ server["lamponne_execute"] = "done"
    BY <2>1, AwaitedAt DEF Resumes, Progress
  <2>3. outputs = current + 2 /\ attempt + 1 < Attempts /\ current' = current + 1
    BY <1>0, <2>1, <2>2 DEF Versions, Returned
  <2>4. server'["santos_qa_review"] = "scheduled"
    BY <2>1, Parked, AwaitedAt DEF Awaits, Activities
  <2>5. Versions'
    BY <1>0, <2>1, <2>2, <2>3, <2>4, Parked DEF Versions, Awaits
  <2>. QED
    BY <1>0, <2>1, <2>2, <2>3, <2>5, ParkedInv, PhaseAtIs DEF Awaits
<1>13. ASSUME NEW q \in {"synthesize", "callback", "learn"}, Resumes(q),
              UNCHANGED <<results, loop>>
       PROVE  /\ Close(FinalStatus(review)) => IInv'
              /\ q # "learn" /\ ParkAt("learn") => IInv'
              /\ q = "synthesize" /\ ParkAt("callback") => IInv'
  <2>1. ~halted /\ pc = q
    BY <1>13 DEF Resumes, Progress
  <2>2. review.of + 1 = outputs
    BY <1>13, <2>1 DEF Versions
  <2>3. ASSUME Close(FinalStatus(review)) PROVE IInv'
    BY <1>13, <2>2, <2>3, Rested, Closed DEF FinalStatus, Outcomes, Awaits
  <2>4. ASSUME NEW p \in {"learn", "callback"}, ParkAt(p) PROVE Versions'
    BY <1>0, <1>13, <2>1, <2>2, <2>4, Parked DEF Versions, loop, Awaits
  <2>5. ASSUME q # "learn", ParkAt("learn") PROVE IInv'
    BY <1>0, <1>13, <2>1, <2>4, <2>5, ParkedInv, PhaseAtIs DEF loop, Awaits
  <2>6. ASSUME q = "synthesize", ParkAt("callback") PROVE IInv'
    BY <1>0, <1>13, <2>1, <2>4, <2>6, ParkedInv, PhaseAtIs DEF loop, Awaits
  <2>. QED
    BY <2>3, <2>5, <2>6
<1>14. CASE Deliver \/ AfterCallback \/ AfterLearning
  BY <1>13, <1>14 DEF Deliver, AfterCallback, AfterLearning, LearnOrClose
<1>15. CASE Abort
  <2>1. Open
    BY <1>15, AwaitedAt DEF Abort, Open
  <2>. QED
    BY <1>15, <2>1, Closed DEF Abort, Outcomes
<1>. QED
  BY <1>1, <1>2, <1>3, <1>4, <1>6, <1>7, <1>8, <1>9, <1>10, <1>11, <1>12,
     <1>14, <1>15 DEF Workflow

(***************************************************************************)
(* The invariant, and the safety properties that follow from it.           *)
(***************************************************************************)
THEOREM Invariance == Spec => []IInv
<1>1. Init => IInv
  BY InitInv
<1>2. IInv /\ [Next]_vars => IInv'
  <2>1. ASSUME IInv, UNCHANGED vars PROVE IInv'
    <3>1. /\ UNCHANGED <<input, pc, server, running, halted, outputs, current,
                         attempt, review, payload, received, outcome, cause>>
          /\ Open' = Open /\ Delivered' = Delivered /\ Attempts' = Attempts
          /\ PhaseReached' = PhaseReached /\ FinalStatus(review)' = FinalStatus(review)
          /\ Returned("lamponne_execute")' = Returned("lamponne_execute")
      BY <2>1 DEF vars, Open, Delivered, Attempts, PhaseReached, FinalStatus, Returned
    <3>. QED
      BY <2>1, <3>1 DEF IInv, TypeOK, InFlight, DeliveredLeavesNothingRunning,
                        Progress, Versions, Verdicts
  <2>. QED
    BY <2>1, WorkflowStep, WorkerStep DEF Next
<1>. QED
  BY <1>1, <1>2, PTL DEF Spec

\* The types of the state hold at all times.
THEOREM TypeCorrect == Spec => []TypeOK
<1>1. IInv => TypeOK
  BY DEF IInv
<1>. QED
  BY <1>1, Invariance, PTL

\* However many corrections are allowed and whatever fails, no result is
\* assembled or handed out from a review that missed the last correction.
THEOREM CorrectionsReviewed == Spec => []EveryCorrectionIsReviewed
<1>1. IInv => EveryCorrectionIsReviewed
  BY DEF IInv, Versions, EveryCorrectionIsReviewed
<1>. QED
  BY <1>1, Invariance, PTL

\* The correction loop keeps within its budget.
THEOREM BudgetKept == Spec => []WithinBudget
<1>1. IInv => WithinBudget
  BY DEF IInv, Versions, WithinBudget
<1>. QED
  BY <1>1, Invariance, PTL

\* A document found suspicious reaches no later phase.
THEOREM Quarantine == Spec => []HaltQuarantines
<1>1. IInv => HaltQuarantines
  BY DEF IInv, Progress, HaltQuarantines
<1>. QED
  BY <1>1, Invariance, PTL

\* A delivered operativo has nothing left running: whatever timed out or
\* crashed on the way, no execution outlives the result handed out.
THEOREM DeliveredAtRest == Spec => []DeliveredLeavesNothingRunning
<1>1. IInv => DeliveredLeavesNothingRunning
  BY DEF IInv
<1>. QED
  BY <1>1, Invariance, PTL

\* No activity is ever queued while an earlier execution of it still runs.
THEOREM NoStrayExecution == Spec => []NoOverlap
<1>1. IInv => NoOverlap
  BY DEF IInv, InFlight, NoOverlap
<1>. QED
  BY <1>1, Invariance, PTL

\* The status of a prose result is the one the workflow closes with.
THEOREM ProseAgrees == Spec => []ProseResultAgrees
<1>1. IInv => ProseResultAgrees
  <2> SUFFICES ASSUME IInv, Delivered, payload.prose
               PROVE  payload.status = outcome
    BY DEF ProseResultAgrees
  <2>1. ~halted
    BY DEF IInv, Verdicts, Progress, Downstream
  <2>. QED
    BY <2>1 DEF IInv, Verdicts
<1>. QED
  BY <1>1, Invariance, PTL

(***************************************************************************)
(* Refinement: every step of the workflow, the server, the worker and the  *)
(* endpoint is a step of Operativo or leaves the operativo as it is.       *)
(***************************************************************************)
USE DEF O!Phase, O!INTAKE, O!PLAN, O!INVESTIGATE, O!EXECUTE, O!QA,
        O!SYNTHESIZE, O!POST_JOB

\* To park is to begin, to advance a phase, or a stutter of Operativo.
LEMMA ParkRefines ==
  ASSUME IInv, IInv', NEW q \in Awaits \ {"closed"}, Resumes(q),
         NEW p \in Awaits \ {"start", "closed"}, ParkAt(p), UNCHANGED results,
         PhaseAt[p] \in {PhaseAt[q], PhaseAt[q] + 1},
         q = "start" => p = "plan"
  PROVE  [O!Next]_(O!vars)
<1>1. PhaseReached = PhaseAt[q] /\ PhaseReached' = PhaseAt[p]
  BY Rested, Parked DEF IInv, Progress
<1>2. (received # {})' = (received # {})
  BY Parked
<1>3. StatusShown' = "RUNNING" /\ StatusShown = IF q = "start" THEN "PENDING" ELSE "RUNNING"
  BY Rested, Parked DEF StatusShown, Awaits
<1>4. CASE q = "start"
  BY <1>1, <1>2, <1>3, <1>4, PhaseAtIs DEF O!Next, O!Begin
<1>5. CASE q # "start" /\ PhaseAt[p] = PhaseAt[q]
  BY <1>1, <1>2, <1>3, <1>5 DEF O!vars
<1>6. CASE q # "start" /\ PhaseAt[p] = PhaseAt[q] + 1
  BY <1>1, <1>2, <1>3, <1>6, PhaseAtIs DEF O!Next, O!Advance, Awaits
<1>. QED
  BY <1>4, <1>5, <1>6

\* To close is a terminal step of Operativo.
LEMMA CloseRefines ==
  ASSUME IInv, NEW s \in Outcomes \ {"none"}, Close(s), Open, pc # "start",
         \/ s = "FAILED"
         \/ s = "NEEDS_REVIEW" /\ PhaseReached = 2
         \/ s # "FAILED" /\ PhaseReached \in {5, 6}
  PROVE  O!Next
<1>1. PhaseReached' = PhaseReached /\ (received # {})' = (received # {})
  BY DEF Close, endpoint, PhaseReached
<1>2. StatusShown = "RUNNING" /\ StatusShown' = s
  BY DEF Close, StatusShown, Open
<1>. QED
  BY <1>1, <1>2 DEF O!Next, O!Fail, O!Halt, O!Deliver, Outcomes

\* Every step of the coroutine is a step of Operativo or a stutter.
LEMMA WorkflowRefines == ASSUME IInv, IInv', Workflow PROVE [O!Next]_(O!vars)
<1> USE PhaseAtIs DEF Awaits
<1>1. CASE Plan
  <2>1. Resumes("start")
    BY <1>1, AwaitedAt DEF Plan, Resumes
  <2>. QED
    BY <1>1, <2>1, ParkRefines DEF Plan
<1>2. CASE Investigate \/ Execute \/ Review \/ Approve \/ GiveUp
  BY <1>2, ParkRefines DEF Investigate, Execute, Review, Approve, GiveUp
<1>3. CASE AssessCitations \/ Correct \/ ReviewAgain \/ ReviewCorrection
  BY <1>3, ParkRefines DEF AssessCitations, Correct, ReviewAgain, ReviewCorrection
<1>4. CASE HaltOnInjection
  <2>1. Resumes("gather") /\ Close("NEEDS_REVIEW")
    BY <1>4 DEF HaltOnInjection
  <2>2. Open /\ pc = "gather" /\ PhaseReached = 2
    BY <2>1, Rested DEF IInv, Progress
  <2>. QED
    BY <2>1, <2>2, CloseRefines DEF Outcomes
<1>5. CASE BlockOnCitation
  <2>1. pc = "execute" /\ pc' = "blocked" /\ UNCHANGED <<server, received>>
    BY <1>5 DEF BlockOnCitation, Resumes, endpoint
  <2>2. PhaseReached' = PhaseReached /\ StatusShown' = StatusShown
    BY <2>1 DEF PhaseReached, StatusShown
  <2>. QED
    BY <2>1, <2>2 DEF O!vars
<1>6. ASSUME NEW q \in {"synthesize", "callback", "learn"}, Resumes(q),
             Close(FinalStatus(review))
      PROVE  [O!Next]_(O!vars)
  <2>1. Open /\ pc = q /\ PhaseReached \in {5, 6}
    BY <1>6, Rested DEF IInv, Progress
  <2>. QED
    BY <1>6, <2>1, CloseRefines DEF FinalStatus, Outcomes
<1>7. ASSUME NEW q \in {"synthesize", "callback"}, NEW p \in {"callback", "learn"},
             q = p => FALSE, Resumes(q), ParkAt(p), UNCHANGED results
      PROVE  [O!Next]_(O!vars)
  BY <1>7, ParkRefines
<1>8. CASE Deliver \/ AfterCallback \/ AfterLearning
  BY <1>6, <1>7, <1>8 DEF Deliver, AfterCallback, AfterLearning, LearnOrClose
<1>9. CASE Abort
  <2>1. Open /\ pc # "start"
    BY <1>9, AwaitedAt DEF Abort, Open
  <2>. QED
    BY <1>9, <2>1, CloseRefines DEF Abort, Outcomes
<1>. QED
  BY <1>1, <1>2, <1>3, <1>4, <1>5, <1>8, <1>9 DEF Workflow

\* Every step of the server and the worker is a Notify or a stutter.
LEMMA WorkerRefines == ASSUME IInv, IInv', Worker PROVE [O!Next]_(O!vars)
<1>1. \A a \in Activities : (server'[a] = "idle") <=> (server[a] = "idle")
  BY WorkerShape DEF IInv
<1>2. PhaseReached' = PhaseReached
  BY <1>1 DEF PhaseReached, Activities
<1>3. StatusShown' = StatusShown
  BY WorkerShape DEF StatusShown, workflow, IInv
<1>4. CASE received' = received
  BY <1>2, <1>3, <1>4 DEF O!vars
<1>5. CASE received' # received
  <2>1. received' # {} /\ server["deliver_callback"] # "idle"
    BY <1>5, WorkerResults DEF IInv, InFlight
  <2>2. PhaseReached \in {5, 6}
    BY <2>1 DEF IInv, Progress, PhaseReached
  <2>. QED
    BY <1>2, <1>3, <2>1, <2>2 DEF O!Next, O!Notify
<1>. QED
  BY <1>4, <1>5

\* DceWorkflow implements Operativo: the phases are walked in order, there is
\* one terminal status and it is final, and nothing is posted too early, for
\* every number of attempts and every set of faults.
THEOREM Refinement == Spec => ImplementsOperativo
<1>1. Init => O!Init
  BY DEF Init, O!Init, PhaseReached, StatusShown, Activities
<1>2. IInv /\ IInv' /\ [Next]_vars => [O!Next]_(O!vars)
  <2>1. ASSUME UNCHANGED vars PROVE UNCHANGED O!vars
    BY <2>1 DEF vars, O!vars, PhaseReached, StatusShown
  <2>. QED
    BY <2>1, WorkflowRefines, WorkerRefines DEF Next
<1>. QED
  BY <1>1, <1>2, Invariance, PTL DEF Spec, ImplementsOperativo, O!Spec
=============================================================================
