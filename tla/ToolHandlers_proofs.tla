-------------------------- MODULE ToolHandlers_proofs --------------------------
(***************************************************************************)
(* Proofs about ToolHandlers, for every budget, pause, latency, limit and  *)
(* number of calls: its types, the time a call may take, the honesty of    *)
(* the answers, and what the diagnostics may conclude.                     *)
(***************************************************************************)
EXTENDS ToolHandlers, TLAPS

(***************************************************************************)
(* Division.                                                               *)
(***************************************************************************)

\* A quotient and a rest below the divisor are the quotient and the rest.
LEMMA Quotient ==
  ASSUME NEW d \in Nat \ {0}, NEW q \in Nat, NEW n \in Nat, n = d * q
  PROVE  n \div d = q /\ n % d = 0
<1>1. PICK k \in Nat, r \in 0 .. d - 1 : k = n \div d /\ r = n % d /\ d * q = d * k + r
  BY SMT
<1>2. k = q
  <2>1. ASSUME k + 1 <= q PROVE FALSE
    <3>1. q - (k + 1) \in Nat
      BY <2>1
    <3>2. PICK j \in Nat : q = k + 1 + j
      BY <3>1
    <3>3. d * q = d * k + d + d * j /\ d * j \in Nat /\ d * k \in Nat
      BY <3>2
    <3>. QED
      BY <3>3, <1>1
  <2>2. ASSUME q + 1 <= k PROVE FALSE
    <3>1. k - (q + 1) \in Nat
      BY <2>2
    <3>2. PICK j \in Nat : k = q + 1 + j
      BY <3>1
    <3>3. d * k = d * q + d + d * j /\ d * j \in Nat /\ d * q \in Nat
      BY <3>2
    <3>. QED
      BY <3>3, <1>1
  <2>. QED
    BY <2>1, <2>2
<1>. QED
  BY <1>1, <1>2

\* A multiple is the divisor times its quotient.
LEMMA Multiple ==
  ASSUME NEW d \in Nat \ {0}, NEW n \in Nat, n % d = 0
  PROVE  n \div d \in Nat /\ n = d * (n \div d)
BY SMT

\* The next multiple has the next quotient, and does not skip one.
LEMMA NextMultiple ==
  ASSUME NEW d \in Nat \ {0}, NEW n \in Nat, n % d = 0
  PROVE  /\ n \div d \in Nat
         /\ (n + d) \div d = n \div d + 1
         /\ (n + d) % d = 0
         /\ \A m \in Nat : m % d = 0 /\ n < m => n + d <= m /\ n \div d + 1 <= m \div d
<1>1. PICK q \in Nat : q = n \div d /\ n = d * q
  BY Multiple
<1>2. n + d = d * (q + 1) /\ q + 1 \in Nat /\ n + d \in Nat
  BY <1>1
<1>3. (n + d) \div d = q + 1 /\ (n + d) % d = 0
  BY <1>2, Quotient
<1>4. ASSUME NEW m \in Nat, m % d = 0, n < m
      PROVE  n + d <= m /\ q + 1 <= m \div d
  <2>1. PICK p \in Nat : p = m \div d /\ m = d * p
    BY <1>4, Multiple
  <2>2. q < p
    <3>1. ASSUME p <= q PROVE FALSE
      <4>1. q - p \in Nat
        BY <3>1
      <4>2. PICK j \in Nat : q = p + j
        BY <4>1
      <4>3. d * q = d * p + d * j /\ d * j \in Nat
        BY <4>2
      <4>. QED
        BY <1>1, <1>4, <2>1, <4>3
    <3>. QED
      BY <3>1
  <2>3. p - (q + 1) \in Nat
    BY <2>2
  <2>4. PICK j \in Nat : p = q + 1 + j
    BY <2>3
  <2>5. d * p = d * q + d + d * j /\ d * j \in Nat
    BY <2>4
  <2>. QED
    BY <1>1, <2>1, <2>2, <2>5
<1>. QED
  BY <1>1, <1>3, <1>4

(***************************************************************************)
(* The pauses of a call.                                                   *)
(***************************************************************************)

\* The budget is on the grid, and so is the beginning.
LEMMA Ends ==
  /\ OnGrid(0) /\ PollsAt(0) = 0
  /\ Polls \in Nat
<1>1. 0 = Fast * 0 /\ 0 = Slow * 0
  BY HandlerAssumption
<1>2. 0 \div Fast = 0 /\ 0 % Fast = 0
  BY <1>1, Quotient, HandlerAssumption
<1>3. FastUntil \div Fast \in Nat
  BY Multiple, HandlerAssumption
<1>4. Budget - FastUntil \in Nat /\ (Budget - FastUntil) \div Slow \in Nat
  BY Multiple, HandlerAssumption
<1>5. Budget = FastUntil => Polls = FastUntil \div Fast
  BY HandlerAssumption DEF Polls, PollsAt
<1>6. Budget # FastUntil => Polls = FastUntil \div Fast + (Budget - FastUntil) \div Slow
  BY HandlerAssumption DEF Polls, PollsAt
<1>. QED
  BY <1>2, <1>3, <1>4, <1>5, <1>6, HandlerAssumption DEF OnGrid, PollsAt

\* A pause leads from one point of the grid to the next: one poll more, and
\* none beyond the budget.
LEMMA Step ==
  ASSUME NEW e \in Nat, OnGrid(e), e < Budget,
         NEW p \in Nat, p = (IF e < FastUntil THEN Fast ELSE Slow)
  PROVE  /\ OnGrid(e + p)
         /\ e + p <= Budget
         /\ PollsAt(e) \in Nat
         /\ PollsAt(e + p) = PollsAt(e) + 1
         /\ PollsAt(e) + 1 <= Polls
<1> USE HandlerAssumption
<1>1. /\ FastUntil \div Fast \in Nat
      /\ Budget - FastUntil \in Nat /\ (Budget - FastUntil) \div Slow \in Nat
      /\ (Budget - FastUntil) % Slow = 0
  BY Multiple
<1>2. Polls = (IF Budget = FastUntil THEN FastUntil \div Fast
               ELSE FastUntil \div Fast + (Budget - FastUntil) \div Slow)
  BY DEF Polls, PollsAt
<1>3. CASE e < FastUntil
  <2>1. e % Fast = 0 /\ FastUntil % Fast = 0
    BY <1>3 DEF OnGrid
  <2>2. /\ e \div Fast \in Nat
        /\ (e + Fast) \div Fast = e \div Fast + 1
        /\ (e + Fast) % Fast = 0
        /\ e + Fast <= FastUntil /\ e \div Fast + 1 <= FastUntil \div Fast
    BY <1>3, <2>1, NextMultiple
  <2>3. p = Fast /\ PollsAt(e) = e \div Fast /\ PollsAt(e + p) = (e + Fast) \div Fast
    BY <1>3, <2>2 DEF PollsAt
  <2>. QED
    BY <1>1, <1>2, <2>2, <2>3 DEF OnGrid
<1>4. CASE e >= FastUntil
  <2> DEFINE n == e - FastUntil
             b == Budget - FastUntil
  <2>1. n \in Nat /\ b \in Nat /\ n < b /\ b % Slow = 0 /\ p = Slow
    BY <1>1, <1>4
  <2>2. n % Slow = 0 /\ PollsAt(e) = FastUntil \div Fast + n \div Slow
    <3>1. CASE e = FastUntil
      <4>1. n = 0 /\ 0 = Slow * 0
        BY <3>1
      <4>2. n \div Slow = 0 /\ n % Slow = 0
        BY <4>1, Quotient
      <4>. QED
        BY <1>1, <3>1, <4>2 DEF PollsAt
    <3>2. CASE e > FastUntil
      BY <3>2 DEF OnGrid, PollsAt
    <3>. QED
      BY <1>4, <3>1, <3>2
  <2> HIDE DEF b
  <2>3. /\ n \div Slow \in Nat
        /\ (n + Slow) \div Slow = n \div Slow + 1
        /\ (n + Slow) % Slow = 0
        /\ n + Slow <= b /\ n \div Slow + 1 <= b \div Slow
    BY <2>1, <2>2, NextMultiple
  <2>4. /\ e + p > FastUntil
        /\ (e + p) - FastUntil = n + Slow
        /\ b = Budget - FastUntil
    BY <1>4, <2>1 DEF b
  <2>5. PollsAt(e + p) = FastUntil \div Fast + (n + Slow) \div Slow
    BY <2>4 DEF PollsAt
  <2>6. OnGrid(e + p)
    BY <2>3, <2>4 DEF OnGrid
  <2>. QED
    BY <1>1, <1>2, <1>4, <2>1, <2>2, <2>3, <2>4, <2>5, <2>6
<1>. QED
  BY <1>3, <1>4

\* The requests of a call: one more takes Latency more.
LEMMA Requests ==
  /\ \A n \in Nat : n * Latency \in Nat /\ (n + 1) * Latency = n * Latency + Latency
  /\ 0 * Latency = 0
BY HandlerAssumption

\* The longest call.
LEMMA LongestIs ==
  /\ Longest \in Nat
  /\ Longest = Budget + Polls * Latency + Latency + Latency
<1>1. Polls \in Nat /\ (Polls + 1) + 1 = Polls + 2 /\ Polls + 1 \in Nat
  BY Ends
<1>2. (Polls + 2) * Latency = Polls * Latency + Latency + Latency /\ Polls * Latency \in Nat
  BY <1>1, Requests, HandlerAssumption
<1>. QED
  BY <1>2, HandlerAssumption DEF Longest

\* One call more has one call's time more.
LEMMA NextCall ==
  ASSUME NEW c \in Nat
  PROVE  c * Longest \in Nat /\ (c + 1) * Longest = c * Longest + Longest /\ 0 * Longest = 0
<1>1. \A l \in Nat : c * l \in Nat /\ (c + 1) * l = c * l + l /\ 0 * l = 0
  OBVIOUS
<1>. QED
  BY <1>1, LongestIs
(***************************************************************************)
(* The invariant.                                                          *)
(***************************************************************************)

\* What the call under way may still take, place by place.
LEMMA LeftIs ==
  ASSUME IInv
  PROVE  /\ Left \in Nat
         /\ pc = "idle" => Left = 0
         /\ pc \in {"upload", "request"} => Left = Longest
         /\ pc \in {"fetch", "status"} =>
              Left = Budget - elapsed + (Polls - PollsAt(elapsed)) * Latency + Latency
         /\ pc = "pause" => Left = Budget - elapsed + (Polls - PollsAt(elapsed)) * Latency
         /\ pc = "final" => Left = Latency
         /\ pc # "idle" => Latency <= Left \/ pc = "pause"
<1>1. elapsed \in Nat /\ elapsed <= Budget /\ OnGrid(elapsed)
      /\ (pc \in {"fetch", "status", "pause"} => elapsed < Budget)
  BY HandlerAssumption DEF IInv, TypeOK, Position
<1>2. pc \in {"idle", "upload", "request", "fetch", "status", "pause", "final"}
  BY DEF IInv, TypeOK
<1>3. Latency \in Nat /\ Longest \in Nat /\ Latency <= Longest
  <2>1. Polls * Latency \in Nat
    BY Ends, Requests
  <2>. QED
    BY <2>1, LongestIs, HandlerAssumption
<1>4. CASE pc \in {"fetch", "status", "pause"}
  <2>1. Polls - PollsAt(elapsed) \in Nat /\ Budget - elapsed \in Nat
    <3>1. PollsAt(elapsed) \in Nat /\ PollsAt(elapsed) + 1 <= Polls
      BY <1>1, <1>4, HandlerAssumption, Step
    <3>. QED
      BY <1>1, <1>4, <3>1, Ends, HandlerAssumption
  <2>2. /\ (Polls - PollsAt(elapsed)) * Latency \in Nat
        /\ (Polls - PollsAt(elapsed) + 1) * Latency
             = (Polls - PollsAt(elapsed)) * Latency + Latency
    BY <2>1, Requests
  <2>3. pc = "pause" => Left = Budget - elapsed + (Polls - PollsAt(elapsed)) * Latency
    BY DEF Left
  <2>4. pc \in {"fetch", "status"} =>
          Left = Budget - elapsed + (Polls - PollsAt(elapsed) + 1) * Latency
    BY DEF Left
  <2>. QED
    BY <1>3, <1>4, <2>1, <2>2, <2>3, <2>4
<1>5. CASE pc \in {"idle", "upload", "request", "final"}
  BY <1>3, <1>5 DEF Left
<1>. QED
  BY <1>2, <1>4, <1>5

\* A job that does not exist yet, and one that begins.
LEMMA NewJobs ==
  /\ NoJob \in JobStates /\ NoJob.status = "none" /\ ~NoJob.error
  /\ \A s \in {"running", "other"} :
       /\ Job(s, FALSE) \in JobStates /\ Job(s, FALSE) # NoJob
       /\ Job(s, FALSE).status = s
BY DEF NoJob, Job, JobStates

\* Every table of handlers is part of all of them.
LEMMA TablesAreParts == \A d \in {"dce", "idp"} : Tools[d] \subseteq DOMAIN AllTools
BY DEF Tools, AllTools, Join

\* The initial states satisfy the invariant.
LEMMA InitIInv == Init => IInv
<1> SUFFICES ASSUME Init PROVE IInv
  OBVIOUS
<1> USE DEF Init
<1>1. TypeOK
  <2>1. limit \in Limits /\ spent \in Nat /\ call \in 0 .. MaxCalls /\ elapsed \in 0 .. Budget
        /\ file \in 0 .. MaxCalls
    BY HandlerAssumption
  <2>2. answers \in [Calls -> Answers]
    BY DEF Answers, NoAnswer
  <2>3. shown \in [ended : BOOLEAN, job : 0 .. MaxCalls]
    BY HandlerAssumption
  <2>. QED
    BY <2>1, <2>2, <2>3, NewJobs DEF TypeOK
<1>2. Position
  BY Ends DEF Position, Polling
<1>3. Asked
  BY DEF Asked, Polling
<1>4. AnswersAreHonest
  BY DEF AnswersAreHonest, CompletedIsEarned, NoAnswer
<1>5. Recorded
  BY DEF Recorded, Polling, NoAnswer
<1>6. InTime
  <2>1. Left = 0
    BY DEF Left
  <2>2. 0 * Longest = 0
    BY NextCall
  <2>. QED
    BY <2>1, <2>2 DEF InTime
<1>. QED
  BY <1>1, <1>2, <1>3, <1>4, <1>5, <1>6 DEF IInv

\* A new call: nothing is known of it yet.
LEMMA CallIInv == ASSUME IInv, Call PROVE IInv'
<1> USE DEF Call, given, backend, record, diagnostics
<1>1. call \in Nat /\ call + 1 \in Calls /\ call' = call + 1 /\ pc = "idle"
      /\ activity \in {"running", "expired"}
  BY HandlerAssumption DEF IInv, TypeOK, Calls
<1>2. domain \in {"dce", "idp"} /\ pc' = (IF domain = "dce" THEN "upload" ELSE "request")
  BY DEF IInv, TypeOK
<1>3. tool' \in {"none"} \cup DOMAIN AllTools
  BY <1>2, TablesAreParts
<1>4. TypeOK'
  <2>1. call' \in 0 .. MaxCalls /\ elapsed' \in 0 .. Budget
    BY <1>1, HandlerAssumption DEF Calls
  <2>2. extraction' \in BOOLEAN /\ seen' \in JobStates
    BY NewJobs
  <2>. QED
    BY <1>2, <1>3, <2>1, <2>2 DEF IInv, TypeOK
<1>5. Position'
  BY <1>1, <1>2, Ends, NewJobs DEF IInv, Position, Polling
<1>6. \A c \in Calls : c >= call' => answers[c] = NoAnswer /\ jobs[c] = NoJob
  BY <1>1 DEF IInv, Asked, Calls
<1>7. Asked'
  BY <1>1, <1>2, <1>6 DEF Asked, Polling, Calls
<1>8. AnswersAreHonest'
  <2>1. CompletedIsEarned'
    BY <1>2 DEF CompletedIsEarned
  <2>2. answers[call'] = NoAnswer
    BY <1>1, <1>6
  <2>. QED
    BY <2>1, <2>2 DEF IInv, AnswersAreHonest, NoAnswer
<1>9. Recorded'
  BY <1>1, <1>2, <1>6 DEF IInv, Recorded, Polling, NoAnswer
<1>10. InTime'
  <2>1. Left' = Longest
    BY <1>2 DEF Left
  <2>2. call * Longest \in Nat /\ call' * Longest = call * Longest + Longest
    BY <1>1, NextCall
  <2>3. spent \in Nat /\ limit \in Nat /\ spent <= call * Longest
    BY <1>1, LeftIs, HandlerAssumption DEF IInv, TypeOK, InTime
  <2>. QED
    BY <2>1, <2>2, <2>3, LongestIs DEF IInv, InTime
<1>. QED
  BY <1>4, <1>5, <1>7, <1>8, <1>9, <1>10 DEF IInv

\* The handler answers, whatever it says, within its time.
LEMMA AnswerIInv ==
  ASSUME IInv, pc # "idle", NEW a \in Answers, Answer(a),
         UNCHANGED <<elapsed, seen, ready, file, unwritten>>,
         extraction' \in BOOLEAN,
         NEW s \in JobStates, jobs' = [jobs EXCEPT ![call] = s],
         NEW t \in Nat, spent' = spent + t, t <= Left,
         a.kind \in {"completed", "partial"} => pc \in Polling,
         a.kind = "partial" => a.found /\ s.error,
         a.found /\ domain = "dce" => ready[call],
         a.kind = "value" /\ AllTools[tool].changes => s # NoJob,
         a.kind = "rejected" => s = NoJob,
         a.kind = "completed" =>
           /\ ~seen.error
           /\ seen.status = "other" \/ (seen.status = "running" /\ elapsed = Budget)
  PROVE  IInv'
<1> USE DEF Answer, given, diagnostics
<1>1. call \in Calls /\ call > 0 /\ activity # "completed"
  BY HandlerAssumption DEF IInv, TypeOK, Position, Calls
<1>2. /\ answers \in [Calls -> Answers] /\ answers' = [answers EXCEPT ![call] = a]
      /\ jobs \in [Calls -> JobStates]
      /\ pc' = "idle"
      /\ UNCHANGED <<domain, limit, activity, call, tool, reading, shown>>
  BY DEF IInv, TypeOK
<1>3. /\ answers'[call] = a /\ jobs'[call] = s
      /\ \A c \in Calls \ {call} : answers'[c] = answers[c] /\ jobs'[c] = jobs[c]
  BY <1>1, <1>2
<1>4. TypeOK'
  <2>1. spent' \in Nat
    BY DEF IInv, TypeOK
  <2>2. answers' \in [Calls -> Answers] /\ jobs' \in [Calls -> JobStates]
    BY <1>2
  <2>. QED
    BY <1>2, <2>1, <2>2 DEF IInv, TypeOK
<1>5. Position'
  BY <1>1, <1>2 DEF IInv, Position, Polling
<1>6. Asked'
  BY <1>1, <1>2, <1>3 DEF IInv, Asked, Polling, Calls
<1>7. AnswersAreHonest'
  <2>1. CompletedIsEarned'
    BY <1>2, <1>3 DEF CompletedIsEarned
  <2>2. ASSUME NEW c \in Calls
        PROVE  /\ answers'[c].kind = "partial" => answers'[c].found /\ jobs'[c].error
               /\ answers'[c].found /\ domain' = "dce" => ready'[c]
               /\ answers'[c].kind = "value" /\ c = call' /\ AllTools[tool'].changes =>
                    jobs'[c] # NoJob
               /\ answers'[c].kind = "rejected" => jobs'[c] = NoJob
    <3>1. CASE c = call
      BY <1>2, <1>3, <3>1
    <3>2. CASE c # call
      BY <1>2, <1>3, <3>2 DEF IInv, AnswersAreHonest
    <3>. QED
      BY <3>1, <3>2
  <2>. QED
    BY <2>1, <2>2 DEF AnswersAreHonest
<1>8. Recorded'
  <2>1. ASSUME ~unwritten, NEW c \in Calls, answers'[c].kind \in {"completed", "partial"}
        PROVE  c <= file
    <3>1. CASE c = call
      BY <1>1, <1>3, <2>1, <3>1 DEF IInv, Recorded
    <3>2. CASE c # call
      BY <1>3, <2>1, <3>2 DEF IInv, Recorded
    <3>. QED
      BY <3>1, <3>2
  <2>. QED
    BY <1>1, <1>2, <2>1 DEF IInv, Recorded, Polling
<1>9. InTime'
  <2>1. Left' = 0
    BY <1>2 DEF Left
  <2>2. call * Longest \in Nat /\ spent \in Nat
    BY <1>1, NextCall DEF IInv, TypeOK, Calls
  <2>3. spent + t <= call * Longest
    BY <2>2, LeftIs DEF IInv, InTime
  <2>. QED
    BY <1>2, <2>1, <2>2, <2>3 DEF IInv, InTime
<1>. QED
  BY <1>4, <1>5, <1>6, <1>7, <1>8, <1>9 DEF IInv
\* A request takes no time or the latency.
LEMMA TakesIs == ASSUME Takes PROVE \E t \in Nat : spent' = spent + t /\ t <= Latency
BY HandlerAssumption DEF Takes

\* What was fetched can be fetched, if it had been so before.
LEMMA FetchedIs ==
  ASSUME extraction \in BOOLEAN, extraction => ready[call], Fetched
  PROVE  extraction' \in BOOLEAN /\ (extraction' => ready[call])
<1>1. CASE extraction' = TRUE /\ (extraction \/ ready[call])
  BY <1>1
<1>2. CASE extraction' = extraction
  <2>1. CASE extraction = TRUE
    BY <1>2, <2>1
  <2>2. CASE extraction = FALSE
    BY <1>2, <2>2
  <2>. QED
    BY <2>1, <2>2
<1>. QED
  BY <1>1, <1>2 DEF Fetched

\* The handlers that answer do so honestly and in time.
LEMMA AnswersIInv ==
  ASSUME IInv, \/ Reject \/ UploadFails \/ FallsBack \/ PollFails \/ Conclude
               \/ Replied \/ RequestFails
  PROVE  IInv'
<1> DEFINE Kind(k) == Extraction(k, FALSE)
<1>1. /\ jobs \in [Calls -> JobStates] /\ extraction \in BOOLEAN
      /\ spent \in Nat /\ Latency \in Nat /\ 0 <= Left
  BY LeftIs, HandlerAssumption DEF IInv, TypeOK
<1>2. pc # "idle" => call \in Calls
  BY HandlerAssumption DEF IInv, TypeOK, Position, Calls
<1>3. \A k \in {"local", "error", "rejected"} :
        Kind(k) \in Answers /\ Kind(k).kind = k /\ ~Kind(k).found
  BY DEF Extraction, Answers
<1>4. pc # "idle" => jobs[call] \in JobStates /\ jobs = [jobs EXCEPT ![call] = jobs[call]]
  BY <1>1, <1>2
<1>5. CASE Reject
  <2>1. /\ pc \in {"upload", "request"} /\ Answer(Kind("rejected"))
        /\ UNCHANGED <<spent, elapsed, extraction, seen, ready, file, unwritten, jobs>>
    BY <1>5 DEF Reject, backend, record
  <2>2. jobs[call] = NoJob
    BY <2>1 DEF IInv, Asked
  <2>3. spent' = spent + 0 /\ jobs' = [jobs EXCEPT ![call] = NoJob]
    BY <1>1, <1>4, <2>1, <2>2
  <2>. QED
    BY <1>1, <1>3, <2>1, <2>3, NewJobs, AnswerIInv
<1>6. CASE UploadFails
  <2>1. PICK s \in JobStates : jobs' = [jobs EXCEPT ![call] = s]
    <3>1. pc = "upload"
      BY <1>6 DEF UploadFails
    <3>. QED
      BY <1>4, <1>6, <3>1, NewJobs DEF UploadFails, NewJob
  <2>2. /\ pc = "upload" /\ Answer(Kind("error"))
        /\ UNCHANGED <<elapsed, extraction, seen, ready, file, unwritten>>
    BY <1>6 DEF UploadFails, record
  <2>3. PICK t \in Nat : spent' = spent + t /\ t <= Latency
    BY <1>6, TakesIs DEF UploadFails
  <2>4. t <= Left
    BY <1>1, <2>2, <2>3, LeftIs
  <2>. QED
    BY <1>1, <1>3, <2>1, <2>2, <2>3, <2>4, AnswerIInv
<1>7. CASE FallsBack \/ PollFails
  <2>1. PICK k \in {"local", "error"} : Answer(Kind(k))
    BY <1>7 DEF FallsBack, PollFails
  <2>2. /\ pc \in {"upload", "status"}
        /\ UNCHANGED <<elapsed, extraction, seen, ready, file, unwritten, jobs>>
    BY <1>7 DEF FallsBack, PollFails, backend, record
  <2>3. PICK t \in Nat : spent' = spent + t /\ t <= Latency
    BY <1>7, TakesIs DEF FallsBack, PollFails
  <2>4. t <= Left /\ jobs' = [jobs EXCEPT ![call] = jobs[call]]
    BY <1>1, <1>4, <2>2, <2>3, LeftIs
  <2>. QED
    BY <1>1, <1>3, <1>4, <2>1, <2>2, <2>3, <2>4, AnswerIInv
<1>8. CASE Conclude
  <2>1. /\ pc = "final" /\ pc \in Polling
        /\ UNCHANGED <<elapsed, seen, ready, file, unwritten, jobs>>
        /\ Fetched
    BY <1>8 DEF Conclude, backend, record, Polling
  <2>2. PICK t \in Nat : spent' = spent + t /\ t <= Latency
    BY <1>8, TakesIs DEF Conclude
  <2>3. t <= Left /\ jobs' = [jobs EXCEPT ![call] = jobs[call]]
        /\ (seen.error => jobs[call].error)
    BY <1>1, <1>4, <2>1, <2>2, LeftIs DEF IInv, Asked
  <2>4. extraction' \in BOOLEAN /\ (extraction' => ready[call])
    <3>1. extraction => ready[call]
      BY <2>1 DEF IInv, Asked
    <3>. QED
      BY <1>1, <2>1, <3>1, FetchedIs
  <2>5. seen.status = "other" \/ (seen.status = "running" /\ elapsed = Budget)
    BY <2>1 DEF IInv, Position
  <2>6. CASE ~seen.error
    <3> DEFINE a == Extraction("completed", extraction')
    <3>1. a \in Answers /\ a.kind = "completed" /\ a.found = extraction'
      BY <2>4 DEF Extraction, Answers
    <3>2. Answer(a)
      BY <1>8, <2>6 DEF Conclude
    <3> HIDE DEF a
    <3>. QED
      BY <1>1, <1>4, <2>1, <2>2, <2>3, <2>4, <2>5, <2>6, <3>1, <3>2, AnswerIInv
  <2>7. CASE seen.error /\ extraction'
    <3> DEFINE a == Extraction("partial", TRUE)
    <3>1. a \in Answers /\ a.kind = "partial" /\ a.found
      BY DEF Extraction, Answers
    <3>2. Answer(a)
      BY <1>8, <2>7 DEF Conclude
    <3> HIDE DEF a
    <3>. QED
      BY <1>1, <1>4, <2>1, <2>2, <2>3, <2>4, <2>7, <3>1, <3>2, AnswerIInv
  <2>8. CASE seen.error /\ ~extraction'
    <3>1. Answer(Kind("error"))
      BY <1>8, <2>8 DEF Conclude
    <3>. QED
      BY <1>1, <1>3, <1>4, <2>1, <2>2, <2>3, <2>4, <3>1, AnswerIInv
  <2>. QED
    BY <2>6, <2>7, <2>8
<1>9. CASE Replied \/ RequestFails
  <2>1. /\ pc = "request" /\ pc # "idle" /\ domain = "idp"
        /\ UNCHANGED <<elapsed, extraction, seen, ready, file, unwritten>>
    BY <1>9 DEF Replied, RequestFails, record, IInv, Position
  <2>2. PICK t \in Nat : spent' = spent + t /\ t <= Latency
    BY <1>9, TakesIs DEF Replied, RequestFails
  <2>3. t <= Left
    BY <1>1, <2>1, <2>2, LeftIs
  <2>4. Carried = [jobs EXCEPT ![call] = IF AllTools[tool].changes THEN Job("other", FALSE)
                                         ELSE jobs[call]]
    BY <1>4, <2>1 DEF Carried
  <2>5. CASE Replied
    <3> DEFINE a == Extraction("value", TRUE)
               s == IF AllTools[tool].changes THEN Job("other", FALSE) ELSE jobs[call]
    <3>1. a \in Answers /\ a.kind = "value"
      BY DEF Extraction, Answers
    <3>2. Answer(a) /\ jobs' = [jobs EXCEPT ![call] = s] /\ s \in JobStates
          /\ (AllTools[tool].changes => s # NoJob)
      BY <1>4, <2>1, <2>4, <2>5, NewJobs DEF Replied
    <3> HIDE DEF a, s
    <3>. QED
      BY <1>1, <2>1, <2>2, <2>3, <3>1, <3>2, AnswerIInv
  <2>6. CASE RequestFails
    <3>1. PICK s \in JobStates : jobs' = [jobs EXCEPT ![call] = s]
      <4>1. CASE jobs' = Carried
        <5>1. CASE AllTools[tool].changes
          BY <2>4, <4>1, <5>1, NewJobs
        <5>2. CASE ~AllTools[tool].changes
          BY <1>4, <2>1, <2>4, <4>1, <5>2
        <5>. QED
          BY <5>1, <5>2
      <4>2. CASE jobs' = jobs
        BY <1>4, <2>1, <4>2
      <4>. QED
        BY <2>6, <4>1, <4>2 DEF RequestFails
    <3>2. Answer(Kind("error"))
      BY <2>6 DEF RequestFails
    <3>. QED
      BY <1>1, <1>3, <2>1, <2>2, <2>3, <3>1, <3>2, AnswerIInv
  <2>. QED
    BY <1>9, <2>5, <2>6
<1>. QED
  BY <1>5, <1>6, <1>7, <1>8, <1>9

\* The job runs; its id is in the session's file, or could not be written.
LEMMA UploadedIInv == ASSUME IInv, Uploaded PROVE IInv'
<1> USE DEF Uploaded, given, diagnostics
<1>1. /\ pc = "upload" /\ pc' = "fetch" /\ call \in Calls /\ call > 0 /\ domain = "dce"
      /\ activity # "completed" /\ elapsed = 0 /\ UNCHANGED elapsed
  BY HandlerAssumption DEF IInv, TypeOK, Position, Calls
<1>2. /\ jobs' \in [Calls -> JobStates]
      /\ jobs'[call].status # "none" /\ \A c \in Calls \ {call} : jobs'[c] = jobs[c]
      /\ answers[call] = NoAnswer /\ ~seen.error
  <2>1. PICK s \in {"running", "other"} : jobs' = [jobs EXCEPT ![call] = Job(s, FALSE)]
    BY DEF NewJob
  <2>2. Job(s, FALSE) \in JobStates /\ Job(s, FALSE).status = s
    BY NewJobs
  <2>3. jobs'[call] = Job(s, FALSE)
    BY <1>1, <2>1 DEF IInv, TypeOK
  <2>4. jobs'[call].status # "none"
    BY <2>2, <2>3
  <2>. QED
    BY <1>1, <2>1, <2>2, <2>4 DEF IInv, TypeOK, Asked, Position
<1>3. PICK t \in Nat : spent' = spent + t /\ t <= Latency
  BY TakesIs
<1>4. TypeOK'
  <2>1. spent' \in Nat /\ file' \in 0 .. MaxCalls
    BY <1>1, <1>3 DEF IInv, TypeOK, Calls
  <2>. QED
    BY <1>2, <2>1 DEF IInv, TypeOK
<1>5. Position'
  BY <1>1, HandlerAssumption DEF IInv, Position, Polling
<1>6. Asked'
  <2>1. extraction = FALSE
    BY <1>1 DEF IInv, Position, TypeOK
  <2>. QED
    BY <1>1, <1>2, <2>1 DEF IInv, Asked, Polling, Calls
<1>7. AnswersAreHonest'
  <2>1. CompletedIsEarned'
    BY <1>1 DEF CompletedIsEarned
  <2>. QED
    BY <1>1, <1>2, <2>1 DEF IInv, AnswersAreHonest, NoAnswer
<1>8. Recorded'
  <2>1. \A c \in Calls : answers[c].kind \in {"completed", "partial"} \/ c = call => c <= call
    BY <1>1 DEF IInv, Asked, NoAnswer, Calls
  <2>. QED
    BY <1>1, <2>1 DEF IInv, Recorded
<1>9. InTime'
  <2>1. PollsAt(elapsed) = 0 /\ Polls \in Nat /\ Polls - 0 = Polls /\ Budget - 0 = Budget
    BY <1>1, Ends, HandlerAssumption
  <2>2. Left' = Budget + (Polls + 1) * Latency
    BY <1>1, <2>1 DEF Left
  <2>3. (Polls + 1) * Latency = Polls * Latency + Latency /\ Polls * Latency \in Nat
    BY <2>1, Requests
  <2>4. Left = Budget + Polls * Latency + Latency + Latency
    BY <1>1, LeftIs, LongestIs
  <2>5. call * Longest \in Nat /\ spent \in Nat /\ Latency \in Nat /\ Budget \in Nat
    <3>1. call \in Nat /\ spent \in Nat
      BY <1>1, HandlerAssumption DEF IInv, TypeOK, Calls
    <3>. QED
      BY <3>1, NextCall, HandlerAssumption
  <2>6. spent' + Left' <= spent + Left
    BY <1>3, <2>2, <2>3, <2>4, <2>5
  <2>. QED
    BY <1>3, <2>2, <2>3, <2>4, <2>5, <2>6 DEF IInv, InTime
<1>. QED
  BY <1>4, <1>5, <1>6, <1>7, <1>8, <1>9 DEF IInv

\* A call that spends no more than it leaves keeps within its time.
LEMMA InTimeKept ==
  ASSUME IInv, call \in Nat, UNCHANGED <<limit, activity, call>>,
         spent' \in Nat, Left' \in Nat, spent' + Left' <= spent + Left
  PROVE  InTime'
<1>1. PICK most \in Nat : most = call * Longest
  BY NextCall
<1>2. spent \in Nat /\ Left \in Nat
  BY LeftIs DEF IInv, TypeOK
<1>3. spent + Left <= most
  BY <1>1 DEF IInv, InTime
<1>4. spent' + Left' <= most
  <2>1. \A s, l, t, k \in Nat : t + k <= s + l /\ s + l <= most => t + k <= most
    OBVIOUS
  <2>. QED
    BY <1>2, <1>3, <2>1, Zenon
<1>5. activity = "expired" => limit <= call * Longest
  BY DEF IInv, InTime
<1>. QED
  BY <1>1, <1>4, <1>5 DEF InTime

\* Between two requests of the handler nothing but its own account changes.
LEMMA AccountIInv ==
  ASSUME IInv, pc \in Polling, pc' \in Polling, call \in Calls,
         UNCHANGED <<given, activity, call, tool, backend, answers, record, diagnostics>>,
         spent' \in Nat, extraction' \in BOOLEAN, seen' \in JobStates,
         elapsed' \in 0 .. Budget,
         extraction' => ready[call], seen'.error => jobs[call].error, Position', spent' + Left' <= spent + Left, Left' \in Nat
  PROVE  IInv'
<1> USE DEF given, backend, record, diagnostics
<1>1. TypeOK'
  BY DEF IInv, TypeOK, Polling
<1>2. Asked'
  BY DEF IInv, Asked, Polling
<1>3. AnswersAreHonest'
  <2>1. CompletedIsEarned'
    BY DEF CompletedIsEarned, Polling
  <2>. QED
    BY <2>1 DEF IInv, AnswersAreHonest
<1>4. Recorded'
  BY DEF IInv, Recorded
<1>5. InTime'
  BY InTimeKept, HandlerAssumption DEF Calls
<1>. QED
  BY <1>1, <1>2, <1>3, <1>4, <1>5 DEF IInv

\* The handler fetches, polls and pauses within its account.
LEMMA PollingIInv == ASSUME IInv, Fetch \/ Polled \/ Pause PROVE IInv'
<1>1. /\ elapsed \in 0 .. Budget /\ elapsed < Budget /\ elapsed \in Nat /\ OnGrid(elapsed)
      /\ pc \in {"fetch", "status", "pause"} /\ pc \in Polling
      /\ call \in Calls /\ domain = "dce" /\ activity # "completed" /\ call > 0
  <2>1. pc \in {"fetch", "status", "pause"}
    BY DEF Fetch, Polled, Pause
  <2>2. call > 0 /\ call \in 0 .. MaxCalls /\ call \in Calls
    BY <2>1, HandlerAssumption DEF IInv, TypeOK, Position, Calls
  <2>3. elapsed < Budget /\ OnGrid(elapsed) /\ domain = "dce" /\ activity # "completed"
    BY <2>1 DEF IInv, Position, Polling
  <2>4. elapsed \in 0 .. Budget
    BY DEF IInv, TypeOK
  <2>. QED
    BY <2>1, <2>2, <2>3, <2>4 DEF Polling
<1>2. PollsAt(elapsed) \in Nat /\ PollsAt(elapsed) + 1 <= Polls /\ Polls \in Nat
  BY <1>1, Ends, Step, HandlerAssumption
<1>3. spent \in Nat /\ Latency \in Nat /\ Left \in Nat
  BY LeftIs, HandlerAssumption DEF IInv, TypeOK
<1>4. extraction \in BOOLEAN /\ (extraction => ready[call]) /\ seen \in JobStates
      /\ jobs[call] \in JobStates /\ (seen.error => jobs[call].error)
      /\ jobs[call].status \in {"running", "other"}
  BY <1>1 DEF IInv, TypeOK, Asked, JobStates
<1>5. Polls - PollsAt(elapsed) - 1 \in Nat /\ Polls - PollsAt(elapsed) \in Nat
      /\ (Polls - PollsAt(elapsed) - 1) + 1 = Polls - PollsAt(elapsed)
  BY <1>2
<1>6. /\ (Polls - PollsAt(elapsed)) * Latency
           = (Polls - PollsAt(elapsed) - 1) * Latency + Latency
      /\ (Polls - PollsAt(elapsed) - 1) * Latency \in Nat
      /\ (Polls - PollsAt(elapsed) + 1) * Latency = (Polls - PollsAt(elapsed)) * Latency + Latency
  BY <1>5, Requests
<1>7. CASE Fetch
  <2>1. /\ pc = "fetch" /\ pc' = "status" /\ UNCHANGED <<elapsed, spent, seen>>
        /\ UNCHANGED <<given, activity, call, tool, backend, answers, record, diagnostics>>
    BY <1>7 DEF Fetch, given, backend, record, diagnostics
  <2>2. extraction' \in BOOLEAN /\ (extraction' => ready[call])
    BY <1>4, <1>7, FetchedIs DEF Fetch
  <2>3. Left' = Left
    BY <2>1 DEF Left
  <2>4. Position'
    BY <1>1, <2>1 DEF IInv, Position, Polling, given
  <2>. QED
    BY <1>1, <1>3, <1>4, <2>1, <2>2, <2>3, <2>4, AccountIInv DEF Polling
<1>8. CASE Polled
  <2>1. /\ pc = "status" /\ UNCHANGED <<elapsed, extraction>>
        /\ seen' = jobs[call] /\ pc' = (IF seen'.status = "running" THEN "pause" ELSE "final")
        /\ UNCHANGED <<given, activity, call, tool, backend, answers, record, diagnostics>>
    BY <1>8 DEF Polled, given, backend, record, diagnostics
  <2>2. PICK t \in Nat : spent' = spent + t /\ t <= Latency
    BY <1>8, TakesIs DEF Polled
  <2>3. Position'
    BY <1>1, <1>4, <2>1 DEF IInv, Position, Polling, given
  <2>4. Left = Budget - elapsed + (Polls - PollsAt(elapsed)) * Latency + Latency
    BY <2>1, LeftIs
  <2>5. /\ pc' = "pause" => Left' = Budget - elapsed + (Polls - PollsAt(elapsed)) * Latency
        /\ pc' = "final" => Left' = Latency
    BY <2>1 DEF Left
  <2>6. Budget - elapsed \in Nat /\ Left' \in Nat /\ spent' + Left' <= spent + Left
    BY <1>1, <1>3, <1>6, <2>1, <2>2, <2>4, <2>5, HandlerAssumption
  <2>7. spent' \in Nat /\ pc' \in Polling
    BY <1>3, <2>1, <2>2 DEF Polling
  <2>. QED
    BY <1>1, <1>3, <1>4, <2>1, <2>3, <2>6, <2>7, AccountIInv
<1>9. CASE Pause
  <2>1. /\ pc = "pause" /\ UNCHANGED <<extraction, seen>> /\ seen.status = "running"
        /\ elapsed' = elapsed + PauseLength /\ spent' = spent + PauseLength
        /\ pc' = (IF elapsed' < Budget THEN "fetch" ELSE "final")
        /\ UNCHANGED <<given, activity, call, tool, backend, answers, record, diagnostics>>
    BY <1>9 DEF Pause, given, backend, record, diagnostics, IInv, Position
  <2>2. PauseLength \in Nat /\ PauseLength = (IF elapsed < FastUntil THEN Fast ELSE Slow)
    BY HandlerAssumption DEF PauseLength
  <2>3. /\ OnGrid(elapsed') /\ elapsed' <= Budget /\ elapsed' \in 0 .. Budget
        /\ PollsAt(elapsed') = PollsAt(elapsed) + 1
    BY <1>1, <2>1, <2>2, Step, HandlerAssumption
  <2>4. Position'
    <3>1. pc' = "final" => elapsed' = Budget
      BY <2>1, <2>3, HandlerAssumption
    <3>2. pc' \in {"fetch", "final"} /\ (pc' = "fetch" => elapsed' < Budget)
      BY <2>1
    <3>. QED
      BY <1>1, <2>1, <2>3, <3>1, <3>2 DEF Position, given
  <2>5. Left = Budget - elapsed + (Polls - PollsAt(elapsed)) * Latency
    BY <2>1, LeftIs
  <2>6. Polls - PollsAt(elapsed') + 1 = Polls - PollsAt(elapsed)
    BY <1>2, <2>3
  <2>7. /\ pc' = "fetch" => Left' = Budget - elapsed' + (Polls - PollsAt(elapsed)) * Latency
        /\ pc' = "final" => Left' = Latency
    BY <2>1, <2>6 DEF Left
  <2>8. Left' \in Nat /\ spent' + Left' <= spent + Left
    <3>1. pc' = "final" => elapsed' = Budget
      BY <2>1, <2>3, HandlerAssumption
    <3>. QED
      BY <1>1, <1>3, <1>6, <2>1, <2>2, <2>3, <2>5, <2>7, <3>1, HandlerAssumption
  <2>9. spent' \in Nat /\ pc' \in Polling
    BY <1>3, <2>1, <2>2 DEF Polling
  <2>. QED
    BY <1>1, <1>4, <2>1, <2>3, <2>4, <2>8, <2>9, AccountIInv
<1>. QED
  BY <1>7, <1>8, <1>9

\* The job makes progress while it is polled.
LEMMA JobIInv == ASSUME IInv, JobExtracts \/ JobEnds \/ JobErrs PROVE IInv'
<1> USE DEF handler, given, record, diagnostics
<1>1. /\ Watched
      /\ UNCHANGED <<domain, limit, spent, call, tool, pc, elapsed, extraction, seen, answers,
                     file, unwritten, activity, reading, shown>>
  BY DEF JobExtracts, JobEnds, JobErrs
<1>2. call \in Calls /\ pc # "idle" /\ jobs[call].status # "none" /\ answers[call] = NoAnswer
      /\ jobs \in [Calls -> JobStates] /\ ready \in [Calls -> BOOLEAN]
      /\ pc \notin {"upload", "request"}
  BY <1>1, HandlerAssumption DEF Watched, IInv, TypeOK, Position, Asked, Polling, Calls
<1>3. /\ jobs' \in [Calls -> JobStates] /\ ready' \in [Calls -> BOOLEAN]
      /\ jobs'[call].status # "none" /\ (jobs[call].error => jobs'[call].error)
      /\ \A c \in Calls : ready[c] => ready'[c]
      /\ \A c \in Calls \ {call} : jobs'[c] = jobs[c]
  <2>1. CASE JobExtracts
    BY <1>2, <2>1 DEF JobExtracts, backend
  <2>2. ASSUME NEW s \in {"running", "other"}, NEW e \in BOOLEAN, jobs[call].error => e,
               jobs' = [jobs EXCEPT ![call] = Job(s, e)], ready' = ready
        PROVE  /\ jobs' \in [Calls -> JobStates] /\ ready' \in [Calls -> BOOLEAN]
               /\ jobs'[call].status # "none" /\ (jobs[call].error => jobs'[call].error)
               /\ \A c \in Calls : ready[c] => ready'[c]
               /\ \A c \in Calls \ {call} : jobs'[c] = jobs[c]
    <3>1. Job(s, e) \in JobStates /\ Job(s, e).status = s /\ Job(s, e).error = e
      BY DEF Job, JobStates
    <3>2. jobs'[call] = Job(s, e)
      BY <1>2, <2>2
    <3>. QED
      BY <1>2, <2>2, <3>1, <3>2
  <2>3. jobs[call] \in JobStates /\ jobs[call].error \in BOOLEAN
        /\ jobs[call].status \in {"running", "other"}
    BY <1>2 DEF JobStates
  <2>4. CASE JobEnds
    <3>1. jobs' = [jobs EXCEPT ![call] = Job("other", jobs[call].error)] /\ ready' = ready
      BY <2>4 DEF JobEnds
    <3>. QED
      BY <2>2, <2>3, <3>1
  <2>5. CASE JobErrs
    <3>1. jobs' = [jobs EXCEPT ![call] = Job(jobs[call].status, TRUE)] /\ ready' = ready
      BY <2>5 DEF JobErrs, Job
    <3>. QED
      BY <2>2, <2>3, <3>1
  <2>. QED
    BY <2>1, <2>4, <2>5
<1>4. TypeOK' /\ Position' /\ Recorded'
  BY <1>1, <1>3 DEF IInv, TypeOK, Position, Recorded
<1>5. Asked'
  BY <1>1, <1>2, <1>3 DEF IInv, Asked, Calls, TypeOK
<1>6. AnswersAreHonest'
  <2>1. CompletedIsEarned'
    BY <1>1, <1>2 DEF CompletedIsEarned
  <2>. QED
    BY <1>1, <1>2, <1>3, <2>1 DEF IInv, AnswersAreHonest, NoAnswer
<1>7. InTime'
  BY <1>1 DEF IInv, InTime, Left
<1>. QED
  BY <1>4, <1>5, <1>6, <1>7 DEF IInv

\* The activity ends, or its time is over; the diagnostics are collected.
LEMMA ViewIInv ==
  ASSUME IInv, Complete \/ Expire \/ ReadHistory \/ ReadSession
  PROVE  IInv'
<1> USE DEF handler, given, record, backend, diagnostics, observed
<1>1. /\ UNCHANGED <<domain, limit, spent, call, tool, pc, elapsed, extraction, seen, answers,
                     file, unwritten, jobs, ready>>
  BY DEF Complete, Expire, ReadHistory, ReadSession
<1>2. Asked' /\ AnswersAreHonest'
  BY <1>1 DEF IInv, Asked, AnswersAreHonest, CompletedIsEarned
<1>3. TypeOK'
  <2>1. activity' \in {"running", "completed", "expired"}
    BY DEF Complete, Expire, ReadHistory, ReadSession, IInv, TypeOK
  <2>2. reading' \in {"off", "session", "done"}
    BY DEF Complete, Expire, ReadHistory, ReadSession, IInv, TypeOK
  <2>3. shown' \in [ended : BOOLEAN, job : 0 .. MaxCalls]
    BY DEF Complete, Expire, ReadHistory, ReadSession, IInv, TypeOK
  <2>. QED
    BY <1>1, <2>1, <2>2, <2>3 DEF IInv, TypeOK
<1>4. Position'
  BY <1>1 DEF Complete, Expire, ReadHistory, ReadSession, IInv, Position
<1>5. Recorded'
  <2>1. ~unwritten => \A c \in Calls : answers[c].kind \in {"completed", "partial"}
                                        \/ (c = call /\ pc \in Polling) => c <= file
    BY DEF IInv, Recorded
  <2>2. shown \in [ended : BOOLEAN, job : 0 .. MaxCalls]
    BY DEF IInv, TypeOK
  <2>3. CASE Complete \/ Expire
    BY <1>1, <2>1, <2>3 DEF Complete, Expire, IInv, Recorded
  <2>4. CASE ReadHistory
    <3>1. reading' = "session" /\ UNCHANGED activity
      BY <2>4 DEF ReadHistory
    <3>2. shown'.ended => activity = "completed"
      BY <2>2, <2>4 DEF ReadHistory
    <3>. QED
      BY <1>1, <2>1, <3>1, <3>2 DEF Recorded
  <2>5. CASE ReadSession
    BY <1>1, <2>1, <2>2, <2>5 DEF ReadSession, IInv, Recorded
  <2>. QED
    BY <2>3, <2>4, <2>5
<1>6. InTime'
  <2>1. Left' = Left
    BY <1>1 DEF Left
  <2>2. spent <= call * Longest
    <3>1. call * Longest \in Nat /\ spent \in Nat /\ Left \in Nat
      BY NextCall, LeftIs, HandlerAssumption DEF IInv, TypeOK
    <3>. QED
      BY <3>1 DEF IInv, InTime
  <2>3. activity' = "expired" => activity = "expired" \/ spent >= limit
    BY DEF Complete, Expire, ReadHistory, ReadSession
  <2>4. limit \in Nat /\ spent \in Nat /\ call * Longest \in Nat
    BY NextCall, HandlerAssumption DEF IInv, TypeOK
  <2>5. activity' = "expired" => limit <= call * Longest
    BY <2>2, <2>3, <2>4 DEF IInv, InTime
  <2>. QED
    BY <1>1, <2>1, <2>5 DEF IInv, InTime
<1>. QED
  BY <1>2, <1>3, <1>4, <1>5, <1>6 DEF IInv

\* Every step keeps the invariant.
LEMMA StepIInv == IInv /\ [Next]_vars => IInv'
<1> SUFFICES ASSUME IInv, [Next]_vars PROVE IInv'
  OBVIOUS
<1>1. CASE UNCHANGED vars
  BY <1>1 DEF vars, IInv, TypeOK, Position, Asked, AnswersAreHonest, CompletedIsEarned,
              Recorded, InTime, Left
<1>2. CASE Handler
  BY <1>2, CallIInv, AnswersIInv, UploadedIInv, PollingIInv DEF Handler
<1>3. CASE JobExtracts \/ JobEnds \/ JobErrs \/ Complete \/ Expire \/ ReadHistory \/ ReadSession
  BY <1>3, JobIInv, ViewIInv
<1>. QED
  BY <1>1, <1>2, <1>3 DEF Next

\* The inductive invariant holds in every reachable state, for every budget
\* and every length of the pauses that meets it exactly.
THEOREM Invariance == Spec => []IInv
  BY InitIInv, StepIInv, PTL DEF Spec

\* The handlers, the backend, the activity and the diagnostics keep their
\* types: no account goes beyond the budget.
THEOREM TypeCorrect == Spec => []TypeOK
<1>1. IInv => TypeOK
  BY DEF IInv
<1>. QED
  BY <1>1, Invariance, PTL

\* Completed is said only after a poll that earned it or at the end of the
\* budget, partial only with an extraction and an error of the job, and what
\* was rejected was never sent, for any number of calls.
THEOREM Honest == Spec => []AnswersAreHonest
<1>1. IInv => AnswersAreHonest
  BY DEF IInv
<1>. QED
  BY <1>1, Invariance, PTL

\* The job the diagnostics show is the last one of a completed activity,
\* whose id could be written.
THEOREM Correlated == Spec => []DiagnosticsCorrelate
<1>1. IInv => DiagnosticsCorrelate
  <2>1. ASSUME IInv, reading = "done", shown.ended, ~unwritten,
               NEW c \in Calls, answers[c].kind \in {"completed", "partial"}
        PROVE  c <= shown.job
    BY <2>1 DEF IInv, Recorded
  <2>. QED
    BY <2>1 DEF DiagnosticsCorrelate
<1>. QED
  BY <1>1, Invariance, PTL

\* No call takes longer than Longest, and an activity that expired had a
\* smaller limit than its calls may take: a start_to_close of as many times
\* Longest as it makes calls rules the expiry out.
THEOREM ExpiryExplained == Spec => []ExpiryNeedsATightLimit
<1>1. IInv => ExpiryNeedsATightLimit
  <2>1. ASSUME IInv PROVE call * Longest \in Nat /\ spent \in Nat /\ Left \in Nat
    BY <2>1, NextCall, LeftIs, HandlerAssumption DEF IInv, TypeOK
  <2>2. ASSUME IInv PROVE spent <= call * Longest
    BY <2>1, <2>2 DEF IInv, InTime
  <2>. QED
    BY <2>2 DEF ExpiryNeedsATightLimit, IInv, InTime
<1>. QED
  BY <1>1, Invariance, PTL
=============================================================================
