--------------------------- MODULE Callback_proofs ---------------------------
(***************************************************************************)
(* Proofs about Callback, for every timeout, number of retries, backoff    *)
(* base and start_to_close: its types, the schedule a delivery keeps, and  *)
(* the honesty of what it reports.                                         *)
(***************************************************************************)
EXTENDS Callback, TLAPS

\* The operations begun in an attempt use at most the attempt's share.
LEMMA Share ==
  ASSUME NEW n \in 1 .. SocketOps
  PROVE  /\ n * Timeout \in Nat
         /\ n * Timeout <= SocketOps * Timeout
         /\ (n + 1) * Timeout = n * Timeout + Timeout
         /\ 1 * Timeout = Timeout
         /\ SocketOps * Timeout \in Nat
  BY CallbackAssumption, SMT

\* One attempt more has one attempt's share more.
LEMMA NextShare ==
  ASSUME NEW k \in Nat
  PROVE  /\ k * (SocketOps * Timeout) \in Nat
         /\ (k + 1) * (SocketOps * Timeout) = k * (SocketOps * Timeout) + SocketOps * Timeout
<1>1. SocketOps * Timeout \in Nat
  BY CallbackAssumption, SMT
<1>2. \A s \in Nat : k * s \in Nat /\ (k + 1) * s = k * s + s
  BY SMT
<1> QED
  BY <1>1, <1>2

\* An attempt that fails leaves deliver asleep or done, within its schedule.
LEMMA FailKeepsTiming ==
  ASSUME TypeOK, Timing, phase \in Waiting, Fail, UNCHANGED <<elapsed, attempt, ops>>
  PROVE  Timing'
<1>1. /\ ops * Timeout <= SocketOps * Timeout
      /\ ops * Timeout \in Nat
      /\ SocketOps * Timeout \in Nat
  BY Share DEF TypeOK
<1>2. /\ attempt * (SocketOps * Timeout) \in Nat
      /\ (attempt + 1) * (SocketOps * Timeout) = attempt * (SocketOps * Timeout) + SocketOps * Timeout
  BY NextShare DEF TypeOK, Attempts
<1>3. /\ elapsed \in Nat /\ remaining \in Nat /\ delay \in Nat /\ BackoffBase \in Nat \ {0}
      /\ delay >= BackoffBase
      /\ elapsed + remaining <= attempt * (SocketOps * Timeout) + ops * Timeout + (delay - BackoffBase)
      /\ phase # "sleep"
  BY CallbackAssumption DEF TypeOK, Timing, Waiting
<1>4. CASE Sleep
  <2>1. phase' = "sleep" /\ remaining' = delay /\ delay' = 2 * delay
    BY <1>4 DEF Sleep
  <2> QED
    BY <1>1, <1>2, <1>3, <2>1 DEF Timing, Schedule, Waiting
<1>5. CASE Return("failed")
  <2>1. phase' = "returned" /\ delay' = delay
    BY <1>5 DEF Return
  <2> QED
    BY <1>1, <1>2, <1>3, <2>1 DEF Timing, Schedule, Waiting
<1> QED
  BY <1>4, <1>5 DEF Fail

\* It also keeps the types, and what is known, but for what was heard.
LEMMA FailKeepsTypes ==
  ASSUME TypeOK, Fail
  PROVE  /\ phase' \in {"sleep", "returned"}
         /\ remaining' \in Nat
         /\ delay' \in Nat
         /\ output' \in {"none", "delivered", "failed"}
         /\ activity' \in {"started", "done", "timed_out"}
         /\ phase' = "sleep" => attempt + 1 < MaxRetries /\ output' = output
         /\ phase' = "returned" => attempt + 1 >= MaxRetries /\ output' = "failed"
  BY CallbackAssumption DEF TypeOK, Fail, Sleep, Return, Attempts

\* A failed attempt, heard or not, leaves the verdict honest.
LEMMA FailKeepsKnowledge ==
  ASSUME TypeOK, Knowledge, phase \in Waiting, Fail, UNCHANGED <<attempt, request>>,
         heard' \in {heard, heard \cup {attempt}},
         attempt \in heard' => request[attempt] = "rejected"
  PROVE  Knowledge'
<1>1. /\ attempt \in Attempts /\ MaxRetries \in Nat \ {0} /\ attempt \in Nat
      /\ output = "none"
      /\ \A j \in heard : request[j] = "rejected"
      /\ heard' \subseteq 0 .. attempt
  BY CallbackAssumption DEF TypeOK, Knowledge, Waiting, Attempts
<1>2. \A j \in heard' : request'[j] = "rejected"
  BY <1>1
<1>3. CASE phase' = "sleep"
  BY <1>1, <1>2, <1>3, FailKeepsTypes DEF Knowledge, VerdictIsHonest, Waiting
<1>4. CASE phase' = "returned"
  <2>1. attempt = MaxRetries - 1 /\ output' = "failed"
    BY <1>1, <1>4, FailKeepsTypes DEF Attempts
  <2> QED
    BY <1>1, <1>2, <1>4, <2>1 DEF Knowledge, VerdictIsHonest, Waiting
<1> QED
  BY <1>3, <1>4, FailKeepsTypes

\* The initial states satisfy the invariant.
LEMMA InitIInv == Init => IInv
<1> SUFFICES ASSUME Init PROVE IInv
  OBVIOUS
<1> USE CallbackAssumption
<1>1. TypeOK
  BY DEF Init, TypeOK, Attempts, Busy, Waiting
<1>2. 0 * (SocketOps * Timeout) = 0 /\ SocketOps * Timeout \in Nat /\ (0 + 1) * (SocketOps * Timeout) = SocketOps * Timeout
  BY NextShare, Share
<1>3. Timing
  BY <1>2, Share DEF Init, Timing, Schedule, Waiting
<1>4. Knowledge
  BY DEF Init, Knowledge, VerdictIsHonest, Attempts, Waiting
<1> QED
  BY <1>1, <1>3, <1>4 DEF IInv

\* Every step of deliver and of its environment preserves it.
LEMMA StepIInv == IInv /\ [Next]_vars => IInv'
<1> SUFFICES ASSUME IInv, [Next]_vars PROVE IInv'
  OBVIOUS
<1> USE CallbackAssumption
<1>0. TypeOK /\ Timing /\ Knowledge
  BY DEF IInv
<1>a. /\ ops * Timeout <= SocketOps * Timeout
      /\ ops * Timeout \in Nat
      /\ SocketOps * Timeout \in Nat
      /\ (ops + 1) * Timeout = ops * Timeout + Timeout
      /\ 1 * Timeout = Timeout
  BY <1>0, Share DEF TypeOK
<1>b. /\ attempt \in Nat
      /\ attempt * (SocketOps * Timeout) \in Nat
      /\ (attempt + 1) * (SocketOps * Timeout) = attempt * (SocketOps * Timeout) + SocketOps * Timeout
      /\ (attempt + 1) * (SocketOps * Timeout) \in Nat
      /\ ((attempt + 1) + 1) * (SocketOps * Timeout)
           = (attempt + 1) * (SocketOps * Timeout) + SocketOps * Timeout
  <2>1. attempt \in Nat /\ attempt + 1 \in Nat
    BY <1>0 DEF TypeOK, Attempts
  <2> QED
    BY <2>1, NextShare
<1>1. CASE Connect
  <2>1. TypeOK'
    BY <1>0, <1>1 DEF Connect, TypeOK, Knowledge, Busy, Waiting
  <2>2. Timing'
    BY <1>0, <1>1, <1>a, <1>b DEF Connect, TypeOK, Timing, Schedule, Waiting
  <2>3. Knowledge'
    BY <1>0, <1>1 DEF Connect, TypeOK, Knowledge, VerdictIsHonest, Waiting, Attempts
  <2> QED
    BY <2>1, <2>2, <2>3 DEF IInv
<1>2. CASE Trickle
  <2>1. TypeOK'
    BY <1>0, <1>2 DEF Trickle, TypeOK, Busy, Waiting
  <2>2. Timing'
    BY <1>0, <1>2, <1>a, <1>b DEF Trickle, TypeOK, Timing, Schedule, Waiting
  <2>3. Knowledge'
    BY <1>0, <1>2 DEF Trickle, TypeOK, Knowledge, VerdictIsHonest, Waiting
  <2> QED
    BY <2>1, <2>2, <2>3 DEF IInv
<1>3. CASE Answer /\ request[attempt] = "accepted"
  <2>1. /\ Return("delivered")
        /\ heard' = heard \cup {attempt}
        /\ UNCHANGED <<elapsed, attempt, ops, request>>
        /\ phase = "respond"
    BY <1>3 DEF Answer
  <2>2. TypeOK'
    BY <1>0, <2>1 DEF Return, TypeOK, Busy
  <2>3. Timing'
    BY <1>0, <2>1 DEF Return, Timing, Schedule, Waiting
  <2>4. \A j \in heard' : /\ request'[j] \in {"accepted", "rejected"}
                          /\ request'[j] = "accepted" => j = attempt
    BY <1>0, <1>3, <2>1 DEF Knowledge
  <2>5. heard' \subseteq 0 .. attempt /\ attempt \in heard'
    BY <1>0, <1>b, <2>1 DEF Knowledge
  <2>6. phase' = "returned" /\ output' = "delivered"
    BY <2>1 DEF Return
  <2>7. \A k \in Attempts : k > attempt => request[k] = "unsent"
    BY <1>0 DEF Knowledge
  <2>8. VerdictIsHonest'
    BY <1>3, <2>1, <2>5, <2>6 DEF VerdictIsHonest
  <2>9. Knowledge'
    BY <2>1, <2>4, <2>5, <2>6, <2>7, <2>8 DEF Knowledge, Waiting
  <2> QED
    BY <2>2, <2>3, <2>9 DEF IInv
<1>4. CASE Answer /\ request[attempt] # "accepted"
  <2>1. /\ phase \in Waiting /\ Fail /\ UNCHANGED <<elapsed, attempt, ops, request>>
        /\ heard' = heard \cup {attempt}
        /\ request[attempt] = "rejected"
    BY <1>4 DEF Answer, Waiting
  <2>2. TypeOK'
    BY <1>0, <2>1, FailKeepsTypes DEF TypeOK, Busy
  <2>3. Timing'
    BY <1>0, <2>1, FailKeepsTiming
  <2>4. Knowledge'
    BY <1>0, <2>1, FailKeepsKnowledge
  <2> QED
    BY <2>2, <2>3, <2>4 DEF IInv
<1>5. CASE Break
  <2>1. phase \in Waiting /\ Fail /\ UNCHANGED <<elapsed, attempt, ops, request>>
    BY <1>5 DEF Break
  <2>2. heard' = heard /\ attempt \notin heard
    BY <1>0, <1>5, <2>1 DEF Break, Knowledge
  <2>3. TypeOK'
    BY <1>0, <1>5, <2>1, <2>2, FailKeepsTypes DEF TypeOK, Busy
  <2>4. Timing'
    BY <1>0, <2>1, FailKeepsTiming
  <2>5. Knowledge'
    BY <1>0, <2>1, <2>2, FailKeepsKnowledge
  <2> QED
    BY <2>3, <2>4, <2>5 DEF IInv
<1>6. CASE Hang
  <2>1. phase \in Waiting /\ Fail /\ UNCHANGED <<elapsed, attempt, ops, request>>
    BY <1>6 DEF Hang
  <2>2. heard' = heard /\ attempt \notin heard
    BY <1>0, <1>6, <2>1 DEF Hang, Knowledge
  <2>3. TypeOK'
    BY <1>0, <1>6, <2>1, <2>2, FailKeepsTypes DEF TypeOK, Busy
  <2>4. Timing'
    BY <1>0, <2>1, FailKeepsTiming
  <2>5. Knowledge'
    BY <1>0, <2>1, <2>2, FailKeepsKnowledge
  <2> QED
    BY <2>3, <2>4, <2>5 DEF IInv
<1>7. CASE Retry
  <2>1. TypeOK'
    BY <1>0, <1>7 DEF Retry, TypeOK, Knowledge, Attempts, Busy, Waiting
  <2>2. Timing'
    BY <1>0, <1>7, <1>a, <1>b DEF Retry, TypeOK, Timing, Schedule, Waiting
  <2>3. Knowledge'
    BY <1>0, <1>7 DEF Retry, TypeOK, Knowledge, VerdictIsHonest, Waiting, Attempts
  <2> QED
    BY <2>1, <2>2, <2>3 DEF IInv
<1>8. ASSUME NEW k \in Attempts, Handle(k) PROVE IInv'
  <2>1. PICK status \in {"accepted", "rejected"} :
          request' = [request EXCEPT ![k] = status]
    BY <1>8 DEF Handle
  <2>2. TypeOK'
    BY <1>0, <1>8, <2>1 DEF Handle, TypeOK
  <2>3. Timing'
    BY <1>0, <1>8 DEF Handle, Timing, Schedule
  <2>4. request[k] = "sent" /\ k \notin heard /\ k <= attempt
    BY <1>0, <1>8 DEF Handle, Knowledge, TypeOK, Attempts
  <2>5. \A j \in Attempts \ {k} : request'[j] = request[j]
    BY <1>0, <2>1 DEF TypeOK
  <2>6. heard \subseteq Attempts \ {k}
    BY <1>0, <2>4 DEF TypeOK
  <2>7. Knowledge'
    BY <1>0, <1>8, <2>4, <2>5, <2>6 DEF Handle, TypeOK, Knowledge, VerdictIsHonest, Attempts
  <2> QED
    BY <2>2, <2>3, <2>7 DEF IInv
<1>9. CASE Expire
  BY <1>0, <1>9 DEF Expire, IInv, TypeOK, Timing, Schedule, Knowledge, VerdictIsHonest
<1>10. CASE Cancel
  BY <1>0, <1>10 DEF Cancel, IInv, TypeOK, Timing, Schedule, Knowledge, VerdictIsHonest,
                     Busy, Waiting
<1>11. CASE Tick
  <2>1. TypeOK'
    BY <1>0, <1>11 DEF Tick, TypeOK
  <2>2. Timing'
    BY <1>0, <1>11, <1>a, <1>b DEF Tick, TypeOK, Timing, Schedule, Busy, Waiting
  <2>3. Knowledge'
    BY <1>0, <1>11 DEF Tick, Knowledge, VerdictIsHonest
  <2> QED
    BY <2>1, <2>2, <2>3 DEF IInv
<1>12. CASE UNCHANGED vars
  BY <1>0, <1>12 DEF vars, IInv, TypeOK, Timing, Schedule, Knowledge, VerdictIsHonest
<1> QED
  BY <1>1, <1>2, <1>3, <1>4, <1>5, <1>6, <1>7, <1>8, <1>9, <1>10, <1>11, <1>12 DEF Next

\* The inductive invariant holds in every reachable state.
THEOREM Invariance == Spec => []IInv
  BY InitIInv, StepIInv, PTL DEF Spec

\* deliver's state keeps its types.
THEOREM TypeCorrect == Spec => []TypeOK
<1>1. IInv => TypeOK
  BY DEF IInv
<1> QED
  BY <1>1, Invariance, PTL

\* A delivery never takes longer than its operations and pauses add up to.
THEOREM ScheduleKept == Spec => []Schedule
<1>1. IInv => Schedule
  BY DEF IInv, Timing
<1> QED
  BY <1>1, Invariance, PTL

\* So a start_to_close that covers the schedule of the attempt under way has
\* not expired: the workflow's 30 seconds do not cover it, see
\* NeverFailsTheWorkflow.
THEOREM ExpiryNeedsTheSchedule ==
  Spec => [](activity = "timed_out" =>
               StartToClose <= (attempt + 1) * (SocketOps * Timeout)
                                 + (delay - BackoffBase))
<1> DEFINE Late == activity = "timed_out" => elapsed >= StartToClose
           Bound == activity = "timed_out" =>
                      StartToClose <= (attempt + 1) * (SocketOps * Timeout)
                                        + (delay - BackoffBase)
<1>1. Init => Late
  BY DEF Init
<1>2. IInv /\ Late /\ [Next]_vars => Late'
  <2> SUFFICES ASSUME IInv, Late, [Next]_vars PROVE Late'
    OBVIOUS
  <2>1. elapsed \in Nat /\ StartToClose \in Nat
    BY CallbackAssumption DEF IInv, TypeOK
  <2>2. elapsed' = elapsed \/ elapsed' = elapsed + 1
    BY DEF Next, vars, Connect, Trickle, Answer, Break, Hang, Retry, Handle, Expire,
           Cancel, Tick
  <2>3. activity' = "timed_out" => activity = "timed_out" \/ Expire
    BY DEF Next, vars, Connect, Trickle, Answer, Break, Hang, Retry, Handle, Expire,
           Cancel, Tick, Fail, Sleep, Return
  <2> QED
    BY <2>1, <2>2, <2>3 DEF Expire
<1>3. IInv /\ Late => Bound
  <2> SUFFICES ASSUME IInv, Late, activity = "timed_out" PROVE Bound
    OBVIOUS
  <2>1. /\ (attempt + 1) * (SocketOps * Timeout) \in Nat
        /\ elapsed \in Nat /\ delay \in Nat
    BY NextShare, CallbackAssumption DEF IInv, TypeOK, Attempts
  <2> QED
    BY <2>1, CallbackAssumption DEF IInv, Timing, Schedule
<1> QED
  BY <1>1, <1>2, <1>3, Invariance, PTL DEF Spec

\* A delivery reported done was accepted, one reported failed used every
\* attempt and heard no acceptance.
THEOREM Honest == Spec => []VerdictIsHonest
<1>1. IInv => VerdictIsHonest
  BY DEF IInv, Knowledge
<1> QED
  BY <1>1, Invariance, PTL

\* An endpoint whose acceptance was heard is not posted to again.
THEOREM NoRepeat == Spec => []NoNeedlessRepeat
<1>1. IInv => NoNeedlessRepeat
  BY DEF IInv, Knowledge, NoNeedlessRepeat
<1> QED
  BY <1>1, Invariance, PTL
=============================================================================
