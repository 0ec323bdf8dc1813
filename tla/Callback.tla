------------------------------ MODULE Callback ------------------------------
(***************************************************************************)
(* CallbackService.deliver (gateway/callback.py) as the deliver_callback   *)
(* activity runs it: up to MaxRetries posts with a doubling pause between  *)
(* them, on the worker's clock, against the start_to_close timeout the     *)
(* workflow gives the activity and an endpoint that may be slow, refuse,   *)
(* hang up, or answer after nobody waits for it any more.                  *)
(*                                                                         *)
(* Time is counted in seconds. The timeout handed to urlopen bounds each   *)
(* socket operation (connect, each read), not the attempt: an endpoint     *)
(* that trickles its answer restarts it.                                   *)
(***************************************************************************)
EXTENDS Naturals, FiniteSets

CONSTANTS Timeout,       \* timeout_seconds of one socket operation
          MaxRetries,    \* max_retries: how many posts are tried
          BackoffBase,   \* backoff_base, seconds
          StartToClose,  \* the activity's start_to_close timeout, seconds
          SocketOps      \* bound: operations an endpoint can drag one attempt into

ASSUME CallbackAssumption == /\ Timeout \in Nat \ {0}
                             /\ MaxRetries \in Nat \ {0}
                             /\ BackoffBase \in Nat \ {0}
                             /\ StartToClose \in Nat \ {0}
                             /\ SocketOps \in Nat \ {0, 1}

Attempts == 0 .. MaxRetries - 1

VARIABLES
  elapsed,    \* seconds since the server started the activity's clock
  attempt,    \* the loop variable of deliver
  phase,      \* what deliver is doing
  remaining,  \* seconds left of the socket operation or of the sleep
  ops,        \* socket operations begun in this attempt
  delay,      \* backoff_base * 2 ** n after n pauses: the next pause
  request,    \* attempt -> what became of its POST at the endpoint
  heard,      \* the attempts whose HTTP status reached deliver
  output,     \* the CallbackResult: "delivered" or "failed"
  activity    \* the activity in the workflow's history

vars == <<elapsed, attempt, phase, remaining, ops, delay, request, heard,
          output, activity>>

Waiting == {"connect", "respond"}
Busy == Waiting \cup {"sleep"}

Init == /\ elapsed = 0
        /\ attempt = 0
        /\ phase = "connect"
        /\ remaining = Timeout
        /\ ops = 1
        /\ delay = BackoffBase
        /\ request = [k \in Attempts |-> "unsent"]
        /\ heard = {}
        /\ output = "none"
        /\ activity = "started"

-----------------------------------------------------------------------------
(* deliver, in the worker.                                                 *)

\* deliver returns; the server takes the result unless it has given up.
Return(verdict) ==
  /\ phase' = "returned"
  /\ output' = verdict
  /\ activity' = IF activity = "started" THEN "done" ELSE activity
  /\ UNCHANGED <<remaining, delay>>

\* The pause before the next attempt, which doubles every time.
Sleep == /\ phase' = "sleep"
         /\ remaining' = delay
         /\ delay' = 2 * delay
         /\ UNCHANGED <<output, activity>>

\* Mutants of Fail: the exponent of the pause is attempt where it should be
\* attempt - 1; one attempt fewer than max_retries; and one more.
Fail_longPause == IF attempt + 1 < MaxRetries
                  THEN /\ phase' = "sleep"
                       /\ remaining' = 2 * delay
                       /\ delay' = 2 * delay
                       /\ UNCHANGED <<output, activity>>
                  ELSE Return("failed")

Fail_early == IF attempt + 2 < MaxRetries THEN Sleep ELSE Return("failed")

Fail_late == IF attempt < MaxRetries THEN Sleep ELSE Return("failed")

\* The attempt ends with an exception or with a status that is not 2xx.
Fail == IF attempt + 1 < MaxRetries THEN Sleep ELSE Return("failed")

\* The connection is made and the request is written to it.
Connect == /\ phase = "connect"
           /\ phase' = "respond"
           /\ request' = [request EXCEPT ![attempt] = "sent"]
           /\ remaining' = Timeout
           /\ ops' = ops + 1
           /\ UNCHANGED <<elapsed, attempt, delay, heard, output, activity>>

\* A part of the answer arrives and urllib reads on.
Trickle == /\ phase = "respond"
           /\ ops < SocketOps
           /\ ops' = ops + 1
           /\ remaining' = Timeout
           /\ UNCHANGED <<elapsed, attempt, phase, delay, request, heard,
                          output, activity>>

\* Mutant of Answer: a success does not end the loop.
Answer_goesOn == /\ phase = "respond"
                 /\ request[attempt] \in {"accepted", "rejected"}
                 /\ heard' = heard \cup {attempt}
                 /\ Fail
                 /\ UNCHANGED <<elapsed, attempt, ops, request>>

\* The endpoint's status is read: 2xx ends the delivery, all others (urllib
\* raises HTTPError for them) end the attempt.
Answer == /\ phase = "respond"
          /\ request[attempt] \in {"accepted", "rejected"}
          /\ heard' = heard \cup {attempt}
          /\ IF request[attempt] = "accepted" THEN Return("delivered") ELSE Fail
          /\ UNCHANGED <<elapsed, attempt, ops, request>>

\* Refused, reset, or unresolvable: the operation fails at once.
Break == /\ phase \in Waiting
         /\ Fail
         /\ UNCHANGED <<elapsed, attempt, ops, request, heard>>

Hang == /\ phase \in Waiting
        /\ remaining = 0
        /\ Fail
        /\ UNCHANGED <<elapsed, attempt, ops, request, heard>>

Retry == /\ phase = "sleep"
         /\ remaining = 0
         /\ phase' = "connect"
         /\ attempt' = attempt + 1
         /\ remaining' = Timeout
         /\ ops' = 1
         /\ UNCHANGED <<elapsed, delay, request, heard, output, activity>>

-----------------------------------------------------------------------------
(* The endpoint, the server and the clock.                                 *)

\* The endpoint handles a request that was written to it, also one whose
\* sender has stopped waiting.
Handle(k) == /\ request[k] = "sent"
             /\ \E status \in {"accepted", "rejected"} :
                  request' = [request EXCEPT ![k] = status]
             /\ UNCHANGED <<elapsed, attempt, phase, remaining, ops, delay,
                            heard, output, activity>>

\* start_to_close expires: with no retry policy this fails the workflow.
Expire == /\ activity = "started"
          /\ elapsed >= StartToClose
          /\ activity' = "timed_out"
          /\ UNCHANGED <<elapsed, attempt, phase, remaining, ops, delay, request,
                         heard, output>>

\* The worker may learn of it and cancel the coroutine, which deliver does
\* not catch (CancelledError is no Exception); the thread's request stays out.
Cancel == /\ activity = "timed_out"
          /\ phase \in Busy
          /\ phase' = "cancelled"
          /\ UNCHANGED <<elapsed, attempt, remaining, ops, delay, request, heard,
                         output, activity>>

Tick == /\ phase \in Busy
        /\ remaining > 0
        /\ activity = "started" => elapsed < StartToClose
        /\ elapsed' = elapsed + 1
        /\ remaining' = remaining - 1
        /\ UNCHANGED <<attempt, phase, ops, delay, request, heard, output, activity>>

Next == \/ Connect \/ Trickle \/ Answer \/ Break \/ Hang \/ Retry
        \/ \E k \in Attempts : Handle(k)
        \/ Expire \/ Cancel \/ Tick

Spec == Init /\ [][Next]_vars

-----------------------------------------------------------------------------
TypeOK == /\ elapsed \in Nat
          /\ attempt \in Attempts
          /\ phase \in Busy \cup {"returned", "cancelled"}
          /\ remaining \in Nat
          /\ ops \in 1 .. SocketOps
          /\ delay \in Nat
          /\ request \in [Attempts -> {"unsent", "sent", "accepted", "rejected"}]
          /\ heard \subseteq Attempts
          /\ output \in {"none", "delivered", "failed"}
          /\ activity \in {"started", "done", "timed_out"}

\* The endpoint is not told again what deliver has heard it accept: a
\* duplicate needs an answer that was lost or came too late.
NoNeedlessRepeat ==
  \A j \in heard : request[j] = "accepted" =>
    \A k \in Attempts : k > j => request[k] = "unsent"

\* What deliver reports is what it heard: a delivery it calls done was
\* accepted, and one it calls failed was tried in every attempt and never
\* heard accepted (it may have been accepted all the same).
VerdictIsHonest ==
  /\ output = "delivered" => \E k \in heard : request[k] = "accepted"
  /\ output = "failed" => /\ attempt = MaxRetries - 1
                          /\ \A k \in heard : request[k] = "rejected"

\* The schedule: in attempt k, delivery has taken at most the operations of
\* k + 1 attempts and the pauses between them, which add up to
\* backoff_base * (2 ** k - 1).
Schedule == elapsed <= (attempt + 1) * (SocketOps * Timeout) + (delay - BackoffBase)

\* activities/callback.py: "Never fails the workflow".
NeverFailsTheWorkflow == activity # "timed_out"
-----------------------------------------------------------------------------
(* The inductive invariant.                                                *)

\* How much of the schedule the operation or the pause under way may use.
Timing ==
  /\ delay >= BackoffBase
  /\ phase \in Waiting =>
       elapsed + remaining <= attempt * (SocketOps * Timeout) + ops * Timeout
                                + (delay - BackoffBase)
  /\ phase = "sleep" =>
       elapsed + remaining <= (attempt + 1) * (SocketOps * Timeout)
                                + (delay - BackoffBase)
  /\ Schedule

\* What deliver knows of its requests: none of a later attempt is out, and an
\* acceptance that was heard has ended the delivery.
Knowledge ==
  /\ \A k \in Attempts : k > attempt => request[k] = "unsent"
  /\ phase = "connect" => request[attempt] = "unsent" /\ ops = 1
  /\ heard \subseteq 0 .. attempt
  /\ phase \in Waiting => attempt \notin heard
  /\ phase = "sleep" => attempt + 1 < MaxRetries
  /\ \A j \in heard : /\ request[j] \in {"accepted", "rejected"}
                      /\ request[j] = "accepted" => /\ j = attempt
                                                   /\ phase = "returned"
                                                   /\ output = "delivered"
  /\ output # "none" => phase = "returned"
  /\ VerdictIsHonest

IInv == TypeOK /\ Timing /\ Knowledge
=============================================================================
