------------------------------- MODULE Gateway -------------------------------
(***************************************************************************)
(* The FastAPI gateway (gateway/app.py): its handlers, from the arrival of *)
(* a request to the answer, over the state they share in one event loop:   *)
(* the rate limiter, the lazily connected Temporal client and its lock,    *)
(* and the bounded audit log. A handler runs alone between two awaits; the *)
(* awaits are the lock, Client.connect and the call to the Temporal        *)
(* server, each of which can fail, and is cancelled after a second in the  *)
(* health probes.                                                          *)
(*                                                                         *)
(* Requests are numbered in the order they arrive. The number is also the  *)
(* operativo_id: dispatch makes a new one for every submission.            *)
(***************************************************************************)
EXTENDS RateLimiter

CONSTANTS MaxSubmissions,  \* bound: how many requests arrive
          MaxEntries       \* max_entries of the audit log

ASSUME GatewayAssumption == /\ MaxSubmissions \in Nat
                            /\ MaxEntries \in Nat \ {0}

Serials == 1 .. MaxSubmissions
Nobody == 0

\* What later steps tell apart: create stands for the handlers of the three
\* domains, health for both probes.
Kinds == {"create", "status", "feedback", "health"}

VARIABLES
  pc,        \* request -> the await its handler is parked at, or its answer
  kind,      \* request -> which handler it goes to
  caller,    \* request -> the caller its API key belongs to, "" for none
  lock,      \* the request that holds _temporal_client_lock
  client,    \* _temporal_client is connected
  connects,  \* how many connections were made (history)
  started,   \* the workflows the Temporal server has started
  entries,   \* the audit log
  byCaller,  \* its index
  log        \* all entries ever logged (history)

gateway == <<pc, kind, caller, lock, client, connects, started>>
audit == <<entries, byCaller, log>>
vars == <<limiter, gateway, audit>>

Answers == {"201", "200", "202", "400", "401", "429", "503"}
Parked == {"queued", "connecting", "call", "reply"}

Init == /\ RateInit
        /\ pc = [n \in Serials |-> "none"]
        /\ kind = [n \in Serials |-> "none"]
        /\ caller = [n \in Serials |-> ""]
        /\ lock = Nobody
        /\ client = FALSE
        /\ connects = 0
        /\ started = {}
        /\ entries = <<>>
        /\ byCaller = [c \in Callers |-> <<>>]
        /\ log = <<>>

-----------------------------------------------------------------------------
(* AuditLogger.                                                            *)

\* Mutant of Indexed: the index is not cleaned up.
Indexed_grows(index, old) == index

\* The index without the entry that left the log: the caller's first, if it
\* is that entry.
Indexed(index, old) ==
  [c \in Callers |-> IF c = old.caller /\ index[c] # <<>> /\ Head(index[c]) = old
                     THEN Tail(index[c]) ELSE index[c]]

\* Mutant of Log: a full log takes no more entries.
Log_full(e) ==
  /\ log' = Append(log, e)
  /\ IF Len(entries) < MaxEntries
     THEN /\ entries' = Append(entries, e)
          /\ byCaller' = [c \in Callers |-> IF c = e.caller THEN Append(byCaller[c], e)
                                                           ELSE byCaller[c]]
     ELSE UNCHANGED <<entries, byCaller>>

Log(e) ==
  LET grown == Append(entries, e)
      index == [c \in Callers |-> IF c = e.caller THEN Append(byCaller[c], e)
                                                  ELSE byCaller[c]]
  IN  /\ log' = Append(log, e)
      /\ IF Len(grown) > MaxEntries
         THEN /\ entries' = Tail(grown)
              /\ byCaller' = Indexed(index, Head(grown))
         ELSE /\ entries' = grown
              /\ byCaller' = index

-----------------------------------------------------------------------------
(* Arrival: everything up to the first await.                              *)

Goes(n, where) == pc' = [pc EXCEPT ![n] = where]

\* _get_temporal_client: the first look at the singleton.
SeekClient(n) == Goes(n, IF client THEN "call" ELSE "queued")

Received(n, k, c) == /\ pc[n] = "none"
                     /\ \A m \in 1 .. n - 1 : pc[m] # "none"
                     /\ kind' = [kind EXCEPT ![n] = k]
                     /\ caller' = [caller EXCEPT ![n] = c]
                     /\ UNCHANGED <<lock, client, connects, started>>

\* The probes ask for no key.
Probe(n) == /\ Received(n, "health", "")
            /\ SeekClient(n)
            /\ UNCHANGED <<limiter, audit>>

Reject(n, k) == /\ Received(n, k, "")
                /\ Goes(n, "401")
                /\ Log([event |-> "AUTH_FAILURE", caller |-> "", of |-> n])
                /\ UNCHANGED limiter

Throttle(n, k, c) == /\ Received(n, k, c)
                     /\ Refuse(c)
                     /\ Goes(n, "429")
                     /\ Log([event |-> "RATE_LIMITED", caller |-> c, of |-> n])

\* A request that is let in counts against the limit whatever becomes of it.
Admit(n, k, c) == /\ Received(n, k, c)
                  /\ Grant(c)
                  /\ UNCHANGED audit

\* What dispatch_*_operativo requires of a submission.
DispatchDce == {"pdf_path", "pdf_filename", "caller_id", "name in .pdf"}
DispatchHas == {"document_path", "document_filename", "caller_id", "known document_type"}
DispatchIdp == {"document_path", "plugin_id", "caller_id"}

\* A submission that lacks something required is refused before Temporal is
\* asked for; from there on the three handlers have one shape.
Create(n, c, required) == /\ Admit(n, "create", c)
                          /\ \/ SeekClient(n)
                             \/ \E lacking \in required : Goes(n, "400")

CreateDce(n, c) == Create(n, c, DispatchDce)
CreateHas(n, c) == Create(n, c, DispatchHas)
CreateIdp(n, c) == Create(n, c, DispatchIdp)

\* Feedback is answered at once: nothing is queued.
SubmitFeedback(n, c) == Admit(n, "feedback", c) /\ Goes(n, "202")

GetStatus(n, c) == Admit(n, "status", c) /\ SeekClient(n)

Arrive(n) == \/ Probe(n)
             \/ \E k \in Kinds \ {"health"} :
                  \/ Reject(n, k)
                  \/ \E c \in Callers : Throttle(n, k, c)
             \/ \E c \in Callers : \/ CreateDce(n, c) \/ CreateHas(n, c) \/ CreateIdp(n, c)
                                   \/ SubmitFeedback(n, c) \/ GetStatus(n, c)

-----------------------------------------------------------------------------
(* The Temporal client singleton.                                          *)

\* Mutant of Acquire: the lock is taken without the second look.
Acquire_unchecked(n) == /\ pc[n] = "queued"
                        /\ lock = Nobody
                        /\ Goes(n, "connecting")
                        /\ lock' = n
                        /\ UNCHANGED <<limiter, audit, kind, caller, client, connects, started>>

\* The second look, under the lock.
Acquire(n) == /\ pc[n] = "queued"
              /\ lock = Nobody
              /\ IF client
                 THEN Goes(n, "call") /\ UNCHANGED lock
                 ELSE Goes(n, "connecting") /\ lock' = n
              /\ UNCHANGED <<limiter, audit, kind, caller, client, connects, started>>

Connected(n) == /\ pc[n] = "connecting"
                /\ client' = TRUE
                /\ connects' = connects + 1
                /\ lock' = Nobody
                /\ Goes(n, "call")
                /\ UNCHANGED <<limiter, audit, kind, caller, started>>

\* Mutant of Unavailable: the exception is not turned into an answer.
Unavailable_raises(n) == Goes(n, "500")

\* A probe answers 200 or 503 when Temporal is away, the others 503.
Unavailable(n) == Goes(n, "503")

\* Mutant of ConnectFails: no async with, so the exception leaves it locked.
ConnectFails_locked(n) == /\ pc[n] = "connecting"
                          /\ Unavailable(n)
                          /\ UNCHANGED <<limiter, audit, kind, caller, lock, client,
                                         connects, started>>

ConnectFails(n) == /\ pc[n] = "connecting"
                   /\ lock' = Nobody
                   /\ Unavailable(n)
                   /\ UNCHANGED <<limiter, audit, kind, caller, client, connects, started>>

\* Mutant of ProbeTimesOut: a cancelled probe keeps the lock.
ProbeTimesOut_locked(n) == /\ kind[n] = "health"
                           /\ pc[n] \in Parked
                           /\ Unavailable(n)
                           /\ UNCHANGED <<limiter, audit, kind, caller, lock, client,
                                          connects, started>>

\* wait_for cancels the probe after a second, wherever it is parked.
ProbeTimesOut(n) == /\ kind[n] = "health"
                    /\ pc[n] \in Parked
                    /\ lock' = IF lock = n THEN Nobody ELSE lock
                    /\ Unavailable(n)
                    /\ UNCHANGED <<limiter, audit, kind, caller, client, connects, started>>

-----------------------------------------------------------------------------
(* The call to the Temporal server.                                        *)

\* The server has started the workflow; its reply is under way.
StartWorkflow(n) == /\ pc[n] = "call"
                    /\ kind[n] = "create"
                    /\ started' = started \cup {n}
                    /\ Goes(n, "reply")
                    /\ UNCHANGED <<limiter, audit, kind, caller, lock, client, connects>>

\* Mutant of Dispatched: the entry is written before the server is asked.
Dispatched_early(n) == /\ pc[n] \in {"call", "reply"}
                       /\ kind[n] = "create"
                       /\ Log([event |-> "DISPATCH", caller |-> caller[n], of |-> n])
                       /\ Goes(n, "201")
                       /\ UNCHANGED <<limiter, kind, caller, lock, client, connects, started>>

Dispatched(n) == /\ pc[n] = "reply"
                 /\ Log([event |-> "DISPATCH", caller |-> caller[n], of |-> n])
                 /\ Goes(n, "201")
                 /\ UNCHANGED <<limiter, kind, caller, lock, client, connects, started>>

\* Nothing reached the server, or its reply did not come back.
CallFails(n) == /\ pc[n] \in {"call", "reply"}
                /\ Unavailable(n)
                /\ UNCHANGED <<limiter, audit, kind, caller, lock, client, connects, started>>

\* describe, or check_health.
Described(n) == /\ pc[n] = "call"
                /\ kind[n] \in {"status", "health"}
                /\ Goes(n, "200")
                /\ UNCHANGED <<limiter, audit, kind, caller, lock, client, connects, started>>

Answer(n) == \/ Acquire(n) \/ Connected(n) \/ ConnectFails(n) \/ ProbeTimesOut(n)
             \/ StartWorkflow(n) \/ Dispatched(n) \/ CallFails(n) \/ Described(n)

Clock == Tick /\ UNCHANGED <<gateway, audit>>

Next == \/ \E n \in Serials : Arrive(n) \/ Answer(n)
        \/ Clock

\* The event loop runs every handler that can go on, and every call to the
\* Temporal server returns or raises.
Fairness == \A n \in Serials : WF_vars(Answer(n))

Spec == Init /\ [][Next]_vars /\ Fairness

-----------------------------------------------------------------------------
Entries == [event : {"AUTH_FAILURE", "RATE_LIMITED", "DISPATCH"},
            caller : Callers \cup {""}, of : Serials]

TypeOK == /\ RateTypeOK
          /\ pc \in [Serials -> {"none"} \cup Parked \cup Answers]
          /\ kind \in [Serials -> Kinds \cup {"none"}]
          /\ caller \in [Serials -> Callers \cup {""}]
          /\ lock \in Serials \cup {Nobody}
          /\ client \in BOOLEAN
          /\ connects \in Nat
          /\ started \subseteq Serials
          /\ entries \in Seq(Entries)
          /\ byCaller \in [Callers -> Seq(Entries)]
          /\ log \in Seq(Entries)

\* Whatever interleaving of first requests and cancelled probes, at most one
\* connection to the server is ever made, and the client is that connection.
OneConnection == connects = IF client THEN 1 ELSE 0

\* The lock is held by exactly the request that is connecting: neither a
\* failed connection nor a cancelled probe leaves it held.
LockIsHeldToConnect ==
  \A n \in Serials : pc[n] = "connecting" <=> lock = n

\* The list is what the log has of caller c, in the log's order: at tells
\* for each place of the list the place in the log.
IsFilter(list, c, es) ==
  \E at \in [1 .. Len(list) -> 1 .. Len(es)] :
    /\ \A i, j \in 1 .. Len(list) : i < j => at[i] < at[j]
    /\ \A i \in 1 .. Len(list) : list[i] = es[at[i]]
    /\ \A k \in 1 .. Len(es) : es[k].caller = c <=> \E i \in 1 .. Len(list) : at[i] = k

\* At its cap the audit log still holds its newest entries and only those,
\* and the caller's index, which is evicted from separately, is the log
\* filtered by caller.
AuditAgrees ==
  /\ \A c \in Callers : IsFilter(byCaller[c], c, entries)
  /\ Len(entries) = IF Len(log) < MaxEntries THEN Len(log) ELSE MaxEntries
  /\ \A i \in 1 .. Len(entries) : entries[i] = log[Len(log) - Len(entries) + i]

LoggedAs(n, event) == \E i \in 1 .. Len(log) : log[i].of = n /\ log[i].event = event

\* What the caller, the audit log and the Temporal server believe: an
\* operativo is logged exactly when its caller is told 201, and then it has
\* been started; one started without that had its reply lost, and its caller
\* is told 503 of an operativo that runs.
DispatchIsLogged ==
  /\ \A n \in Serials : LoggedAs(n, "DISPATCH") <=> pc[n] = "201"
  /\ \A n \in Serials : pc[n] = "201" => n \in started
  /\ \A n \in started : pc[n] \in {"reply", "201", "503"}

\* Every request that arrives is answered.
EveryRequestIsAnswered == \A n \in Serials : pc[n] # "none" ~> pc[n] \in Answers
-----------------------------------------------------------------------------
(* The inductive invariant.                                                *)

\* Only the holder of the lock connects, and only while there is no client.
ConnIInv == /\ pc \in [Serials -> {"none"} \cup Parked \cup Answers]
            /\ lock \in Serials \cup {Nobody}
            /\ client \in BOOLEAN
            /\ LockIsHeldToConnect
            /\ OneConnection
            /\ lock # Nobody => ~client

\* A reply that is under way is that of a workflow the server has started.
ReplyIsOfStarted == \A n \in Serials : pc[n] = "reply" => n \in started

IInv == /\ TypeOK
        /\ ConnIInv
        /\ AuditAgrees
        /\ DispatchIsLogged
        /\ ReplyIsOfStarted
=============================================================================
