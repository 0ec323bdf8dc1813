----------------------------- MODULE ToolHandlers -----------------------------
(***************************************************************************)
(* The tool handlers of activities/factory.py that call a backend, as an   *)
(* activity's tool loop calls them one after the other; the backend's jobs;*)
(* and diagnostics/dce.py, which correlates the activity with its job.     *)
(*                                                                         *)
(* extract_pdf_text uploads the document to the DCE Backend and polls the  *)
(* job; each handler of the IDP Platform is one request. Calls are          *)
(* numbered, and a job has the number of the call that made it. Time       *)
(* passes in the requests of a handler and in its pauses between polls.    *)
(***************************************************************************)
EXTENDS Naturals

CONSTANTS Budget,     \* max_wait_s
          FastUntil,  \* until then the pauses are short
          Fast, Slow, \* the two pauses, in seconds
          Latency,    \* bound: a request takes no time or this, a poll's two together
          Limits,     \* start_to_close of the activity, one for each mode
          MaxCalls    \* bound: calls of a tool by one activity

ASSUME HandlerAssumption ==
  /\ Budget \in Nat \ {0} /\ FastUntil \in Nat /\ Latency \in Nat
  /\ Fast \in Nat \ {0} /\ Slow \in Nat \ {0} /\ Fast <= Slow
  /\ FastUntil % Fast = 0 /\ FastUntil <= Budget /\ (Budget - FastUntil) % Slow = 0
  /\ Limits \subseteq Nat
  /\ MaxCalls \in Nat

Calls == 1 .. MaxCalls

VARIABLES
  domain,     \* which table of handlers the activity was given
  limit,      \* its start_to_close
  spent,      \* seconds since it was started
  activity,   \* "running", "completed" or "expired", in the workflow's history
  call,       \* number of the call under way, or of the last one
  tool,       \* the tool called
  pc,         \* where its handler is
  elapsed,    \* the handler's account of its pauses
  extraction, \* the extraction it holds
  seen,       \* status_data
  jobs,       \* the job of each call, at the backend
  ready,      \* whether the job's extraction can be fetched
  answers,    \* what each call was answered
  file,       \* cpc_job_id.txt, 0 when there is none
  unwritten,  \* history: the last job's id could not be written
  reading,    \* how far the diagnostics are
  shown       \* what they show

vars == <<domain, limit, spent, activity, call, tool, pc, elapsed, extraction, seen,
          jobs, ready, answers, file, unwritten, reading, shown>>

given == <<domain, limit>>
backend == <<jobs, ready>>
record == <<file, unwritten>>
diagnostics == <<reading, shown>>

\* What a handler of the IDP Platform refuses to do without, and whether its
\* request changes anything there; a file must exist before it is sent.
Reads(needs) == [needs |-> needs, changes |-> FALSE]
Changes(needs) == [needs |-> needs, changes |-> TRUE]

JobTools ==
  [upload_document   |-> Changes({"document_path", "file", "plugin_id"}),
   get_job_detail    |-> Reads({"job_id"}),
   get_job_status    |-> Reads({"job_id"}),
   list_jobs         |-> Reads({}),
   patch_job_verdict |-> Changes({"job_id", "verdict"})]

PluginTools ==
  [list_plugins           |-> Reads({}),
   get_plugin             |-> Reads({"plugin_id"}),
   update_schema          |-> Changes({"plugin_id", "schema"}),
   calibrate_schema       |-> Changes({"plugin_id", "document_paths", "file"}),
   get_calibration_status |-> Reads({"plugin_id"})]

SettingsTools ==
  [get_settings    |-> Reads({}),
   update_settings |-> Changes({})]

ExtractionTools == [extract_pdf_text |-> Changes({"pdf_path", "file"})]

Join(f, g) == [t \in DOMAIN f \cup DOMAIN g |-> IF t \in DOMAIN f THEN f[t] ELSE g[t]]

PlatformTools == Join(JobTools, Join(PluginTools, SettingsTools))
AllTools == Join(PlatformTools, ExtractionTools)

\* build_tool_handler: the table of each domain, as far as it calls a backend.
Tools == [d \in {"dce", "idp"} |->
            DOMAIN IF d = "dce" THEN ExtractionTools ELSE PlatformTools]

\* A job as a poll shows it: a status, of which the handler tells "running"
\* from all others, and an error, which a running job may have, too.
Job(status, error) == [status |-> status, error |-> error]
JobStates == [status : {"none", "running", "other"}, error : BOOLEAN]
NoJob == Job("none", FALSE)

\* The answer a handler gives: a completed or partial extraction, or local
\* text, or a value; or an error, before anything was sent or after.
Extraction(status, found) == [kind |-> status, found |-> found]
NoAnswer == [kind |-> "none", found |-> FALSE]
Answers == [kind : {"none", "completed", "partial", "local", "value", "error", "rejected"},
            found : BOOLEAN]

Init == /\ domain \in {"dce", "idp"}
        /\ limit \in Limits
        /\ spent = 0
        /\ activity = "running"
        /\ call = 0
        /\ tool = "none"
        /\ pc = "idle"
        /\ elapsed = 0
        /\ extraction = FALSE
        /\ seen = NoJob
        /\ jobs = [c \in Calls |-> NoJob]
        /\ ready = [c \in Calls |-> FALSE]
        /\ answers = [c \in Calls |-> NoAnswer]
        /\ file = 0
        /\ unwritten = FALSE
        /\ reading = "off"
        /\ shown = [ended |-> FALSE, job |-> 0]

-----------------------------------------------------------------------------
(* A call of a tool, whatever the tool.                                    *)

\* An activity that has expired is not told: its loop goes on.
Call == /\ pc = "idle"
        /\ call < MaxCalls
        /\ activity # "completed"
        /\ call' = call + 1
        /\ tool' \in Tools[domain]
        /\ pc' = IF domain = "dce" THEN "upload" ELSE "request"
        /\ elapsed' = 0
        /\ extraction' = FALSE
        /\ seen' = NoJob
        /\ UNCHANGED <<given, spent, activity, backend, answers, record, diagnostics>>

\* A request is waited for; only the pauses are added up by the handler.
Takes == \E t \in {0, Latency} : spent' = spent + t

Answer(a) == /\ answers' = [answers EXCEPT ![call] = a]
             /\ pc' = "idle"
             /\ UNCHANGED <<given, activity, call, tool, diagnostics>>

\* Something the handler needs is missing, and nothing is sent. Where it needs
\* nothing, the request goes out whatever the parameters are.
Reject == /\ pc \in {"upload", "request"}
          /\ AllTools[tool].needs # {}
          /\ Answer(Extraction("rejected", FALSE))
          /\ UNCHANGED <<spent, elapsed, extraction, seen, backend, record>>

-----------------------------------------------------------------------------
(* extract_pdf_text.                                                       *)

\* The backend has the job, and starts it now or later.
NewJob == \E s \in {"running", "other"} : jobs' = [jobs EXCEPT ![call] = Job(s, FALSE)]

\* Mutant of Uploaded: an id that is there already is kept.
Uploaded_first == /\ pc = "upload"
                  /\ Takes
                  /\ NewJob
                  /\ unwritten' = FALSE
                  /\ file' = IF file = 0 THEN call ELSE file
                  /\ pc' = "fetch"
                  /\ UNCHANGED <<given, activity, call, tool, elapsed, extraction, seen,
                                 ready, answers, diagnostics>>

\* The job's id is written to the session, and if that fails the
\* extraction goes on without.
Uploaded == /\ pc = "upload"
            /\ Takes
            /\ NewJob
            /\ unwritten' \in BOOLEAN
            /\ file' = IF unwritten' THEN file ELSE call
            /\ pc' = "fetch"
            /\ UNCHANGED <<given, activity, call, tool, elapsed, extraction, seen,
                           ready, answers, diagnostics>>

\* The upload fails, or its reply is lost: then the job runs unknown to all.
UploadFails == /\ pc = "upload"
               /\ Takes
               /\ NewJob \/ UNCHANGED jobs
               /\ Answer(Extraction("error", FALSE))
               /\ UNCHANGED <<elapsed, extraction, seen, ready, record>>

\* No connection: the text is taken from the file itself, if it can be. The
\* same happens when a poll cannot connect, whatever was fetched before.
FallsBack == /\ pc \in {"upload", "status"}
             /\ Takes
             /\ \E k \in {"local", "error"} : Answer(Extraction(k, FALSE))
             /\ UNCHANGED <<elapsed, extraction, seen, backend, record>>

\* The extraction is asked for until there is one; a failure is ignored.
Fetched == \/ extraction' = TRUE /\ (extraction \/ ready[call])
           \/ UNCHANGED extraction

Fetch == /\ pc = "fetch"
         /\ Fetched
         /\ pc' = "status"
         /\ UNCHANGED <<given, spent, activity, call, tool, elapsed, seen, backend,
                        answers, record, diagnostics>>

\* Mutant of Polled: a job is awaited only while its extraction is missing.
Polled_early == /\ pc = "status"
                /\ Takes
                /\ seen' = jobs[call]
                /\ pc' = IF seen'.status = "running" /\ ~extraction THEN "pause" ELSE "final"
                /\ UNCHANGED <<given, activity, call, tool, elapsed, extraction,
                               backend, answers, record, diagnostics>>

\* Any other status ends the polling, also one of a job that has yet to run.
Polled == /\ pc = "status"
          /\ Takes
          /\ seen' = jobs[call]
          /\ pc' = IF seen'.status = "running" THEN "pause" ELSE "final"
          /\ UNCHANGED <<given, activity, call, tool, elapsed, extraction,
                         backend, answers, record, diagnostics>>

\* Any other failure of a poll is the end of the call.
PollFails == /\ pc = "status"
             /\ Takes
             /\ Answer(Extraction("error", FALSE))
             /\ UNCHANGED <<elapsed, extraction, seen, backend, record>>

PauseLength == IF elapsed < FastUntil THEN Fast ELSE Slow

\* Mutants of Pause: one pause too many; the pauses are not added up.
Pause_inclusive == /\ pc = "pause"
                   /\ elapsed' = elapsed + PauseLength
                   /\ spent' = spent + PauseLength
                   /\ pc' = IF elapsed' <= Budget THEN "fetch" ELSE "final"
                   /\ UNCHANGED <<given, activity, call, tool, extraction, seen, backend,
                                  answers, record, diagnostics>>

Pause_uncounted == /\ pc = "pause"
                   /\ pc' = "fetch"
                   /\ UNCHANGED <<given, spent, elapsed, activity, call, tool, extraction,
                                  seen, backend, answers, record, diagnostics>>

Pause == /\ pc = "pause"
         /\ elapsed' = elapsed + PauseLength
         /\ spent' = spent + PauseLength
         /\ pc' = IF elapsed' < Budget THEN "fetch" ELSE "final"
         /\ UNCHANGED <<given, activity, call, tool, extraction, seen, backend,
                        answers, record, diagnostics>>

\* The last look for an extraction, and the answer: an error of the job's
\* only if there is none, and "completed" unless the job reported one. When
\* the budget is spent the job may be running still.
Conclude == /\ pc = "final"
            /\ Fetched
            /\ Takes
            /\ Answer(IF ~seen.error THEN Extraction("completed", extraction')
                      ELSE IF extraction' THEN Extraction("partial", TRUE)
                      ELSE Extraction("error", FALSE))
            /\ UNCHANGED <<elapsed, seen, backend, record>>

-----------------------------------------------------------------------------
(* The handlers of the IDP Platform: one request, one reply.               *)

Carried == IF AllTools[tool].changes THEN [jobs EXCEPT ![call] = Job("other", FALSE)] ELSE jobs

Replied == /\ pc = "request"
           /\ Takes
           /\ jobs' = Carried
           /\ Answer(Extraction("value", TRUE))
           /\ UNCHANGED <<elapsed, extraction, seen, ready, record>>

\* An exception is an error for the model, carried out or not.
RequestFails == /\ pc = "request"
                /\ Takes
                /\ jobs' \in {Carried, jobs}
                /\ Answer(Extraction("error", FALSE))
                /\ UNCHANGED <<elapsed, extraction, seen, ready, record>>

Handler == \/ Call \/ Reject
           \/ Uploaded \/ UploadFails \/ FallsBack
           \/ Fetch \/ Polled \/ PollFails \/ Pause \/ Conclude
           \/ Replied \/ RequestFails

-----------------------------------------------------------------------------
(* The backend, and the server's view of the activity.                     *)

handler == <<given, spent, call, tool, pc, elapsed, extraction, seen, answers, record>>

\* A job goes on after its call was answered, but nobody asks for it again:
\* the model follows it while it is polled.
Watched == pc \notin {"idle", "upload", "request"}

\* The extraction is there before the job ends, if it ever is.
JobExtracts == /\ Watched
               /\ ~ready[call]
               /\ ready' = [ready EXCEPT ![call] = TRUE]
               /\ UNCHANGED <<handler, activity, jobs, diagnostics>>

\* A job that began in another state and runs before it is polled is one that
\* ran from the beginning.
JobEnds == /\ Watched
           /\ jobs[call].status = "running"
           /\ jobs' = [jobs EXCEPT ![call] = Job("other", jobs[call].error)]
           /\ UNCHANGED <<handler, activity, ready, diagnostics>>

\* A failure of one stage need not end the job.
JobErrs == /\ Watched
           /\ ~jobs[call].error
           /\ jobs' = [jobs EXCEPT ![call] = Job(jobs[call].status, TRUE)]
           /\ UNCHANGED <<handler, activity, ready, diagnostics>>

\* The agent has its answer, whatever the tools said.
Complete == /\ pc = "idle"
            /\ call > 0
            /\ activity = "running"
            /\ spent < limit
            /\ activity' = "completed"
            /\ UNCHANGED <<handler, backend, diagnostics>>

Expire == /\ activity = "running"
          /\ spent >= limit
          /\ activity' = "expired"
          /\ UNCHANGED <<handler, backend, diagnostics>>

-----------------------------------------------------------------------------
(* collect_dce_diagnostics: the history, then the session, whose job it    *)
(* asks the backend for last.                                              *)

observed == <<handler, activity, backend>>

ReadHistory == /\ reading = "off"
               /\ reading' = "session"
               /\ shown' = [shown EXCEPT !.ended = activity = "completed"]
               /\ UNCHANGED observed

ReadSession == /\ reading = "session"
               /\ reading' = "done"
               /\ shown' = [shown EXCEPT !.job = file]
               /\ UNCHANGED observed

Next == \/ Handler
        \/ JobExtracts \/ JobEnds \/ JobErrs \/ Complete \/ Expire
        \/ ReadHistory \/ ReadSession

\* The handler's coroutine runs on: every request of it returns or raises
\* within its timeout. Nothing is assumed of the job.
Spec == Init /\ [][Next]_vars

FairSpec == Spec /\ WF_vars(Handler)

-----------------------------------------------------------------------------
\* The activity, its handlers, the backend's jobs and the diagnostics.
TypeOK == /\ domain \in {"dce", "idp"}
          /\ limit \in Limits
          /\ spent \in Nat
          /\ activity \in {"running", "completed", "expired"}
          /\ call \in 0 .. MaxCalls
          /\ tool \in {"none"} \cup DOMAIN AllTools
          /\ pc \in {"idle", "upload", "fetch", "status", "pause", "final", "request"}
          /\ elapsed \in 0 .. Budget
          /\ extraction \in BOOLEAN
          /\ seen \in JobStates
          /\ jobs \in [Calls -> JobStates]
          /\ ready \in [Calls -> BOOLEAN]
          /\ answers \in [Calls -> Answers]
          /\ file \in 0 .. MaxCalls
          /\ unwritten \in BOOLEAN
          /\ reading \in {"off", "session", "done"}
          /\ shown \in [ended : BOOLEAN, job : 0 .. MaxCalls]

\* "completed" is said only after a poll that showed no error and no running
\* job; of one still running only when the whole budget was spent on it.
CompletedIsEarned ==
  call > 0 /\ pc = "idle" /\ answers[call].kind = "completed"
    => ~seen.error /\ (seen.status = "other" \/ (seen.status = "running" /\ elapsed = Budget))

\* What the model is told, the backend bears out: "completed" is earned, and
\* "partial" has an extraction and an error of the job; an extraction was
\* there to be fetched, though the job ran on; a value of a tool that changes
\* something says that it did; and what was rejected was never sent, so that
\* calling again cannot do it twice.
AnswersAreHonest ==
  /\ CompletedIsEarned
  /\ \A c \in Calls :
       /\ answers[c].kind = "partial" => answers[c].found /\ jobs[c].error
       /\ answers[c].found /\ domain = "dce" => ready[c]
       /\ answers[c].kind = "value" /\ c = call /\ AllTools[tool].changes => jobs[c] # NoJob
       /\ answers[c].kind = "rejected" => jobs[c] = NoJob

\* When the diagnostics show Medina's activity as completed, the job they
\* show is the last one it made, unless its id could not be written: the
\* session is read after the history.
DiagnosticsCorrelate ==
  reading = "done" /\ shown.ended /\ ~unwritten
    => \A c \in Calls : answers[c].kind \in {"completed", "partial"} => c <= shown.job

\* How often a call has polled that has paused for e seconds.
PollsAt(e) == IF e <= FastUntil THEN e \div Fast
              ELSE FastUntil \div Fast + (e - FastUntil) \div Slow

\* The upload, the polls, and the last request or the local reading; and
\* the pauses.
Polls == PollsAt(Budget)
Longest == Budget + (Polls + 2) * Latency

\* A call ends by its own account, whatever the job does, though that
\* account leaves out its requests: so the activity expires only if its limit
\* is below what its calls may take, as in the fast mode, whose 300 seconds
\* are the pauses of one.
ExpiryNeedsATightLimit ==
  /\ spent <= call * Longest
  /\ activity = "expired" => limit <= call * Longest

\* Every call is answered, though the job may run for ever.
CallsAreAnswered == pc # "idle" ~> pc = "idle"
-----------------------------------------------------------------------------
(* The inductive invariant.                                                *)

Polling == {"fetch", "status", "pause", "final"}

\* The pauses add up to points from which the budget is met exactly.
OnGrid(e) == /\ e <= FastUntil => e % Fast = 0
             /\ e > FastUntil => (e - FastUntil) % Slow = 0

\* Where the handler is, and what it has seen of the job there.
Position ==
  /\ pc \in Polling \cup {"upload"} => domain = "dce"
  /\ pc = "request" => domain = "idp"
  /\ pc # "idle" => call > 0
  /\ activity = "completed" => pc = "idle"
  /\ OnGrid(elapsed)
  /\ pc \in {"fetch", "status", "pause"} => elapsed < Budget
  /\ pc = "upload" => elapsed = 0 /\ ~extraction /\ ~seen.error
  /\ pc = "pause" => seen.status = "running"
  /\ pc = "final" => seen.status = "other" \/ (seen.status = "running" /\ elapsed = Budget)

\* What has been asked of the backend, by the call under way and by none.
Asked ==
  /\ \A c \in Calls : c > call => answers[c] = NoAnswer /\ jobs[c] = NoJob
  /\ pc # "idle" => answers[call] = NoAnswer
  /\ pc \in {"upload", "request"} => jobs[call] = NoJob
  /\ pc \in Polling => jobs[call].status # "none" /\ (extraction => ready[call])
  /\ pc \in Polling /\ seen.error => jobs[call].error

\* The session's file names the last job whose id could be written.
Recorded ==
  /\ ~unwritten =>
       \A c \in Calls : answers[c].kind \in {"completed", "partial"} \/ (c = call /\ pc \in Polling)
                        => c <= file
  /\ shown.ended => activity = "completed" /\ reading # "off"
  /\ reading = "done" /\ shown.ended => shown.job = file

\* The time the call under way may still take.
Left == CASE pc = "idle"                   -> 0
          [] pc \in {"upload", "request"} -> Longest
          [] pc \in {"fetch", "status"}   ->
               Budget - elapsed + (Polls - PollsAt(elapsed) + 1) * Latency
          [] pc = "pause"                  ->
               Budget - elapsed + (Polls - PollsAt(elapsed)) * Latency
          [] pc = "final"                  -> Latency

InTime == /\ spent + Left <= call * Longest
          /\ activity = "expired" => limit <= call * Longest

IInv == /\ TypeOK
        /\ Position
        /\ Asked
        /\ AnswersAreHonest
        /\ Recorded
        /\ InTime
=============================================================================
