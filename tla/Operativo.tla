------------------------------ MODULE Operativo ------------------------------
(***************************************************************************)
(* What an operativo promises its caller, whatever workflow carries it     *)
(* out: it walks the phases of core/operativo.py in order, it is told to   *)
(* the callback endpoint only once its result exists, and it ends in       *)
(* exactly one terminal status and then never changes.                     *)
(***************************************************************************)
EXTENDS Naturals

VARIABLES phase,     \* the Phase the operativo is in
          status,    \* its OperativoStatus
          notified   \* the caller's endpoint has been sent the result

vars == <<phase, status, notified>>

Phase == 0..6
INTAKE == 0
PLAN == 1
INVESTIGATE == 2
EXECUTE == 3
QA == 4
SYNTHESIZE == 5
POST_JOB == 6

OperativoStatus == {"PENDING", "RUNNING", "COMPLETED", "FAILED", "NEEDS_REVIEW"}

IsTerminal(s) == s \in {"COMPLETED", "FAILED", "NEEDS_REVIEW"}

TypeOK == /\ phase \in Phase
          /\ status \in OperativoStatus
          /\ notified \in BOOLEAN

Init == /\ phase = INTAKE
        /\ status = "PENDING"
        /\ notified = FALSE

\* The gateway hands the operativo to a workflow, which begins by planning.
Begin == /\ status = "PENDING"
         /\ status' = "RUNNING"
         /\ phase' = PLAN
         /\ UNCHANGED notified

\* The next phase begins. No phase is skipped and none is repeated.
Advance == /\ status = "RUNNING"
           /\ phase < POST_JOB
           /\ phase' = phase + 1
           /\ UNCHANGED <<status, notified>>

\* Investigation ends the operativo at once when the document is suspicious.
Halt == /\ status = "RUNNING"
        /\ phase = INVESTIGATE
        /\ status' = "NEEDS_REVIEW"
        /\ UNCHANGED <<phase, notified>>

\* The result is sent to the caller's endpoint. The post may reach it after
\* the operativo has ended: a delivery that timed out keeps running.
Notify == /\ phase \in {SYNTHESIZE, POST_JOB}
          /\ notified' = TRUE
          /\ UNCHANGED <<phase, status>>

\* A synthesized result is delivered, with or without the review flag.
Deliver == /\ status = "RUNNING"
           /\ phase \in {SYNTHESIZE, POST_JOB}
           /\ status' \in {"COMPLETED", "NEEDS_REVIEW"}
           /\ UNCHANGED <<phase, notified>>

Fail == /\ status = "RUNNING"
        /\ status' = "FAILED"
        /\ UNCHANGED <<phase, notified>>

Next == Begin \/ Advance \/ Halt \/ Notify \/ Deliver \/ Fail

Spec == Init /\ [][Next]_vars
=============================================================================
