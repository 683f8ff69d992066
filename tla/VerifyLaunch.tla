---------------------------- MODULE VerifyLaunch ----------------------------
(***************************************************************************)
(* How a Co-work Verify job is launched, once, and how its output is kept. *)
(* The job is a row of cowork_verify_jobs; its launch is an internal       *)
(* operation record on the retry queue, which the sidecar's one dispatch   *)
(* thread reconciles and sweeps; the worker is a detached agent process    *)
(* that reads and submits the job through the gateway.                     *)
(*                                                                         *)
(* update_job reads the row, checks the transition and the fence, and then *)
(* updates by job_id alone, with no transaction around the two: each of    *)
(* its callers has a step that reads and a step that writes.               *)
(***************************************************************************)
EXTENDS Naturals

CONSTANTS
    MaxAttempts,    \* max_attempts of the internal operation
    MaxFaults       \* deaths of the sidecar and exceptions, at most

ASSUME LaunchAssumption == MaxAttempts \in Nat \ {0} /\ MaxFaults \in Nat

VARIABLES
    job,        \* the row of cowork_verify_jobs
    record,     \* the operation record; status "none" until it is enqueued
    pc,         \* the step of the sidecar's dispatch thread and of the worker
    then,       \* where the sidecar goes on after marking the job
    goal,       \* the status update_job is about to write for each of them
    expired,    \* the model-call authorization has expired
    spawned,    \* workers started
    faults

jobVars == <<job, record, pc, then, goal, expired, spawned, faults>>

Actors == {"sidecar", "worker"}
Final == {"completed", "unavailable", "failed"}
Settled == Final \union {"submitted"}
Statuses == Settled \union {"prepared", "launching", "running"}
Leases == {"none", "live", "lapsed"}

SidecarSteps == {"idle", "sweep", "dispatch", "mark", "marking", "claim", "spawn",
                 "receipt", "receipted", "report", "error", "settle", "exhaust"}
WorkerSteps == {"none", "working", "writing", "exited"}
ProjectSteps == {"project", "projecting", "finish"}

JobTypeOK ==
    /\ job \in [status : Statuses, lease : Leases, output : BOOLEAN,
                owner : Actors \union {"nobody"}, projection : Leases]
    /\ record \in [status : {"none", "failed", "running", "completed"}, queued : BOOLEAN,
                   attempt : Nat, due : BOOLEAN, lease : Leases]
    /\ pc \in [Actors -> SidecarSteps \union WorkerSteps \union ProjectSteps]
    /\ pc["sidecar"] \notin WorkerSteps /\ pc["worker"] \notin SidecarSteps
    /\ then \in SidecarSteps
    /\ goal \in [Actors -> Statuses]
    /\ expired \in BOOLEAN
    /\ spawned \in Nat /\ faults \in 0 .. MaxFaults

-----------------------------------------------------------------------------
JobInit ==
    /\ job = [status |-> "prepared", lease |-> "none", output |-> FALSE,
              owner |-> "nobody", projection |-> "none"]
    /\ record = [status |-> "none", queued |-> FALSE, attempt |-> 0, due |-> FALSE,
                 lease |-> "none"]
    /\ pc = [a \in Actors |-> IF a = "sidecar" THEN "idle" ELSE "none"]
    /\ then = "idle"
    /\ goal = [a \in Actors |-> "prepared"]
    /\ expired = FALSE
    /\ spawned = 0 /\ faults = 0

Goto(a, step) == pc' = [pc EXCEPT ![a] = step]

\* The UPDATE of update_job; whatever the row holds by now is overwritten.
Written(status) ==
    [job EXCEPT !.status = status,
                !.lease = IF status = "launching" THEN @ ELSE "none",
                !.owner = IF status = "submitted" THEN @ ELSE "nobody",
                !.projection = IF status = "submitted" THEN @ ELSE "none"]

\* enqueue_internal_operation: an existing record is left as it is.
Enqueued ==
    IF record.status # "none" THEN record
    ELSE [record EXCEPT !.status = "failed", !.queued = TRUE, !.due = TRUE]

\* The process that prepared the job enqueues its launch, or dies before.
LaunchJob ==
    /\ record' = Enqueued
    /\ record.status = "none"
    /\ UNCHANGED <<job, pc, then, goal, expired, spawned, faults>>

-----------------------------------------------------------------------------
(* _mark_unavailable: a settled job is left alone, any other is marked.    *)

Mark(next) == Goto("sidecar", "mark") /\ then' = next

MarkRead ==
    /\ pc["sidecar"] = "mark"
    /\ Goto("sidecar", IF job.status \in Settled THEN then ELSE "marking")
    /\ UNCHANGED <<job, record, then, goal, expired, spawned, faults>>

\* Mutant: a launch of unknown outcome is prepared again.
MarkPrepared ==
    /\ pc["sidecar"] = "marking"
    /\ job' = Written(IF job.status = "launching" THEN "prepared" ELSE "unavailable")
    /\ Goto("sidecar", then)
    /\ UNCHANGED <<record, then, goal, expired, spawned, faults>>

MarkWrite ==
    /\ pc["sidecar"] = "marking"
    /\ job' = Written("unavailable")
    /\ Goto("sidecar", then)
    /\ UNCHANGED <<record, then, goal, expired, spawned, faults>>

-----------------------------------------------------------------------------
(* reconcile_verify_launches, before each sweep.                           *)

\* Mutant: a worker that ended without submitting is not looked for.
AbandonedLaunch ==
    \/ job.status = "prepared" /\ expired
    \/ job.status = "launching" /\ job.lease # "live"

Abandoned ==
    \/ job.status = "prepared" /\ expired
    \/ job.status = "launching" /\ job.lease # "live"
    \/ job.status = "running" /\ pc["worker"] = "exited"

Reconcile ==
    /\ pc["sidecar"] = "idle"
    /\ \/ /\ Abandoned
          /\ Mark("sweep")
          /\ UNCHANGED record
       \/ /\ ~Abandoned
          /\ record' = IF job.status = "prepared" THEN Enqueued ELSE record
          /\ Goto("sidecar", IF job.status = "submitted" THEN "project" ELSE "sweep")
          /\ UNCHANGED then
    /\ UNCHANGED <<job, goal, expired, spawned, faults>>

-----------------------------------------------------------------------------
(* RetrySweep over the internal record: claim, dispatch, and the outcome.  *)

\* _is_ready for type "internal": a running record is recovered, at any age
\* and after any number of attempts, once its lease has lapsed.
LaunchReady ==
    /\ record.queued
    /\ record.status = "running" \/ (record.status = "failed" /\ record.attempt < MaxAttempts)
    /\ record.due
    /\ record.lease # "live"

Sweep ==
    /\ pc["sidecar"] = "sweep"
    /\ IF LaunchReady
       THEN /\ record' = [record EXCEPT !.status = "running", !.lease = "live",
                                  !.attempt = @ + 1]
            /\ Goto("sidecar", "dispatch")
       ELSE Goto("sidecar", "idle") /\ UNCHANGED record
    /\ UNCHANGED <<job, then, goal, expired, spawned, faults>>

\* dispatch_verify_launch, up to the claim of the job
Dispatch ==
    LET done == job.status \in Settled
                  \/ (job.status = "running" /\ pc["worker"] # "exited")
        dead == job.status = "running" \/ expired
                  \/ (record.lease = "live" /\ job.status = "launching" /\ job.lease # "live")
    IN /\ pc["sidecar"] = "dispatch"
       /\ \/ done /\ Goto("sidecar", "report") /\ UNCHANGED then
          \/ ~done /\ dead /\ Mark("report")
          \/ /\ ~done /\ ~dead
             /\ Goto("sidecar", IF record.lease = "live" /\ job.status = "prepared"
                                THEN "claim" ELSE "error")
             /\ UNCHANGED then
       /\ UNCHANGED <<job, record, goal, expired, spawned, faults>>

\* Mutant: a claim that was refused is reported as done.
ClaimOrReport ==
    /\ pc["sidecar"] = "claim"
    /\ IF job.status = "prepared" /\ record.lease = "live"
       THEN /\ job' = [job EXCEPT !.status = "launching", !.lease = "live"]
            /\ Goto("sidecar", "spawn")
       ELSE Goto("sidecar", "report") /\ UNCHANGED job
    /\ UNCHANGED <<record, then, goal, expired, spawned, faults>>

\* claim_job_launch: one UPDATE ... WHERE status = 'prepared'; a lease that has
\* lapsed by now is refused
ClaimLaunch ==
    /\ pc["sidecar"] = "claim"
    /\ IF job.status = "prepared" /\ record.lease = "live"
       THEN /\ job' = [job EXCEPT !.status = "launching", !.lease = "live"]
            /\ Goto("sidecar", "spawn")
       ELSE Goto("sidecar", "error") /\ UNCHANGED job
    /\ UNCHANGED <<record, then, goal, expired, spawned, faults>>

\* spawn_verify_job: a receipt, a refusal, or an exception after the process may
\* have started
Spawn ==
    /\ pc["sidecar"] = "spawn"
    /\ \E started, receipt \in BOOLEAN :
         /\ receipt => started
         /\ spawned' = spawned + (IF started THEN 1 ELSE 0)
         /\ pc' = [pc EXCEPT !["sidecar"] = IF receipt THEN "receipt" ELSE "mark",
                             !["worker"] = IF started THEN "working" ELSE @]
         /\ then' = IF receipt THEN then ELSE "report"
    /\ UNCHANGED <<job, record, goal, expired, faults>>

\* The worker may have submitted first: then its status is kept.
ReceiptRead ==
    /\ pc["sidecar"] = "receipt"
    /\ goal' = [goal EXCEPT !["sidecar"] =
                  IF job.status \in {"prepared", "launching"} THEN "running" ELSE job.status]
    /\ Goto("sidecar", "receipted")
    /\ UNCHANGED <<job, record, then, expired, spawned, faults>>

ReceiptWrite ==
    /\ pc["sidecar"] = "receipted"
    /\ job' = Written(goal["sidecar"])
    /\ Goto("sidecar", "report")
    /\ UNCHANGED <<record, then, goal, expired, spawned, faults>>

\* The handler returned: the record is completed and leaves the queue.
ReportDone ==
    /\ pc["sidecar"] = "report"
    /\ record' = [record EXCEPT !.status = "completed", !.lease = "none", !.queued = FALSE]
    /\ Goto("sidecar", "idle")
    /\ UNCHANGED <<job, then, goal, expired, spawned, faults>>

\* The handler raised: the record is failed, then rescheduled or exhausted.
ReportError ==
    /\ pc["sidecar"] = "error"
    /\ record' = [record EXCEPT !.status = "failed", !.lease = "none"]
    /\ Goto("sidecar", "settle")
    /\ UNCHANGED <<job, then, goal, expired, spawned, faults>>

RescheduleLaunch ==
    /\ pc["sidecar"] = "settle"
    /\ record.attempt < MaxAttempts
    /\ record' = [record EXCEPT !.due = FALSE]
    /\ Goto("sidecar", "idle")
    /\ UNCHANGED <<job, then, goal, expired, spawned, faults>>

\* exhaust_verify_launch marks a job that was not launched, or fails at it
\* unnoticed, and only then does the record leave the queue.
ExhaustJob ==
    /\ pc["sidecar"] = "settle"
    /\ record.attempt >= MaxAttempts
    /\ \/ job.status \in {"prepared", "launching"} /\ Mark("exhaust")
       \/ job.status \notin {"prepared", "launching"} /\ Goto("sidecar", "exhaust")
                                                      /\ UNCHANGED then
    /\ UNCHANGED <<job, record, goal, expired, spawned, faults>>

ExhaustRecord ==
    /\ pc["sidecar"] = "exhaust"
    /\ record' = [record EXCEPT !.queued = FALSE]
    /\ Goto("sidecar", "idle")
    /\ UNCHANGED <<job, then, goal, expired, spawned, faults>>

\* An exception of the handler is the operation's error.
HandlerRaises ==
    /\ pc["sidecar"] \in {"dispatch", "claim", "spawn", "receipt", "receipted"}
         \/ (pc["sidecar"] \in {"mark", "marking"} /\ then = "report")
    /\ faults < MaxFaults
    /\ faults' = faults + 1
    /\ Goto("sidecar", "error")
    /\ UNCHANGED <<job, record, then, goal, expired, spawned>>

\* One of the reconciliation or of the exhaustion hook is logged and passed over.
HookRaises ==
    /\ pc["sidecar"] \in {"mark", "marking"} /\ then # "report"
    /\ faults < MaxFaults
    /\ faults' = faults + 1
    /\ Goto("sidecar", then)
    /\ UNCHANGED <<job, record, then, goal, expired, spawned>>

SidecarDies ==
    /\ pc["sidecar"] # "idle"
    /\ faults < MaxFaults
    /\ faults' = faults + 1
    /\ Goto("sidecar", "idle")
    /\ UNCHANGED <<job, record, then, goal, expired, spawned>>

-----------------------------------------------------------------------------
(* The worker: get_worker_job and submit_worker_job.                       *)

\* An expired authorization or a changed context ends the job; a typed output
\* is submitted.
WorkerRead ==
    /\ pc["worker"] = "working"
    /\ job.status \in {"prepared", "launching", "running"}
    /\ \E status \in {"submitted", "failed"} \union (IF expired THEN {"unavailable"} ELSE {}) :
         goal' = [goal EXCEPT !["worker"] = status]
    /\ Goto("worker", "writing")
    /\ UNCHANGED <<job, record, then, expired, spawned, faults>>

WorkerWrite ==
    /\ pc["worker"] = "writing"
    /\ job' = [Written(goal["worker"]) EXCEPT !.output = @ \/ goal["worker"] = "submitted"]
    /\ Goto("worker", IF goal["worker"] = "submitted" THEN "project" ELSE "exited")
    /\ UNCHANGED <<record, then, goal, expired, spawned, faults>>

WorkerExits ==
    /\ pc["worker"] \notin {"none", "exited"}
    /\ Goto("worker", "exited")
    /\ UNCHANGED <<job, record, then, goal, expired, spawned, faults>>

-----------------------------------------------------------------------------
(* _claim_and_project_submission, by the worker's submit or the reconciler. *)

After(a) == IF a = "sidecar" THEN "sweep" ELSE "exited"

\* claim_job_projection, in one transaction
ClaimProjection(a) ==
    /\ pc[a] = "project"
    /\ IF job.status = "submitted" /\ job.projection # "live"
       THEN /\ job' = [job EXCEPT !.owner = a, !.projection = "live"]
            /\ Goto(a, "projecting")
       ELSE Goto(a, After(a)) /\ UNCHANGED job
    /\ UNCHANGED <<record, then, goal, expired, spawned, faults>>

\* The consequences are appended, or that fails; update_job reads under the fence.
FinishRead(a) ==
    /\ pc[a] = "projecting"
    /\ \E status \in {"completed", "failed"} :
         IF job.owner = a /\ job.status = "submitted"
         THEN goal' = [goal EXCEPT ![a] = status] /\ Goto(a, "finish")
         ELSE Goto(a, After(a)) /\ UNCHANGED goal
    /\ UNCHANGED <<job, record, then, expired, spawned, faults>>

FinishWrite(a) ==
    /\ pc[a] = "finish"
    /\ job' = Written(goal[a])
    /\ Goto(a, After(a))
    /\ UNCHANGED <<record, then, goal, expired, spawned, faults>>

-----------------------------------------------------------------------------
(* Time.                                                                   *)

Expire == ~expired /\ expired' = TRUE
            /\ UNCHANGED <<job, record, pc, then, goal, spawned, faults>>
LaunchFallsDue ==
    /\ record.queued /\ ~record.due
    /\ record' = [record EXCEPT !.due = TRUE]
    /\ UNCHANGED <<job, pc, then, goal, expired, spawned, faults>>
\* The launch lease of the job is the lease of the record that claimed it.
LaunchLeaseLapses ==
    /\ record.lease = "live" \/ job.lease = "live"
    /\ record' = [record EXCEPT !.lease = IF @ = "live" THEN "lapsed" ELSE @]
    /\ job' = [job EXCEPT !.lease = IF @ = "live" THEN "lapsed" ELSE @]
    /\ UNCHANGED <<pc, then, goal, expired, spawned, faults>>
ProjectionLapses ==
    /\ job.projection = "live"
    /\ job' = [job EXCEPT !.projection = "lapsed"]
    /\ UNCHANGED <<record, pc, then, goal, expired, spawned, faults>>

-----------------------------------------------------------------------------
Project(a) == ClaimProjection(a) \/ FinishRead(a) \/ FinishWrite(a)

SidecarStep ==
    \/ Reconcile \/ MarkRead \/ MarkWrite
    \/ Sweep \/ Dispatch \/ ClaimLaunch \/ Spawn \/ ReceiptRead \/ ReceiptWrite
    \/ ReportDone \/ ReportError \/ RescheduleLaunch \/ ExhaustJob \/ ExhaustRecord
    \/ Project("sidecar")

Faults == HandlerRaises \/ HookRaises \/ SidecarDies

JobTime == Expire \/ LaunchFallsDue \/ LaunchLeaseLapses \/ ProjectionLapses

JobNext ==
    \/ LaunchJob
    \/ SidecarStep
    \/ Faults
    \/ WorkerRead \/ WorkerWrite \/ WorkerExits \/ Project("worker")
    \/ JobTime

JobSpec == JobInit /\ [][JobNext]_jobVars

\* The dispatch thread goes on, an agent process ends, and clocks move.
FairJobSpec ==
    /\ JobSpec
    /\ WF_jobVars(SidecarStep)
    /\ WF_jobVars(WorkerExits)
    /\ WF_jobVars(Expire) /\ WF_jobVars(LaunchLeaseLapses) /\ WF_jobVars(ProjectionLapses)

-----------------------------------------------------------------------------
(* Properties.                                                             *)

\* A job is spawned at most once, however often its launch is dispatched again.
SpawnedOnce == spawned <= 1

\* A launch whose record left the queue as completed is not waiting for one: a
\* job still prepared would wait for a queue record that is never created anew.
NoStrandedJob == record.status = "completed" => job.status # "prepared"

\* Every job ends: launched and ended, or marked, or its output projected.
JobSettles == (job.status \notin Final) ~> (job.status \in Final)
=============================================================================
