--------------------------- MODULE OperationQueue ---------------------------
(***************************************************************************)
(* One operation record (agents/operations/op_*.json) and everybody who    *)
(* writes it: the gateway that dispatched the skill, agents that call the  *)
(* `retry` skill, the sidecar's RetrySweep, and the gateway's pruning.     *)
(*                                                                         *)
(* The sweep claims a record under a lock file; no other writer takes that *)
(* lock.  Each reads the file, works, and writes the whole record back.    *)
(* Records of different operations never meet, so one is modelled.         *)
(***************************************************************************)
EXTENDS Naturals

CONSTANTS
    Retriers,       \* the calls of the `retry` skill agents will make
    MaxRetries      \* sidecar.retry_queue.max_retries of the gateway

ASSUME BoundAssumption == MaxRetries \in Nat \ {0}

VARIABLES
    rec,        \* the record on disk, or Gone once pruned
    aged,       \* created_at is older than max_retry_age_minutes
    landed,     \* a write of the skill has reached the vault, in whole or in part
    late,       \* writes the Obsidian plugin still holds
    standing,   \* history: the attempts whose failure is not on record
    caller,     \* the original dispatch and the `retry` calls
    sweep,      \* the sweep: its step, its outcome and its copy of the record
    pruning,    \* the pruning loop has read the record and is about to unlink
    told        \* the messages sent to the agent session

vars == <<rec, aged, landed, late, standing, caller, sweep, pruning, told>>

Gone == [status |-> "gone"]
Callers == {"dispatch"} \union Retriers
Attempts == Callers \union {"sweep"}
Outcomes == {"ok", "transient", "permanent", "uncertain"}

Record == [status : {"running", "failed", "completed", "cancelled"},
           queued : BOOLEAN,
           attempt : Nat,
           max : Nat,
           lease : {"none", "live", "lapsed"},
           due : BOOLEAN,
           carrier : BOOLEAN,
           settled : BOOLEAN]

Verdicts == {"success", "exhausted"}

TypeOK ==
    /\ rec \in Record \union {Gone}
    /\ aged \in BOOLEAN /\ landed \in BOOLEAN /\ pruning \in BOOLEAN
    /\ late \in Nat /\ standing \subseteq Attempts
    /\ caller \in [Callers -> [pc : {"idle", "claiming", "calling", "reporting",
                                     "enqueueing", "done"},
                               outcome : Outcomes \union {"none"},
                               copy : Record \union {Gone}]]
    /\ sweep \in [pc : {"idle", "claiming", "retiring", "replaying", "reporting",
                        "failed"} \union Verdicts,
                  outcome : Outcomes \union {"none"},
                  copy : Record \union {Gone}]
    /\ told \in [Verdicts -> Nat]

-----------------------------------------------------------------------------
(* What each writer makes of a record.                                     *)

\* _save_operation: the record wb_run writes before it dispatches
Saved == [status |-> "running", queued |-> FALSE, attempt |-> 1, max |-> MaxRetries,
          lease |-> "live", due |-> FALSE, carrier |-> FALSE, settled |-> FALSE]

\* llm_submit: a record that is born queued, due, with a single attempt
Submitted == [Saved EXCEPT !.status = "failed", !.queued = TRUE, !.attempt = 0,
                           !.max = 1, !.lease = "none", !.due = TRUE]

\* _complete_operation; it leaves the queue fields as they are
Complete(r, ok) ==
    [r EXCEPT !.status = IF ok THEN "completed" ELSE "failed",
              !.lease = "none", !.settled = TRUE]

\* _enqueue_for_retry, with the carrier of an uncertain write
Enqueue(r, uncertain) ==
    [r EXCEPT !.status = "failed", !.lease = "none", !.settled = TRUE,
              !.queued = TRUE, !.due = FALSE, !.max = MaxRetries,
              !.carrier = @ \/ uncertain]

\* _claim_ready, and the claim `retry` makes
Claim(r) ==
    [r EXCEPT !.status = "running", !.lease = "live", !.attempt = @ + 1]

\* _retire_expired
Retire(r) ==
    [r EXCEPT !.queued = FALSE, !.status = "failed", !.lease = "none",
              !.settled = TRUE]

\* _on_suppressed
Cancel(r) ==
    [r EXCEPT !.queued = FALSE, !.status = "cancelled", !.lease = "none",
              !.settled = TRUE]

\* Mutant: only a failed record ages out, not one abandoned while running.
ExpiredIfFailed(r) ==
    r # Gone /\ r.queued /\ r.status = "failed" /\ r.lease # "live" /\ aged

\* _is_expired
Expired(r) ==
    /\ r # Gone
    /\ r.queued
    /\ r.status \in {"failed", "running"}
    /\ r.lease # "live"
    /\ aged

\* Mutant: a replay whose lease has lapsed is taken up again.
ReadyOrAbandoned(r) ==
    /\ r # Gone /\ r.queued /\ r.status \in {"failed", "running"}
    /\ r.due /\ r.attempt < r.max /\ r.lease # "live" /\ ~aged

\* _is_ready, for a record the skill registry replays
Ready(r) ==
    /\ r # Gone
    /\ r.queued
    /\ r.status = "failed"
    /\ r.due
    /\ r.attempt < r.max
    /\ r.lease # "live"
    /\ ~aged

-----------------------------------------------------------------------------
Idle == [pc |-> "idle", outcome |-> "none", copy |-> Gone]

Init ==
    /\ \/ /\ rec = Saved /\ standing = {"dispatch"}
          /\ caller = [c \in Callers |->
                         IF c = "dispatch" THEN [Idle EXCEPT !.pc = "calling"] ELSE Idle]
       \/ /\ rec = Submitted /\ standing = {}
          /\ caller = [c \in Callers |->
                         IF c = "dispatch" THEN [Idle EXCEPT !.pc = "done"] ELSE Idle]
    /\ aged = FALSE /\ landed = FALSE /\ pruning = FALSE
    /\ late = 0
    /\ sweep = Idle
    /\ told = [v \in Verdicts |-> 0]

-----------------------------------------------------------------------------
(* The skill itself.  A call that came back with an error may have written  *)
(* all the same: one of two effects, or an effect its result could not      *)
(* verify.  An uncertain call timed out after it sent the write: the plugin *)
(* has applied it already, or will, or never does.                          *)

Run(outcome) ==
    \/ landed' = TRUE /\ UNCHANGED late
    \/ outcome # "ok" /\ UNCHANGED <<landed, late>>
    \/ outcome = "uncertain" /\ late' = late + 1 /\ UNCHANGED landed

\* verify_post_write: it confirms only what has landed, and may fail to
Verified == landed

LateCommit ==
    /\ late > 0
    /\ late' = late - 1
    /\ landed' = TRUE
    /\ UNCHANGED <<rec, aged, standing, caller, sweep, pruning, told>>

-----------------------------------------------------------------------------
(* The gateway: the original dispatch, and each `retry` call.              *)

Move(c, pc) == caller' = [caller EXCEPT ![c] = [Idle EXCEPT !.pc = pc]]

\* retry_operation reads the record and checks it: not completed, no live lease
RetryLoad(c) ==
    /\ caller[c].pc = "idle"
    /\ IF rec = Gone \/ rec.status = "completed" \/ rec.lease = "live"
       THEN Move(c, "done")
       ELSE caller' = [caller EXCEPT ![c].pc = "claiming", ![c].copy = rec]
    /\ UNCHANGED <<rec, aged, landed, late, standing, sweep, pruning, told>>

\* ... and writes its own copy back as claimed
RetryClaim(c) ==
    /\ caller[c].pc = "claiming"
    /\ rec' = Claim(caller[c].copy)
    /\ Move(c, "calling")
    /\ standing' = standing \union {c}
    /\ UNCHANGED <<aged, landed, late, sweep, pruning, told>>

CallSkill(c, outcome) ==
    /\ caller[c].pc = "calling"
    /\ caller' = [caller EXCEPT ![c].pc = "reporting", ![c].outcome = outcome]
    /\ Run(outcome)
    /\ UNCHANGED <<rec, aged, standing, sweep, pruning, told>>

\* Mutant: an uncertain write is queued although it was verified.
ReportAndEnqueue(c) ==
    LET outcome == caller[c].outcome IN
    /\ caller[c].pc = "reporting"
    /\ \E ok \in {outcome = "ok", Verified} :
         /\ rec' = IF rec = Gone THEN Gone ELSE Complete(rec, ok)
         /\ standing' = IF ok \/ rec = Gone THEN standing ELSE standing \ {c}
    /\ IF outcome \in {"ok", "permanent"} THEN Move(c, "done")
       ELSE caller' = [caller EXCEPT ![c].pc = "enqueueing"]
    /\ UNCHANGED <<aged, landed, late, sweep, pruning, told>>

\* The outcome is written; a transient or unverified one is queued afterwards.
Report(c) ==
    LET outcome == caller[c].outcome IN
    /\ caller[c].pc = "reporting"
    /\ \E ok \in BOOLEAN :
         /\ outcome # "uncertain" => (ok <=> outcome = "ok")
         /\ outcome = "uncertain" => (ok => Verified)
         /\ rec' = IF rec = Gone THEN Gone ELSE Complete(rec, ok)
         /\ standing' = IF ok \/ rec = Gone THEN standing ELSE standing \ {c}
         /\ IF ok \/ outcome = "permanent" THEN Move(c, "done")
            ELSE caller' = [caller EXCEPT ![c].pc = "enqueueing"]
    /\ UNCHANGED <<aged, landed, late, sweep, pruning, told>>

EnqueueForRetry(c) ==
    /\ caller[c].pc = "enqueueing"
    /\ rec' = IF rec = Gone THEN Gone ELSE Enqueue(rec, caller[c].outcome = "uncertain")
    /\ Move(c, "done")
    /\ UNCHANGED <<aged, landed, late, standing, sweep, pruning, told>>

\* The gateway process dies, or the caller's thread with it.
CallerDies(c) ==
    /\ caller[c].pc \notin {"idle", "done"}
    /\ Move(c, "done")
    /\ UNCHANGED <<rec, aged, landed, late, standing, sweep, pruning, told>>

-----------------------------------------------------------------------------
(* RetrySweep.sweep.  Its copy of the record is what it writes back.       *)

SweepRead ==
    /\ sweep.pc = "idle"
    /\ \/ /\ Expired(rec)
          /\ sweep' = [Idle EXCEPT !.pc = "retiring", !.copy = rec]
       \/ /\ Ready(rec)
          /\ sweep' = [Idle EXCEPT !.pc = "claiming", !.copy = rec]
    /\ UNCHANGED <<rec, aged, landed, late, standing, caller, pruning, told>>

SweepRetire ==
    /\ sweep.pc = "retiring"
    /\ rec' = Retire(sweep.copy)
    /\ sweep' = Idle
    /\ UNCHANGED <<aged, landed, late, standing, caller, pruning, told>>

SweepClaim ==
    /\ sweep.pc = "claiming"
    /\ rec' = Claim(sweep.copy)
    /\ sweep' = [sweep EXCEPT !.pc = "replaying", !.copy = Claim(sweep.copy)]
    /\ standing' = standing \union {"sweep"}
    /\ UNCHANGED <<aged, landed, late, caller, pruning, told>>

\* The feature was opted out: the record is retired as cancelled.
SweepSuppress ==
    /\ sweep.pc = "replaying"
    /\ rec' = Cancel(sweep.copy)
    /\ sweep' = Idle
    /\ UNCHANGED <<aged, landed, late, standing, caller, pruning, told>>

\* An error and no call: there is no entry in the registry, or, once the carrier
\* has been taken off, task mutations are fenced.
SweepRefuse ==
    /\ sweep.pc = "replaying"
    /\ \E kept \in {sweep.copy.carrier, FALSE} :
         sweep' = [sweep EXCEPT !.pc = "failed", !.copy.carrier = kept]
    /\ UNCHANGED <<rec, aged, landed, late, standing, caller, pruning, told>>

\* _pre_verify_pwu finds the write in the vault: _replay returns a success,
\* and returns before the code that writes the record.
SweepPreVerify ==
    /\ sweep.pc = "replaying"
    /\ sweep.copy.carrier
    /\ Verified
    /\ sweep' = [Idle EXCEPT !.pc = "success"]
    /\ UNCHANGED <<rec, aged, landed, late, standing, caller, pruning, told>>

SweepCall(outcome) ==
    /\ sweep.pc = "replaying"
    /\ sweep' = [sweep EXCEPT !.pc = "reporting", !.outcome = outcome,
                              !.copy.carrier = FALSE]
    /\ Run(outcome)
    /\ UNCHANGED <<rec, aged, standing, caller, pruning, told>>

\* A success is written and announced; an error returned in the result, a partial
\* verification and an uncertain write of a native task are not written yet; any
\* other error that was raised is, with the carrier of an uncertain write.
SweepReport ==
    LET uncertain == sweep.outcome = "uncertain"
        done == [Complete(sweep.copy, TRUE) EXCEPT !.queued = FALSE]
        raised == [sweep.copy EXCEPT !.status = "failed", !.lease = "none",
                                     !.carrier = uncertain]
    IN /\ sweep.pc = "reporting"
       /\ \/ /\ sweep.outcome = "ok" \/ (uncertain /\ Verified)
             /\ rec' = done
             /\ sweep' = [Idle EXCEPT !.pc = "success"]
             /\ UNCHANGED standing
          \/ /\ sweep.outcome # "ok"
             /\ rec' = raised
             /\ standing' = standing \ {"sweep"}
             /\ sweep' = [Idle EXCEPT !.pc = "failed", !.copy = raised]
          \/ /\ sweep.outcome # "ok"
             /\ sweep' = [sweep EXCEPT !.pc = "failed", !.outcome = "none"]
             /\ UNCHANGED <<rec, standing>>
    /\ UNCHANGED <<aged, landed, late, caller, pruning, told>>

\* _schedule_next
ScheduleNext ==
    LET next == [sweep.copy EXCEPT !.status = "failed", !.lease = "none",
                                   !.due = FALSE]
    IN /\ sweep.pc = "failed"
       /\ sweep.copy.attempt < sweep.copy.max
       /\ rec' = next
       /\ standing' = standing \ {"sweep"}
       /\ sweep' = Idle
       /\ UNCHANGED <<aged, landed, late, caller, pruning, told>>

\* Mutant: the last failure is announced, and the record is left in the queue.
ExhaustInQueue ==
    /\ sweep.pc = "failed"
    /\ sweep.copy.attempt >= sweep.copy.max
    /\ rec' = [sweep.copy EXCEPT !.status = "failed", !.lease = "none"]
    /\ standing' = standing \ {"sweep"}
    /\ sweep' = [Idle EXCEPT !.pc = "exhausted"]
    /\ UNCHANGED <<aged, landed, late, caller, pruning, told>>

\* _on_exhausted, up to its message
Exhaust ==
    /\ sweep.pc = "failed"
    /\ sweep.copy.attempt >= sweep.copy.max
    /\ rec' = [sweep.copy EXCEPT !.status = "failed", !.lease = "none",
                                 !.queued = FALSE]
    /\ standing' = standing \ {"sweep"}
    /\ sweep' = [Idle EXCEPT !.pc = "exhausted"]
    /\ UNCHANGED <<aged, landed, late, caller, pruning, told>>

\* The message of _on_success or _on_exhausted to the agent session.
Tell ==
    /\ sweep.pc \in Verdicts
    /\ told' = [told EXCEPT ![sweep.pc] = @ + 1]
    /\ sweep' = Idle
    /\ UNCHANGED <<rec, aged, landed, late, standing, caller, pruning>>

\* The sidecar dies, or an exception ends this sweep; the next one starts anew.
SweepDies ==
    /\ sweep.pc # "idle"
    /\ sweep' = Idle
    /\ UNCHANGED <<rec, aged, landed, late, standing, caller, pruning, told>>

-----------------------------------------------------------------------------
(* _prune_old_operations reads a record and unlinks it; and time passes.   *)

PruneRead ==
    /\ ~pruning
    /\ rec # Gone
    /\ ~rec.queued
    /\ rec.status \in {"completed", "failed"}
    /\ rec.settled       \* and an hour ago, which may be any later moment
    /\ pruning' = TRUE
    /\ UNCHANGED <<rec, aged, landed, late, standing, caller, sweep, told>>

PruneUnlink ==
    /\ pruning
    /\ pruning' = FALSE
    /\ rec' = Gone
    /\ UNCHANGED <<aged, landed, late, standing, caller, sweep, told>>

Elapse(r) ==
    /\ rec # Gone
    /\ rec' = r
    /\ UNCHANGED <<aged, landed, late, standing, caller, sweep, pruning, told>>

RetryFallsDue == rec # Gone /\ rec.queued /\ ~rec.due /\ Elapse([rec EXCEPT !.due = TRUE])
LeaseLapses == rec # Gone /\ rec.lease = "live" /\ Elapse([rec EXCEPT !.lease = "lapsed"])

Ages ==
    /\ ~aged
    /\ aged' = TRUE
    /\ UNCHANGED <<rec, landed, late, standing, caller, sweep, pruning, told>>

-----------------------------------------------------------------------------
CallerNext(c) ==
    \/ RetryLoad(c)
    \/ RetryClaim(c)
    \/ \E outcome \in Outcomes : CallSkill(c, outcome)
    \/ Report(c)
    \/ EnqueueForRetry(c)
    \/ CallerDies(c)

SweepStep ==
    \/ SweepRead
    \/ SweepRetire
    \/ SweepClaim
    \/ SweepSuppress
    \/ SweepRefuse
    \/ SweepPreVerify
    \/ \E outcome \in Outcomes : SweepCall(outcome)
    \/ SweepReport
    \/ ScheduleNext
    \/ Exhaust
    \/ Tell

Time == RetryFallsDue \/ LeaseLapses \/ Ages

Next ==
    \/ \E c \in Callers : CallerNext(c)
    \/ SweepStep
    \/ SweepDies
    \/ PruneRead
    \/ PruneUnlink
    \/ LateCommit
    \/ Time

Spec == Init /\ [][Next]_vars

\* The dispatch loop runs a sweep every cycle, clocks move, and the sidecar does
\* not die for ever in the same instant between reading a record and retiring it.
FairSpec ==
    /\ Spec
    /\ WF_vars(SweepStep)
    /\ SF_vars(SweepRetire)
    /\ WF_vars(Ages)
    /\ WF_vars(LeaseLapses)

-----------------------------------------------------------------------------
(* Properties.                                                             *)

\* No agent has called `retry` yet: only the dispatch and the sweep have
\* written the record.
Undisturbed == \A c \in Retriers : caller[c].pc = "idle"

\* A replay is begun only when the failure of every attempt before it is on
\* record: never beside one under way, after one that succeeded or whose write
\* was found, or after one that died before it wrote how it ended.  More the queue
\* does not promise: a failed call may have written, and its replay writes again.
ReplayAfterFailure ==
    [][(Undisturbed /\ sweep.pc # "replaying" /\ sweep'.pc = "replaying")
          => standing = {}]_vars

\* The agent session hears one verdict at most, and after "exhausted" the
\* record is out of the queue, failed, for good.
OneVerdict ==
    Undisturbed =>
        /\ told["success"] + told["exhausted"] <= 1
        /\ told["exhausted"] > 0 => rec = Gone \/ (rec.status = "failed" /\ ~rec.queued)

\* An operation recorded as completed is never turned back into a failed or a
\* running one.
CompletedIsFinal ==
    [][(Undisturbed /\ rec.status = "completed") => rec'.status \in {"completed", "gone"}]_vars

\* A queued record that waits or was abandoned leaves the queue, or is
\* completed, whoever dies: the sweep retires it when its window has closed.
QueueDrains ==
    (rec # Gone /\ rec.queued /\ rec.status \in {"failed", "running"})
        ~> (rec = Gone \/ ~rec.queued \/ rec.status = "completed")
=============================================================================
