----------------------------- MODULE ThreadEngine -----------------------------
(***************************************************************************)
(* One thread of work_buddy/threads: the transition table, engine.transition  *)
(* with the optimistic lock of the event log, and the state-entry handlers    *)
(* that drive the states in which it is the machine's turn (inference queue    *)
(* and poller, skill execution, cleanup). Dashboard and agent requests run in  *)
(* processes of their own against the same database. A check of the lock, the  *)
(* insert it guards and the write of the cached row are separate commits.      *)
(***************************************************************************)
EXTENDS Integers, Sequences

CONSTANTS
    Users,        \* processes that serve requests (dashboard, gateway)
    Poller,       \* the inference poller of the sidecar
    Routes,       \* bound: the kinds of request that are made
    MaxRequests,  \* bound: requests
    MaxDeaths     \* bound: processes that die at work

ASSUME ThreadAssumption ==
    /\ Poller \notin Users
    /\ Routes \subseteq {"post", "redirect", "later", "edit", "pick", "note"}
    /\ MaxRequests \in Nat /\ MaxDeaths \in Nat

TargetSet == {"intent", "context", "action"}

Inferring == [t \in TargetSet |->
    CASE t = "intent"  -> "inferring_intent"
      [] t = "context" -> "inferring_context"
      [] t = "action"  -> "inferring_action"]

Confirmations == {"awaiting_intent_confirmation", "awaiting_context_confirmation"}
Clarifications == {"awaiting_intent_clarification", "awaiting_context_clarification"}
InferringStates == {Inferring[t] : t \in TargetSet}
CleanableStates == Confirmations \cup Clarifications \cup
    {"awaiting_action_clarification", "awaiting_confirmation", "awaiting_review",
     "awaiting_redirect"}
Terminal == {"done", "dismissed", "done_cleanup_successful"}
NonTerminal == CleanableStates \cup InferringStates \cup
    {"proposed", "awaiting_inference", "executing", "cleaning_up",
     "done_cleanup_unsuccessful"}
States == NonTerminal \cup Terminal

UserTriggers == {"begin_inference", "dismissed_by_user", "parent_force_close",
    "confirmed", "provided", "redirected", "execute", "review_accepted",
    "cleanup_requested", "retry_cleanup", "accept_cleanup_failure"}
Triggers == UserTriggers \cup {"inference_done", "inference_failed",
    "execution_done", "execution_failed", "cleanup_succeeded", "cleanup_failed"}

(* TRANSITION_TABLE, with every branch a resolver may pick.                   *)
TransitionTable ==
    ((NonTerminal \ {"executing"}) \X {"dismissed_by_user"} \X {"dismissed"})
    \cup (NonTerminal \X {"parent_force_close"} \X {"dismissed"})
    \cup (CleanableStates \X {"cleanup_requested"} \X {"cleaning_up"})
    \cup (Confirmations \X {"confirmed", "redirected"} \X {"awaiting_inference"})
    \cup (Clarifications \X {"provided"} \X {"awaiting_inference"})
    \cup ({"awaiting_redirect"} \X {"provided", "redirected"} \X {"awaiting_inference"})
    \cup ({"awaiting_confirmation", "awaiting_review"} \X {"redirected"}
             \X {"awaiting_inference"})
    \cup ({"inferring_action"} \X {"inference_done"}
             \X {"executing", "awaiting_confirmation", "awaiting_action_clarification"})
    \cup ({"executing"} \X {"execution_done"} \X {"done", "awaiting_review"})
    \cup { <<"proposed", "begin_inference", "awaiting_inference">>,
           <<"inferring_intent", "inference_done", "awaiting_inference">>,
           <<"inferring_intent", "inference_done", "awaiting_intent_confirmation">>,
           <<"inferring_intent", "inference_failed", "awaiting_intent_clarification">>,
           <<"inferring_context", "inference_done", "awaiting_inference">>,
           <<"inferring_context", "inference_done", "awaiting_context_confirmation">>,
           <<"inferring_context", "inference_failed", "awaiting_context_clarification">>,
           <<"inferring_action", "inference_failed", "awaiting_action_clarification">>,
           <<"awaiting_action_clarification", "provided", "awaiting_confirmation">>,
           <<"awaiting_confirmation", "execute", "executing">>,
           <<"executing", "execution_failed", "awaiting_redirect">>,
           <<"awaiting_review", "review_accepted", "done">>,
           <<"cleaning_up", "cleanup_succeeded", "done_cleanup_successful">>,
           <<"cleaning_up", "cleanup_failed", "done_cleanup_unsuccessful">>,
           <<"done_cleanup_unsuccessful", "retry_cleanup", "cleaning_up">>,
           <<"done_cleanup_unsuccessful", "accept_cleanup_failure", "done">> }

Lookup(s, trigger) ==
    {row[3] : row \in {r \in TransitionTable : r[1] = s /\ r[2] = trigger}}

Processes == Users \cup {Poller}

(* What a process is appending, or about to: the trigger and next state of a   *)
(* transition, the event it expects to be the latest (once inserted, its own), *)
(* whether that was pinned by the caller or is the cached lock, the target     *)
(* carried in the data, and whether an entry handler (which swallows what is    *)
(* raised) is on the stack.                                                    *)
UserEvents == {"later", "edit", "pick", "promoting", "promoted", "note"}
Jobs == [kind : {"transition", "audit", "started", "finished", "cleanup"}
                  \cup UserEvents,
         trigger : Triggers, to : States, at : Nat, pinned : BOOLEAN,
         target : TargetSet \cup {"next"}, nested : BOOLEAN]

Call(trigger, target, pinned, nested) ==
    [kind |-> "transition", trigger |-> trigger, to |-> "done", at |-> 0,
     pinned |-> pinned, target |-> target, nested |-> nested]

NoJob == Call("begin_inference", "next", FALSE, FALSE)

VARIABLES
    state,     \* threads.fsm_state, the cache
    lock,      \* threads.parent_event_id, the cached lock target; 0 is NULL
    head,      \* id of the latest event of the thread; 0 while it has none
    inferred,  \* targets with an *_inferred event
    proposal,  \* some action_inferred event names a skill
    pending,   \* targets waiting in the inference queue, oldest first
    pc, job,
    requests, deaths,
    mishaps    \* history: what has gone wrong so far

row == <<state, lock>>
log == <<head, inferred, proposal>>
counts == <<requests, deaths>>
vars == <<row, log, pending, pc, job, counts, mishaps>>

Mishaps == {"rejected", "no_proposal", "refused", "deferred", "overlap", "unchecked",
            "torn_read", "stale_claim", "stale_promotion", "death"}

TypeOK ==
    /\ state \in States /\ lock \in 0..head /\ head \in Nat
    /\ inferred \subseteq TargetSet /\ proposal \in BOOLEAN
    /\ pending \in Seq(TargetSet)
    /\ pc \in [Processes -> {"idle", "pin", "decide", "check", "insert", "cache",
                 "promote", "enqueue", "execute", "skill", "clean", "claimed",
                 "infer", "dead"}]
    /\ job \in [Processes -> Jobs]
    /\ requests \in 0..MaxRequests /\ deaths \in 0..MaxDeaths
    /\ mishaps \subseteq Mishaps

(* A fresh thread, or a child a pipeline spawned at a review gate.             *)
Init ==
    /\ \/ state = "proposed" /\ inferred = {} /\ proposal = FALSE /\ head = 0
       \/ state = "awaiting_confirmation" /\ inferred = {"intent", "action"}
          /\ proposal = TRUE /\ head = 1
       \/ state = "awaiting_action_clarification" /\ inferred = {"intent"}
          /\ proposal = FALSE /\ head = 1
    /\ lock = head /\ pending = <<>>
    /\ pc = [p \in Processes |-> "idle"] /\ job = [p \in Processes |-> NoJob]
    /\ requests = 0 /\ deaths = 0 /\ mishaps = {}

Become(p, place, new) ==
    /\ pc' = [pc EXCEPT ![p] = place]
    /\ job' = [job EXCEPT ![p] = new]

Finish(p) == Become(p, "idle", NoJob)

Note(what) == mishaps' = mishaps \cup what
Mishap(what, happens) == IF happens THEN {what} ELSE {}

(* An event lands while another process is between its check and its insert,   *)
(* or between its insert and the write of the row.                             *)
Overlaps(p) == \E q \in Processes \ {p} : pc[q] \in {"insert", "cache"}

Arrives(u, route) ==
    /\ pc[u] = "idle" /\ route \in Routes /\ requests < MaxRequests
    /\ requests' = requests + 1

(* A request arrives: any trigger a route posts, whatever the state.           *)
Request(u, trigger) ==
    /\ Arrives(u, "post")
    /\ Become(u, "decide", Call(trigger, "next", FALSE, FALSE))
    /\ UNCHANGED <<row, log, pending, deaths, mishaps>>

(* redirect_action records its event first, unchecked, then transitions.       *)
RedirectAction(u) ==
    /\ Arrives(u, "redirect")
    /\ head' = head + 1
    /\ Become(u, "pin", Call("redirected", "action", TRUE, FALSE))
    /\ Note(Mishap("overlap", Overlaps(u)))
    /\ UNCHANGED <<row, inferred, proposal, pending, deaths>>

(* later appends its event behind the latest one, and leaves the lock.         *)
Later(u) ==
    /\ Arrives(u, "later")
    /\ Become(u, "pin", [NoJob EXCEPT !.kind = "later"])
    /\ UNCHANGED <<row, log, pending, deaths, mishaps>>

(* A user's event goes behind the lock of the row as the request read it.      *)
Record(u, kind) == Become(u, "check", [NoJob EXCEPT !.kind = kind, !.at = lock])

(* An accept at the action gate that changes the action it approves.           *)
EditAndAccept(u) ==
    /\ Arrives(u, "edit") /\ state = "awaiting_confirmation"
    /\ Record(u, "edit")
    /\ UNCHANGED <<row, log, pending, deaths, mishaps>>

(* set_action_proposal; a thread still waiting for inference is promoted.      *)
PickAction(u) ==
    /\ Arrives(u, "pick")
    /\ Record(u, IF state = "awaiting_inference" THEN "promoting" ELSE "pick")
    /\ UNCHANGED <<row, log, pending, deaths, mishaps>>

(* Events that only move the lock: thread_rename, thread_defer, and            *)
(* set_action_proposal when it clears (the runner looks past a cleared event). *)
NoteEvent(u) ==
    /\ Arrives(u, "note")
    /\ Record(u, "note")
    /\ UNCHANGED <<row, log, pending, deaths, mishaps>>

(* The caller reads latest_event_id and passes it as the lock target.          *)
Pin(p) ==
    /\ pc[p] = "pin"
    /\ Become(p, IF job[p].kind = "transition" THEN "decide" ELSE "check",
                 [job[p] EXCEPT !.at = head, !.pinned = TRUE])
    /\ UNCHANGED <<row, log, pending, counts, mishaps>>

(* The event a transition is pinned to has not reached the row it reads.       *)
Torn(p) ==
    /\ job[p].pinned
    /\ \E q \in Processes \ {p} :
         pc[q] = "cache" /\ job[q].kind = "transition" /\ job[q].at = job[p].at

(* engine.transition reads the row once, for the state and for the lock.       *)
Decide(p) ==
    /\ pc[p] = "decide"
    /\ \E to \in Lookup(state, job[p].trigger) :
         Become(p, "check", [job[p] EXCEPT !.to = to,
                               !.at = IF job[p].pinned THEN @ ELSE lock])
    /\ Note(Mishap("torn_read", Torn(p)))
    /\ UNCHANGED <<row, log, pending, counts>>

(* InvalidTransition: answered, or swallowed, by every caller.                 *)
Refuse(p) ==
    /\ pc[p] = "decide" /\ Lookup(state, job[p].trigger) = {}
    /\ Finish(p)
    /\ Note(Mishap("refused", job[p].pinned))
    /\ UNCHANGED <<row, log, pending, counts>>

ExpectedAlways(p) == TRUE

(* No check is made while the thread's lock target is NULL.                    *)
Expected(p) == job[p].at \in {0, head}

Check(p) ==
    /\ pc[p] = "check" /\ Expected(p)
    /\ Become(p, "insert", job[p])
    /\ UNCHANGED <<row, log, pending, counts, mishaps>>

HandlerButNoCleanup(s) ==
    CASE s = "awaiting_inference" -> "enqueue"
      [] s = "executing"          -> "execute"
      [] OTHER                    -> "idle"

(* _fire_side_effects: the handler registered for the state, if any.           *)
Handler(s) ==
    CASE s = "awaiting_inference" -> "enqueue"
      [] s = "executing"          -> "execute"
      [] s = "cleaning_up"        -> "clean"
      [] OTHER                    -> "idle"

Enter(p) ==
    IF Handler(job[p].to) = "idle" THEN Finish(p)
    ELSE Become(p, Handler(job[p].to), [job[p] EXCEPT !.nested = TRUE])

(* The transition that reports what a handler did, pinned to the latest event. *)
Report(p) == Become(p, "pin", [job[p] EXCEPT !.kind = "transition"])

(* OptimisticLockConflict. The audit and cleanup appends swallow it; inside a  *)
(* handler the engine does; in the poller's own call nothing does.             *)
Conflict(p) ==
    /\ pc[p] = "check" /\ ~Expected(p)
    /\ \/ job[p].kind = "audit" /\ Enter(p)
       \/ job[p].kind = "cleanup" /\ Report(p)
       \/ /\ job[p].kind \notin {"audit", "cleanup"}
          /\ IF p = Poller /\ ~job[p].nested THEN Become(p, "dead", NoJob) ELSE Finish(p)
    /\ Note(Mishap("refused",
                   job[p].pinned /\ job[p].kind \notin {"audit"} \cup UserEvents))
    /\ UNCHANGED <<row, log, pending, counts>>

(* The INSERT commits by itself, after the check: another may have landed.     *)
Insert(p) ==
    /\ pc[p] = "insert"
    /\ head' = head + 1
    /\ proposal' = (proposal \/ job[p].kind \in {"edit", "pick", "promoting"})
    /\ CASE job[p].kind = "cleanup"   -> Report(p)
         [] job[p].kind = "later"     -> Finish(p)
         [] job[p].kind = "promoting" -> Become(p, "promote", job[p])
         [] OTHER -> Become(p, "cache", [job[p] EXCEPT !.at = head + 1])
    /\ Note(Mishap("deferred", job[p].kind = "later")
              \cup Mishap("unchecked", job[p].at = 0 /\ head # 0)
              \cup Mishap("overlap", Overlaps(p)))
    /\ UNCHANGED <<row, inferred, pending, counts>>

(* The promotion writes the row whatever it says by now, then the log.         *)
Promote(p) ==
    /\ pc[p] = "promote"
    /\ state' = "awaiting_confirmation" /\ lock' = head
    /\ Become(p, "pin", [job[p] EXCEPT !.kind = "promoted"])
    /\ Note(Mishap("stale_promotion", state # "awaiting_inference"))
    /\ UNCHANGED <<log, pending, counts>>

(* The handlers of a run and the events of a user read the latest id anew.     *)
LockTarget(p) ==
    IF job[p].kind \in {"started", "finished"} \cup UserEvents THEN head
    ELSE job[p].at

AfterCache(p) ==
    CASE job[p].kind = "started" -> Become(p, "skill", job[p])
      [] job[p].kind = "finished" -> Report(p)
      [] job[p].kind = "edit" ->
           Become(p, "decide", Call("execute", "next", FALSE, FALSE))
      [] job[p].kind \in UserEvents \ {"edit"} -> Finish(p)
      [] job[p].kind = "transition" /\ job[p].trigger = "inference_done" ->
           Become(p, "check", [job[p] EXCEPT !.kind = "audit"])
      [] OTHER -> Enter(p)

CacheBehindAudit(p) ==
    /\ pc[p] = "cache"
    /\ lock' = IF job[p].kind = "audit" THEN lock ELSE LockTarget(p)
    /\ state' = IF job[p].kind = "transition" THEN job[p].to ELSE state
    /\ AfterCache(p)
    /\ UNCHANGED <<log, pending, counts, mishaps>>

(* update_thread_state: the row follows the event, then the audit of an        *)
(* autonomy decision is appended, then the entry handlers of the state run.    *)
Cache(p) ==
    /\ pc[p] = "cache"
    /\ lock' = LockTarget(p)
    /\ state' = IF job[p].kind = "transition" THEN job[p].to ELSE state
    /\ AfterCache(p)
    /\ UNCHANGED <<log, pending, counts, mishaps>>

NextTarget ==
    IF "intent" \notin inferred THEN "intent"
    ELSE IF "context" \notin inferred THEN "context" ELSE "action"

(* awaiting_inference_handler: the target the data names, or the next one.     *)
Enqueue(p) ==
    /\ pc[p] = "enqueue"
    /\ pending' = Append(pending,
         IF job[p].target = "next" THEN NextTarget ELSE job[p].target)
    /\ Finish(p)
    /\ UNCHANGED <<row, log, counts, mishaps>>

(* QueueRejected (no budget left): the handler fires inference_failed instead. *)
Reject(p) ==
    /\ pc[p] = "enqueue"
    /\ Become(p, "decide", Call("inference_failed", "next", FALSE, TRUE))
    /\ Note({"rejected"})
    /\ UNCHANGED <<row, log, pending, counts>>

StartRun(p) ==
    /\ pc[p] = "execute" /\ proposal
    /\ Become(p, "pin", [job[p] EXCEPT !.kind = "started"])
    /\ UNCHANGED <<row, log, pending, counts, mishaps>>

(* No named proposal: the handler calls _record_failure, which no module       *)
(* defines, and the NameError is swallowed with the handler.                   *)
FailToStart(p) ==
    /\ pc[p] = "execute" /\ ~proposal
    /\ Finish(p)
    /\ Note({"no_proposal"})
    /\ UNCHANGED <<row, log, pending, counts>>

RunSkill(p) ==
    /\ pc[p] = "skill"
    /\ \E outcome \in {"execution_done", "execution_failed"} :
         Become(p, "pin", [job[p] EXCEPT !.kind = "finished", !.trigger = outcome])
    /\ UNCHANGED <<row, log, pending, counts, mishaps>>

CleanUp(p) ==
    /\ pc[p] = "clean"
    /\ \E outcome \in {"cleanup_succeeded", "cleanup_failed"} :
         Become(p, "pin", [job[p] EXCEPT !.kind = "cleanup", !.trigger = outcome])
    /\ UNCHANGED <<row, log, pending, counts, mishaps>>

(* process_one_pending claims the oldest entry of the queue ...                *)
Dequeue ==
    /\ pc[Poller] = "idle" /\ pending # <<>>
    /\ pending' = Tail(pending)
    /\ Become(Poller, "claimed", Call("inference_done", Head(pending), FALSE, FALSE))
    /\ UNCHANGED <<row, log, counts, mishaps>>

(* ... and moves the cached state, whatever it is by now.                      *)
SetInferring ==
    /\ pc[Poller] = "claimed"
    /\ state' = Inferring[job[Poller].target]
    /\ Become(Poller, "infer", job[Poller])
    /\ Note(Mishap("stale_claim", state # "awaiting_inference"))
    /\ UNCHANGED <<lock, log, pending, counts>>

(* The *_inferred event is appended unchecked; autonomy clears the target.     *)
Infer ==
    /\ pc[Poller] = "infer"
    /\ head' = head + 1
    /\ inferred' = inferred \cup {job[Poller].target}
    /\ proposal' \in IF job[Poller].target = "action" THEN {proposal, TRUE} ELSE {proposal}
    /\ Become(Poller, "pin", Call("inference_done", "next", TRUE, FALSE))
    /\ Note(Mishap("overlap", Overlaps(Poller)))
    /\ UNCHANGED <<row, pending, counts>>

InferenceFails ==
    /\ pc[Poller] = "infer"
    /\ Become(Poller, "pin", Call("inference_failed", "next", TRUE, FALSE))
    /\ UNCHANGED <<row, log, pending, counts, mishaps>>

(* A process dies at its work and is started again; so is a dead poller.       *)
Die(p) ==
    /\ pc[p] # "idle" /\ deaths < MaxDeaths
    /\ deaths' = deaths + 1
    /\ Finish(p)
    /\ Note({"death"})
    /\ UNCHANGED <<row, log, pending, requests>>

Write(p) == Pin(p) \/ Check(p) \/ Conflict(p) \/ Insert(p) \/ Promote(p) \/ Cache(p)
Handle(p) == Enqueue(p) \/ Reject(p) \/ StartRun(p) \/ FailToStart(p)
               \/ RunSkill(p) \/ CleanUp(p)
Poll == Dequeue \/ SetInferring \/ Infer \/ InferenceFails

Next ==
    \/ \E u \in Users :
         \/ RedirectAction(u) \/ Later(u)
         \/ EditAndAccept(u) \/ PickAction(u) \/ NoteEvent(u)
         \/ \E t \in UserTriggers : Request(u, t)
    \/ \E p \in Processes :
         Decide(p) \/ Refuse(p) \/ Write(p) \/ Handle(p) \/ Die(p)
    \/ Poll

Spec == Init /\ [][Next]_vars

-----------------------------------------------------------------------------
(* Nothing runs, and nothing that is queued will.                              *)
Quiet ==
    /\ \A p \in Processes : pc[p] \in {"idle", "dead"}
    /\ pending = <<>> \/ pc[Poller] = "dead"

(* A thread left to itself waits for a person: it rests in a state that is the *)
(* machine's turn only after an accident that excuses it. The entry handler of *)
(* a machine state always fires a trigger the state accepts.                   *)
QuietIsUsersTurn ==
    Quiet =>
      /\ state = "awaiting_inference" =>
           mishaps \cap {"rejected", "death"} # {} \/ pc[Poller] = "dead"
      /\ state \in InferringStates => mishaps \cap {"refused", "death"} # {}
      /\ state = "executing" => mishaps \cap {"refused", "no_proposal", "death"} # {}
      /\ state = "cleaning_up" => mishaps \cap {"refused", "death"} # {}

(* At rest the cached lock is the latest event, so that the next request with  *)
(* the default lock is not refused for a conflict nobody is part of.           *)
QuietLockIsCurrent ==
    Quiet /\ state \notin Terminal
          /\ mishaps \cap {"refused", "deferred", "overlap", "death"} = {}
        => lock \in {0, head}

(* One approval, one run: two processes never run the skill of a thread at the *)
(* same time, unless a check and an insert interleaved, a request that had     *)
(* found no lock came late, a pinned transition read the row ahead of its      *)
(* write, or the row was written past the table by the poller or a promotion   *)
(* after the thread had moved on.                                              *)
OneRunAtATime ==
    mishaps \cap {"overlap", "unchecked", "torn_read", "stale_claim", "stale_promotion"} = {} =>
        \A p, q \in Processes : pc[p] = "skill" /\ pc[q] = "skill" => p = q
==============================================================================
