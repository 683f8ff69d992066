---------------------------- MODULE ActionProposals ----------------------------
(***************************************************************************)
(* Managed task proposals: a proposal is captured, revised and decided in  *)
(* browser tabs, and an accepted one is carried out by whoever comes:      *)
(* the request that accepted it, and the recovery sweep of the sidecar.    *)
(*                                                                         *)
(* Every transaction of the service takes the write lock at its start, so  *)
(* each is one action; the call of the task store lies between two of them *)
(* and the process may die on either side of it.                           *)
(***************************************************************************)
EXTENDS Naturals, Sequences, FiniteSets

CONSTANTS
    Proposals,
    Tabs,           \* request threads of the dashboard, each with what its tab shows
    Sweepers,       \* runs of reconcile_pending: the cron job, the boot of the sidecar
    Poison,         \* proposals the task store can never confirm
    Limit,          \* how many intents one sweep takes
    MaxVersions,    \* bound: the versions of a proposal
    MaxFaults       \* bound: failed calls, aborted transactions and deaths

ASSUME ProposalAssumption ==
    /\ IsFiniteSet(Proposals) /\ Poison \subseteq Proposals
    /\ Tabs \cap Sweepers = {}
    /\ Limit \in Nat \ {0} /\ MaxVersions \in Nat \ {0} /\ MaxFaults \in Nat

VARIABLES
    version,    \* of the latest proposed action; 0 before the proposal is captured
    intent,     \* the version the execution intent froze, or 0
    finish,     \* the latest execution result
    realized,   \* the proposals with a recorded realization
    state,      \* the thread's cached FSM state
    order,      \* the approved proposals, in the order recovery looks at them
    task,       \* external: the version the task store made a task of, or 0
    shown,      \* what each tab shows: a proposal and its version
    worker,     \* what each request or sweep is at
    agreed,     \* history: the version that was on the screen when it was accepted
    faults

log == <<version, intent, finish, realized, state, order>>
vars == <<log, task, shown, worker, agreed, faults>>

Versions == 1 .. MaxVersions
Workers == Tabs \cup Sweepers
Nothing == [p |-> "none", v |-> 0]
Rest == [pc |-> "rest", batch |-> <<>>, params |-> 0]

TypeOK ==
    /\ version \in [Proposals -> {0} \cup Versions]
    /\ intent \in [Proposals -> {0} \cup Versions]
    /\ finish \in [Proposals -> {"none", "failed", "success"}]
    /\ realized \subseteq Proposals
    /\ state \in [Proposals -> {"none", "awaiting_confirmation", "executing",
                                "awaiting_redirect", "done", "dismissed"}]
    /\ order \in Seq(Proposals)
    /\ task \in [Proposals -> {0} \cup Versions]
    /\ shown \in [Tabs -> {Nothing} \cup [p : Proposals, v : Versions]]
    /\ worker \in [Workers -> [pc : {"rest", "start", "dispatch", "confirmed", "failed"},
                               batch : Seq(Proposals), params : {0} \cup Versions]]
    /\ agreed \in [Proposals -> {0} \cup Versions]
    /\ faults \in 0 .. MaxFaults

Init ==
    /\ version = [p \in Proposals |-> 0] /\ intent = [p \in Proposals |-> 0]
    /\ finish = [p \in Proposals |-> "none"] /\ realized = {}
    /\ state = [p \in Proposals |-> "none"]
    /\ order = <<>>
    /\ task = [p \in Proposals |-> 0]
    /\ shown = [t \in Tabs |-> Nothing]
    /\ worker = [w \in Workers |-> Rest]
    /\ agreed = [p \in Proposals |-> 0]
    /\ faults = 0

-----------------------------------------------------------------------------
\* _projection: what the events of a proposal say of it
Status(p) ==
    CASE p \in realized -> "realized"
      [] p \notin realized /\ intent[p] # 0 ->
            IF finish[p] = "failed" THEN "needs_attention" ELSE "executing"
      [] p \notin realized /\ intent[p] = 0 ->
            CASE state[p] = "dismissed" -> "rejected"
              [] state[p] = "awaiting_confirmation" -> "ready"
              [] OTHER -> "unavailable"

\* Mutant: any version of the proposal may be decided.
ReviewedOnce(t) == shown[t] # Nothing

\* _reviewed: the tab still shows the latest version.
Reviewed(t) == shown[t] # Nothing /\ version[shown[t].p] = shown[t].v

-----------------------------------------------------------------------------
(* Capture and review.                                                     *)

\* create_task_proposal; a repeated request finds its receipt and changes nothing.
Create(p) ==
    /\ version[p] = 0
    /\ version' = [version EXCEPT ![p] = 1]
    /\ state' = [state EXCEPT ![p] = "awaiting_confirmation"]
    /\ UNCHANGED <<intent, finish, realized, order, task, shown, worker, agreed, faults>>

\* get
Show(t, p) ==
    /\ worker[t].pc = "rest" /\ version[p] # 0
    /\ shown' = [shown EXCEPT ![t] = [p |-> p, v |-> version[p]]]
    /\ UNCHANGED <<log, task, worker, agreed, faults>>

Revise(t) ==
    LET p == shown[t].p IN
    /\ worker[t].pc = "rest" /\ Reviewed(t) /\ Status(p) = "ready"
    /\ version[p] < MaxVersions
    /\ version' = [version EXCEPT ![p] = @ + 1]
    /\ UNCHANGED <<intent, finish, realized, state, order, task, shown, worker, agreed, faults>>

Reject(t) ==
    LET p == shown[t].p IN
    /\ worker[t].pc = "rest" /\ Reviewed(t) /\ Status(p) = "ready"
    /\ state' = [state EXCEPT ![p] = "dismissed"]
    /\ UNCHANGED <<version, intent, finish, realized, order, task, shown, worker, agreed, faults>>

\* accept freezes the intent, unless that is done, and goes on to reconcile.
Accept(t) ==
    LET p == shown[t].p IN
    /\ worker[t].pc = "rest" /\ Reviewed(t)
    /\ Status(p) \in {"ready", "executing", "needs_attention"}
    /\ IF Status(p) = "ready"
       THEN /\ intent' = [intent EXCEPT ![p] = version[p]]
            /\ agreed' = [agreed EXCEPT ![p] = shown[t].v]
            /\ state' = [state EXCEPT ![p] = "executing"]
            /\ order' = Append(order, p)
       ELSE UNCHANGED <<intent, agreed, state, order>>
    /\ worker' = [worker EXCEPT ![t] = [Rest EXCEPT !.pc = "start", !.batch = <<p>>]]
    /\ UNCHANGED <<version, finish, realized, task, shown, faults>>

-----------------------------------------------------------------------------
(* reconcile_pending and reconcile.                                        *)

Pending == SelectSeq(order, LAMBDA p : p \notin realized)
FirstOf(s) == SubSeq(s, 1, IF Len(s) < Limit THEN Len(s) ELSE Limit)

\* Mutant: the proposals that were looked at keep their place.
SweepInPlace(s) ==
    /\ worker[s].pc = "rest" /\ Pending # <<>>
    /\ worker' = [worker EXCEPT ![s] = [Rest EXCEPT !.pc = "start", !.batch = FirstOf(Pending)]]
    /\ UNCHANGED <<log, task, shown, agreed, faults>>

\* The first of the approved and unrealized are taken, and go to the end of the order.
Sweep(s) ==
    LET batch == FirstOf(Pending)
        taken == {batch[i] : i \in DOMAIN batch}
    IN /\ worker[s].pc = "rest" /\ Pending # <<>>
       /\ order' = SelectSeq(order, LAMBDA p : p \notin taken) \o batch
       /\ worker' = [worker EXCEPT ![s] = [Rest EXCEPT !.pc = "start", !.batch = batch]]
       /\ UNCHANGED <<version, intent, finish, realized, state, task, shown, agreed, faults>>

\* reconcile is done with the first of the batch.
Advance(w) ==
    LET left == Tail(worker[w].batch) IN
    worker' = [worker EXCEPT ![w] =
                 IF left = <<>> THEN Rest
                 ELSE [Rest EXCEPT !.pc = "start", !.batch = left]]

At(w, place) == worker[w].pc = place

\* The intent is read, and the start of an execution recorded.
Start(w) ==
    LET p == Head(worker[w].batch) IN
    /\ At(w, "start")
    /\ IF Status(p) \in {"executing", "needs_attention"}
       THEN worker' = [worker EXCEPT ![w].pc = "dispatch", ![w].params = intent[p]]
       ELSE Advance(w)
    /\ UNCHANGED <<log, task, shown, agreed, faults>>

\* The task store: one task for one client_mutation_id, whoever calls, and an
\* answer with its receipt, or an exception after the commit or before it.
Dispatch(w) ==
    LET p == Head(worker[w].batch)
        made == IF task[p] = 0 THEN [task EXCEPT ![p] = worker[w].params] ELSE task
    IN /\ At(w, "dispatch")
       /\ \/ /\ p \notin Poison
             /\ task' = made
             /\ worker' = [worker EXCEPT ![w].pc = "confirmed"]
             /\ UNCHANGED faults
          \/ /\ p \in Poison \/ faults < MaxFaults
             /\ task' \in {task, made}
             /\ worker' = [worker EXCEPT ![w].pc = "failed"]
             /\ faults' = IF p \in Poison THEN faults ELSE faults + 1
       /\ UNCHANGED <<log, shown, agreed>>

Realize(w) ==
    LET p == Head(worker[w].batch) IN
    /\ At(w, "confirmed")
    /\ IF Status(p) \in {"realized", "unavailable"} THEN UNCHANGED log
       ELSE /\ finish' = [finish EXCEPT ![p] = "success"]
            /\ realized' = realized \cup {p}
            /\ state' = [state EXCEPT ![p] = "done"]
            /\ UNCHANGED <<version, intent, order>>
    /\ Advance(w)
    /\ UNCHANGED <<task, shown, agreed, faults>>

\* Mutant: the failure is recorded whatever another worker has recorded meanwhile.
FailAnyway(w) ==
    LET p == Head(worker[w].batch) IN
    /\ At(w, "failed")
    /\ finish' = [finish EXCEPT ![p] = "failed"]
    /\ state' = [state EXCEPT ![p] = "awaiting_redirect"]
    /\ Advance(w)
    /\ UNCHANGED <<version, intent, realized, order, task, shown, agreed, faults>>

Fail(w) ==
    LET p == Head(worker[w].batch) IN
    /\ At(w, "failed")
    /\ IF Status(p) = "realized" THEN UNCHANGED log
       ELSE /\ finish' = [finish EXCEPT ![p] = "failed"]
            /\ state' = [state EXCEPT ![p] = "awaiting_redirect"]
            /\ UNCHANGED <<version, intent, realized, order>>
    /\ Advance(w)
    /\ UNCHANGED <<task, shown, agreed, faults>>

\* The process dies, or a transaction raises: the rest of the batch is not looked at.
Abort(w) ==
    /\ ~At(w, "rest")
    /\ faults < MaxFaults
    /\ faults' = faults + 1
    /\ worker' = [worker EXCEPT ![w] = Rest]
    /\ UNCHANGED <<log, task, shown, agreed>>

-----------------------------------------------------------------------------
Reconcile(w) == Start(w) \/ Dispatch(w) \/ Realize(w) \/ Fail(w)

Next ==
    \/ \E p \in Proposals : Create(p)
    \/ \E t \in Tabs : Revise(t) \/ Reject(t) \/ Accept(t) \/ \E p \in Proposals : Show(t, p)
    \/ \E s \in Sweepers : Sweep(s)
    \/ \E w \in Workers : Reconcile(w) \/ Abort(w)

Spec == Init /\ [][Next]_vars

\* The cron job comes every five minutes and goes through its batch; nothing
\* makes a user decide, or the request that accepted come to its end.
FairSpec == Spec /\ \A s \in Sweepers : WF_vars(Sweep(s)) /\ WF_vars(Reconcile(s))

-----------------------------------------------------------------------------
(* Properties.                                                             *)

\* A task is made only of the version that was on the screen of the tab that
\* accepted it, and a realization stands for such a task; a rejected proposal has none.
OnlyWhatWasApproved ==
    \A p \in Proposals :
        /\ task[p] # 0 => task[p] = agreed[p] /\ Status(p) # "rejected"
        /\ p \in realized => task[p] # 0

\* The cached state, by which the thread lists show a proposal, says what its log
\* says, however late a second worker reports on the same intent.
StateFollowsTheLog ==
    \A p \in Proposals : version[p] # 0 =>
        state[p] = CASE Status(p) = "ready" -> "awaiting_confirmation"
                     [] Status(p) = "rejected" -> "dismissed"
                     [] Status(p) = "executing" -> "executing"
                     [] Status(p) = "needs_attention" -> "awaiting_redirect"
                     [] Status(p) = "realized" -> "done"
                     [] OTHER -> "none"

\* Every approved proposal whose task can be made is realized in the end, although
\* others fail for ever and a sweep takes only a few: none is kept out of every batch.
ApprovedIsRealized ==
    \A p \in Proposals \ Poison : (intent[p] # 0) ~> (p \in realized)
=============================================================================
