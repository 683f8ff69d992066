# A verification development for work-buddy

TLA+ models of the parts of work-buddy in which steps of several threads or
processes meet, TLC configurations that check them on small instances, and
proofs that TLAPS checks for every instance. Paths below are relative to the
repository; `broker.py:363` means line 363 of the file named by the section.

work-buddy is a personal assistant that runs as a family of Python processes:
a *sidecar* daemon that supervises services, runs jobs and drains queues; an
*MCP gateway* through which agents call skills; and a *dashboard* (Flask) for
the person. They share SQLite databases and small JSON files. Within a process
there are threads. Few of the exchanges between them are one transaction.

## Inventory

| Part | State it keeps | Operations | What is hard | Correct when |
|---|---|---|---|---|
| Local inference broker (`inference/broker.py`, `local_slot.py`) | per profile: slots in use, waiters per class, a condition variable | `slot`, `admit`, `release`, `reconfigure` | threads, deadlines, notify-all, shrinking capacity | capacity and priority are kept, nothing leaks, no wakeup is lost |
| Event backbone (`events/dispatcher.py`, `store.py`, `drain.py`) | tables `events`, `consumer_offsets`, `event_dlq`; attempts in memory | `publish`, `register_consumer`, `drain` | a crash or error between any two SQLite calls, retries, consent holds | nothing is skipped or reordered, poison is buried, offsets never go back |
| Event retention (`events/artifact.py`, `artifacts/`) | a memoised snapshot of offsets and dead letters | the `artifact_cleanup` sweep | stale snapshot beside a running drain | undelivered and dead-lettered rows stay, the rest goes |
| Source poller (`events/sources/`) | a JSON cursor per source | `poll_source` | two polls at once, crash between publish and save, a file caught empty | no observed change is lost, the cursor settles |
| Thread engine (`threads/engine.py`, `fsm.py`, `store.py`, `inference_worker.py`, `execution_runner.py`, `cleanup_runner.py`) | cached state and lock of a thread, its event log, the inference queue | `transition`, `append_event`, entry handlers, `process_one_pending`, the dashboard routes | optimistic lock, cache behind log, handlers that swallow errors, queue entries that outlive their reason | a thread never rests in the machine's state, one approval is one run, retries work |
| Thread families (`threads/decompose.py`, `group.py`, `pipelines/`) | parent and child links, MONITORING, the items of each child | spawn, cascade, regroup, dismiss | two children that end at once, a spawn beside them, one operation over two logs | a parent ends when its children have, no item is lost or doubled |
| Managed action proposals (`threads/action_proposals.py`) | versions, a frozen intent, execution results | capture, revise, reject, accept, reconcile | a task store outside the transaction, two workers on one intent, a bounded sweep | a task is made of what the person saw, and of every approved proposal |
| Operation records (`sidecar/retry_sweep.py`, the gateway) | one JSON file per operation with status, attempt, lease | dispatch, `retry`, sweep, prune, expire | a file written whole by several writers, writes that land late | a replay only after a recorded failure, one verdict, nothing is queued for ever |
| Verify jobs (`cowork/verify_*.py`) | a job row beside its operation record and a detached worker | enqueue, dispatch, claim, spawn, submit, project, expire | checks and updates without a transaction, an authorization that expires | one worker per job, every job ends |
| Truth ledger (`truth/`) | append-only status events, links, premises, evidence, redactions | propose, derive, link, challenge, review, confirm, reject, expire, redact | decisions made on a screen composed earlier; transitions whose grounds change afterwards | authority and lineage are sound, no claim ends unseen |
| A document's conversation and driver (`conversations/`, `cowork/document_agent.py`) | inbox cursor, lease by generation, receipts, replies, a detached process | post, wake, claim, activate, fence, close; fetch, send, acknowledge | a driver that outlives its lease, a close in mid-wake, a successor that must not answer twice | a fenced driver is mute, a turn is acknowledged with its own answer, none is skipped |
| LLM queue and budget (`llm/queue.py`) | rows pending, in flight, done, rejected | `enqueue`, `dequeue`, `complete`, `fail`, `cancel` | admission outside the insert, a worker that dies | nothing claimed twice, budget kept |
| Consent (`consent.py`), sidecar daemon, scheduler | grants; services, jobs, pid files | grant, check; start, supervise, reload | expiry between check and use, two instances | nothing gated runs ungranted, jobs run once |
| Tasks, Markdown databases, journal capture, document kernel | SQLite schemas beside Markdown files | capture, merge, import | edits on both sides | no edit is lost |
| Everything else (search, knowledge, integrations, settings, backups, notifications, presentation) | indexes, configuration | | mostly sequential, or input and output | |

How they meet: any process publishes to the event log; the drain thread of the
sidecar reads it; the retention sweep runs in a process of its own beside both.
The source poller publishes through the same dispatcher. Dashboard and gateway call
`engine.transition`, whose entry handlers enqueue to the LLM queue; the sidecar's
poller thread takes entries and calls `engine.transition` again; a child's
transition to its end runs the cascade on its parent. Every dispatched skill
leaves an operation record, which the sidecar's sweep replays; a Verify job is
launched by such a record. The task of a proposal, the claims of a document and
the driver of its conversation are reached from dashboard routes and from agents.
Model calls pass through the inference broker. `PROJECT.json` lists every component
with its status, and every hazard with its line.

## Modules

| Module | Models | How its state corresponds to the code |
|---|---|---|
| `AdmissionGate` | what the broker promises, without lock, condition or counters | abstract |
| `InferenceBroker` | one profile of `LocalInferenceBroker` | `cfg`, `in_flight`, `waiting` are the fields of `_ProfileState`; `pc` is where each calling thread is in `slot`; `asleep` is the set in `Condition.wait`; `expired` says the deadline passed |
| `DeliveryLog` | what the backbone promises, without processes, batches, attempts or grants | abstract |
| `EventBackbone` | the log, its producers, one sidecar process with its drain thread | `row`, `live` are table `events`; `offset` is `consumer_offsets`; `dlq`; `attempts` is `_attempts`; `pc`, `at`, `batch` are the drain's position |
| `EventRetention` | extends `EventBackbone` with the sweep | `memo` is `snap`, `listed` and `doomed` the lists of `find_expired`, `expired` the rows past `expires_at` |
| `SourcePoller` | one pull source, polled by two processes | `cursor` is `last_hash` in the state file; `poll` holds the locals of each `poll_source` |
| `ThreadEngine` | one thread, the processes that drive it | `state`, `lock` are the cached columns, `head` the latest event id, `pending` the queue; `pc`, `job` are each process's position in `transition` and the handlers |
| `ThreadFamily` | one umbrella and its children | the same columns for the umbrella; `child` the state of each child, `home` its items |
| `ActionProposals` | the managed proposals | `version`, `intent`, `finish`, `realized` are folds of the thread's log; `state` the cached column; `order` the rows recovery selects; `task` the task store |
| `OperationQueue` | one operation record and all its writers | `rec` is the file; each `copy` is a record some writer has read; `landed`, `late` are the writes in the vault and on their way; `standing` is a history of the attempts whose failure is not on record |
| `VerifyLaunch` | one Verify job and its launch record | `job` is the row, `record` the operation, `goal` the status between the read and the update of `update_job` |
| `TruthLedger` | the claims of one store | `log` is `claim_status_events`; `links`, `retracted`, `premises`, `redacted` the tables; `screen` what a person is deciding on |
| `DocumentAgent` | one conversation, its lease and its driver | `lease` is the row of `conversation_agent_leases`; `cursor`, `acked`, `receipts`, `reply` the inbox; `procs`, `owned` the processes and the handles held |
| `*Proofs` | theorems: `EventProofs` about the backbone, the sweep and the source poller, `OperationProofs` about operation records and Verify jobs, the others about the module they are named after | |
| `*MC`, `MC*` | instances for TLC | |

Each module defines `TypeOK` (`RetentionTypeOK`, `PollerTypeOK`, `JobTypeOK` where
two modules are extended together). It is proved, of the proposals without the two
sequences a sweep works on and of the ledger as `Types` of its proofs; the runs spend
their time on the other properties.

### InferenceBroker
A caller goes idle, entering, waiting, running, finished. One action per critical
section under the condition's lock: entering either finds the queue full,
is admitted, gives up at once, or goes to wait; a waiter that is awake is
admitted, times out, or waits again. Every one of them that ends the wait passes
through `LeaveQueue`, the `finally` of `admit`, which decrements and notifies.
Best-effort callers (`local_embed_slot`) that are refused run without a slot.
`AdmissionGate` is refined by mapping the queue to the pairs of a waiting
thread and its class, and the running set to the slot holders.

### EventBackbone
Each SQLite call of `drain` is its own transaction, and each is an action; a
crash (`Crash`) or a raising call (`TickFails`, `RunFails`, `CommitRunFails`) may
come between any two. `attempts` lives in memory and is lost by a crash. A start
may be of a newer release that registers one consumer more. The log is
append-only but for the sweep: `EventBackbone` itself never removes a row. It refines
`DeliveryLog`: a log without duplicates, of which each consumer is concerned with one
event at a time, the next, and gets past it only when it was processed or buried.

### EventRetention
The sweep and the drain interleave at every query. Time appears as a row's
expiry and as the age of the 30 s snapshot; that no row is given less than hours
to live is what makes a snapshot begun before it was appended too old to judge it.

### SourcePoller
Load, fetch, publish or not, empty the file, write it: five steps with a crash
or a failed call between any two, taken by the cron job and by a poll requested
through the gateway at the same time. `load_state` reads an empty or damaged
file as no cursor, and the poll that found none takes what it fetches as a
baseline without a word; `baselines` remembers those.

### ThreadEngine
`transition` is five steps: read the row and choose the branch (`Decide`,
`Refuse`), compare the lock (`Check`, `Conflict`), insert (`Insert`), write the
row (`Cache`), run the entry handler (`Enter`). The check, the insert and the
write of the row commit apart, so two processes may meet at any of them. The
entry handlers enqueue, run the skill or clean up, and report with a transition of
their own. `Routes` bounds the kinds of request; with all of them the model has
the generic trigger route, `redirect_action`, `later`, an edited accept,
`set_action_proposal` with its promotion past the table, and the notes of
`thread_rename` and `thread_defer`. `mishaps` is a history of what has gone wrong,
by name, so that an invariant can say exactly which accident excuses it:

| mishap | the accident | where |
|---|---|---|
| `rejected` | the inference queue refused the entry, and the answer has no cell in the table | `inference_worker.py:170-187` |
| `no_proposal` | a run was started without a proposal | `execution_runner.py:79-85` |
| `refused` | a pinned transition (a handler's report or the poller's) came too late | `engine.py:253`, `store.py:691` |
| `deferred` | a Later event moved the log and not the cache | `service.py:4122` |
| `overlap` | an event landed between another's check, insert and row write | `store.py:690-719` |
| `unchecked` | a request that had found no lock, and so is not checked, landed behind other events | `engine.py:267-270`, `store.py:683-690` |
| `torn_read` | a pinned transition read the row before the write of the event it is pinned to | `engine.py:238` |
| `stale_claim` | the poller moved a thread that no longer waited for it | `inference_worker.py:287` |
| `stale_promotion` | a promotion wrote a row that had moved on | `service.py:4294` |
| `death` | a process died at its work | |

Where a mishap excuses an invariant, the code does misbehave after that
accident; the list is the price list of the current design. `unchecked` and
`torn_read` take three or four requests, more than the run has: they were found when
the step they falsify could not be proved.

### ThreadFamily
The umbrella's log is written by the pipeline run that spawns the family, by
every process that ends a child (`cascade_terminal_to_parent` runs in it) and by
users' requests. A cascade is: read the umbrella, check the lock, insert its
event, read the latest id, write the lock, list the children, and if all have
ended a transition of the umbrella, which checks, inserts and writes again; an
optimistic-lock conflict anywhere ends it in silence. What happens within one
child is `ThreadEngine`'s matter: here a child is proposed, waiting, or ended.

| mishap | the accident | where |
|---|---|---|
| `stale_lock` | a lock was written that is older than the one it replaced | `decompose.py:278-284`, `engine.py:100-117` |
| `crossed` | another event of the umbrella fell into a cascade | `decompose.py:250-284` |
| `later` | a Later event moved the log and not the lock | `service.py:4122` |
| `cleaned` | a child ended in `done_cleanup_successful`, for which no handler is registered | `decompose.py:350-353` |
| `early` | a child ended, or the umbrella closed, before its spawn was over | `runner.py:365-410` |
| `moves` | two moves of items overlapped | `group.py:363-373` |
| `death` | a process died at its work | |

### ActionProposals
Every transaction of the service takes the write lock first, so each is an
action: `Create`, `Revise`, `Reject`, `Accept`; then `Start`, the call of the task
store (`Dispatch`), and `Realize` or `Fail`, by the request that accepted or by
`reconcile_pending`. A tab may show a version that has been revised since. `Poison`
are proposals the task store never confirms: the sweep takes the `Limit`
approved proposals that were tried longest ago, so they must not keep the others out.

### OperationQueue
The gateway saves a record, calls the skill and writes the outcome; the
`retry` skill and the sweep each read the file, work, and write the whole of it
back; only the sweep takes the lock file. A call ends `ok`, `transient`,
`permanent` or `uncertain`, and whichever it is may have written to the vault: a
skill with two effects fails at the second, a result is partly verified
(`retry_sweep.py:688-707`). After an uncertain one the write may land later still.
The queue replays all of them (`1028-1039`) and so does not promise that a write lands
once; it leaves that to the skills, which "are required to be idempotent under retry".
What it does promise is `ReplayAfterFailure`: no replay begins beside an attempt
under way, after one that succeeded or whose write was found, or after one
that died before it wrote how it ended. Leases lapse at any time after they were taken, and every writer may die at
any step. `Undisturbed` says that no agent has called `retry` yet: that skill
reads, checks and writes without the lock, and the properties make no claim past it.

### VerifyLaunch
The launch is an internal operation with a bounded number of attempts; the
sidecar's one dispatch thread first reconciles expired jobs, then sweeps. The
handler claims a launch lease, spawns, and marks the receipt; the worker reads
the job and submits. `update_job` reads and checks in one step and writes in
another, for each actor. Submitted output is projected under a lease by whoever
takes it, the worker's submission or the reconciliation.

### TruthLedger
A write transaction takes the write lock, so an operation is one action; what is
torn is a person's decision: a screen is composed at one place of the ledger and
answered at a later one, on the dashboard (bound to the claim's context by a
digest) or on a consent prompt (bound to the claim alone). Places are counted in
status events. The ledger has the operations of production and those only the API
and the tests call (`mark_needs_review`, `expire_claim`, `retract_link`).
`AuditIsClean` is the store's own audit, restated over the model: who may confirm,
on what grounds, in which order. Left out are its rules about which person made a gesture
and about the gesture's own row, so that of `supersession_actor_mismatch` the kind of actor
remains, and its rule about support on redacted evidence, which reports an error after any
legitimate redaction. Its rules about the support of a confirmation are read of the supports
there were at the time (`ConfirmedOnGrounds`); the code's also reports a claim that was
rightly confirmed without any and was given one later (`queries.py:3669`). `room.demanding` are
the claims whose kind has a `minimum_usable_supports` in the profile.

### DocumentAgent
The agent is a language model: it may make any call, in any order, with any
arguments, and a call may land after its process is gone. `ensure_document_agent`
is eight steps under the document's lock: look at the lease, stop it, terminate
the process, claim the next generation, spawn, activate, look again, and discard
what lost its lease on the way. A spawn yields a process, or none (`SpawnsNothing`), or a
process whose job could not be delivered to it (`SpawnsUndelivered`); that one is
terminated, and if the termination fails the dashboard still holds its handle. Closing the conversation, ordinary posts and the
agent's calls do not take that lock. `fresh` stands for the twenty seconds of
grace of a start and for the time a heartbeat lasts. The dashboard may restart
at any step, which loses its handles; a process whose handle it lacks is never
terminated, and a termination may fail.

## Runs

| Run | Question and bounds | Result |
|---|---|---|
| `InferenceBroker` | three callers, one best-effort, capacity switching between 1 and 2 | holds, 80,088 states |
| `EventBackbone` | two rows, three events, two consumers (one gated), two attempts, two crashes, one fault, an upgrade, a fair drain | holds, 617,636 states |
| `EventRetention` | two rows, two sweeps, a crash of either side | holds, 4,197,712 states |
| `EventRetention_reaps` | does a sweep delete what it condemned? | no |
| `SourcePoller` | two pollers, three values, two changes, two failures | holds, 589,074 states |
| `ThreadEngine` | two request processes and the poller, all routes, two requests, one death | holds, 996,161 states |
| `ThreadFamily` | a run that spawns two children, one extra group, one item, two other processes, one request or death | holds, 2,942,897 states |
| `ActionProposals` | two proposals of two versions, one never confirmable, two tabs, a sweep that takes one at a time, two faults | holds, 256,982 states |
| `OperationQueue` | one dispatch, one `retry` call, three attempts, writes that land with any outcome or late, deaths anywhere | holds, 230,422 states |
| `VerifyLaunch` | three attempts, three exceptions or deaths | holds, 286,675 states |
| `TruthLedger` | four kinds of room, below | holds, 715,775 states |
| `DocumentAgent` | two targeted turns and a plain one, two reply ids, two models, two generations, one restart or failed termination | holds, 635,072 states |

`EventRetention_reaps` quotes the sentence of the repository it tests;
`findings` in `PROJECT.json` has the lines and the reason.

Why the bounds are enough. Broker: with three callers there is an urgent waiter,
a less urgent one and a holder, and with one slot fewer than callers all the
admission predicates bite. Backbone: two rows are a retried event with one before
or after it; two attempts separate the first failure from the last; two crashes
fall before and after a fault.
Retention: two sweeps share a snapshot or not. Poller: three values distinguish a
change from a return to an older value, and two polls overlap in every way. Engine:
two requests race each other and the poller, which advances the thread by itself,
from each of the three states a thread starts in. Family: two children that end at
once are the race of the cascade, a third comes or goes beside it. Proposals: the
one that can never be confirmed contends with the other for a sweep of one.
Operations and jobs: three attempts are a first, a middle and a last. Ledger: each
behaviour draws a room of one of four kinds, which allow different operations to the depth
they need: `Race` is three claims of which two supersede the third, on two screens;
`Succession` the same with the winner redacted afterwards; `Grounds` evidence, which
one of the claims must have, a derivation, a challenge and a review; `Endings` claims that end in every way beside
others that depend on them. Agent: two generations are a fenced one and its
successor, and two reply ids are the one it must reuse and another; by hand also three
generations with one model (5,532,576 states), and three with one targeted turn
(1,834,918 states), with the same result. What a bound hides from a run it does not
hide from a proof: every invariant and every action property that holds of a run is proved
for all values of the constants, and the bounds matter for liveness alone.

### Fairness
- Broker: weak fairness of each caller's next critical section and of release.
  Release covers only the last step: a body that has ended. A body is never
  forced to end, and waking from a wait is fair because `Condition.wait` has a
  timeout and `notify_all` wakes everybody.
- Backbone: weak fairness of the drain and of registration while the process lives
  (`EventDrain._run` loops and catches everything); nothing forces a restart, a
  grant, or a processor to succeed.
- Poller: weak fairness of each poll (a cron job, and requests); nothing makes the
  source change or a poll fail.
- Proposals: weak fairness of the sweep and of its steps: the cron job
  `sidecar_jobs/task-proposal-reconciliation.md` comes every five minutes. The
  request that accepted need never finish.
- Operations: weak fairness of the sweep's steps, of the age of a record and of
  the lapse of a lease, which are time; strong fairness of retiring a record, since
  the sidecar may die and be restarted for ever but not for ever in the instant
  between reading a record and retiring it.
- Verify jobs: weak fairness of the dispatch thread, of the end of an agent
  process, and of time (expiry and the two leases).
- Engine, family, ledger and agent have none: `Quiet` says that nothing runs
  and nothing is queued, and the properties are about states and steps. A model
  need not answer, and a person need not decide.

`CHECK_DEADLOCK FALSE` where the system may rightly stop: requests are bounded
and a finished thread or umbrella stops (`ThreadEngine`, `ThreadFamily`); a record
is pruned (`OperationQueue`); a room is full (`TruthLedger`); a conversation is
closed and its drivers have ended (`DocumentAgent`).

## Proofs

`InferenceBrokerProofs`, for any finite set of callers and any configurations.
The inductive invariant is `TypeOK /\ CountersMatchThreads /\ NoLostWakeup`: the types
alone are not inductive, since a release keeps `in_flight` natural only because
the counter is the number of holders. Each counter changes by one because one
thread moves (`CountOne`, `MoveOne`); one lemma per kind of step. `NeverOverAdmit`
and `NoPriorityInversion` follow for every step from the admission predicate and
the counters being exact. `Refinement` maps every step to a step of
`AdmissionGate` or a stutter.

`EventProofs`, for any roster, subscriptions, limits and bounds. That no
offset skips is not inductive: the offset moves to the least row of the batch, so
the batch has to be exactly the next rows of the log (`BatchIsNext`), a delivery
that is about to be committed has to have left its trace (`MidDelivery`), and a
served consumer has to have an offset row (`Registered`). `CompletedIsCommitted` is
for `RunsOnce`, `AttemptsBounded` for the types. `FirstIsLeast` proves from the
cardinality of a finite set that the least row exists.

`Refinement` maps each of the drain's steps to a step of `DeliveryLog` or a stutter.
Without a sweep the table has no gaps (`Whole`), so the least row of a batch is the
row after the offset (`InHandIsNext`), however old the batch is. A sweep that deletes
by the wrong column (`EventRetention_reaps`) may remove any row, so this is not
claimed of `EventRetention`; what is claimed there is `BackboneUnharmed`.

The sweep is proved beside it. `IInv` of the backbone is kept by a sweep, which only
takes rows away, and in the same induction a condemned row is shown to be past every
live offset: the minimum the sweep remembers is still a lower bound, for offsets never
go back (`MinInv`); the snapshot a row is judged by is younger than the row
(`FreshInv`), which is where a time to live longer than the memo enters; and a dead
letter the snapshot does not know is of a row its minimum keeps anyway, of one appended
later, or of one older than its consumer (`LettersInv`). `SweptInv` is about what `listed` and
`doomed` hold. The last part is the poller's: what it loaded was announced or a
baseline when it was saved (`LoadedInv`), and what it is about to save has been
published or taken as one (`SeenInv`), so that overlapping saves cannot matter.

`ThreadEngineProofs`, for any users, routes and numbers of requests and deaths. A rest
with the user is proved from a duty: for every state that is the machine's turn some
process or the queue is on the way to move it, or a mishap is on record (`DutyInv`),
and each step hands the duty on (`EngineHandsOver`, `PollHandsOver`). A lock behind
the log is owed by a process that will write it (`OwedInv`), which needs that without
an overlap nothing lands between an event and the write of its row (`LastInv`). One
run at a time (`RunInv`) is that every transition under way was decided on the row as
it still reads (`Steady`), and that two of them cannot both be accepted (`Apart`);
the five races `OneRunAtATime` names are exactly what breaks this, and the proof
shows that there is no sixth.

`ThreadFamilyProofs`, for any children, items and workers. `OwedInv` as above, but for
the cascade, where it is the read of the latest id that makes the debt. `CloseInv`: once
the children have ended and nothing of the kind `FamilyCloses` names has happened,
somebody is on the way to close the umbrella whose append will be accepted; the step
of the induction is which of two cascades this is after each of their steps
(`CascadeCloses`, `EndReports`). `EarlyInv` says that who finishes the umbrella saw all
children of the spawn ended, and `ItemsInv` that a move holds its item in its hands
between its two writes.

`ActionProposalsProofs`, for any proposals, tabs, sweepers and limit. What intent and
last result say of the cached state is `LogInv`; that a worker past the start of an
execution carries the version of the intent is `CarriedInv`. `Final` is an action
property of the same induction: no step takes a decision, a task or a realization
back. Which proposals a sweep takes, and in which order, does not matter to any of them.

`OperationProofs`, for any `retry` calls and number of attempts. `TakingTurns`, while
`Undisturbed`: a record is queued only once its dispatch is over (`TurnsInv`), reads
"running" under a replay (`ReplayInv`), and while an attempt stands whose failure is not on
record, once a verdict is due or once the record is completed, no sweep finds it ready
(`StandingInv`, `VerdictInv`, `CompletedInv`). `ReplaysFollowFailures` is the action
property of that induction. The second part is the Verify job, whose
launch is such a record. `update_job` overwrites whatever the row holds, and still
one spawn follows from two facts: nobody writes "prepared" (`GoalInv`), and only the
claim of a prepared job leads to a spawn (`LaunchInv`). No job is stranded because a
handler returns only past the launch (`ReportInv`), wherever a marking goes on (`ThenInv`).

`TruthLedgerProofs`, for any finite set of claims, people, rooms and either policy. How
the ledger reads at a place is settled by the events up to it (`Settled`, `Untouched`),
so an event keeps the grounds it was appended with whatever is appended behind it
(`OldEvents`, `EventsInv`; who may append what is `AttestedInv`): the audit is clean because each operation has its grounds at
the moment it appends (`EventsHold`). The line of succession is the other half
(`LineInv`): a supersession in force is the authority by which its predecessor ended, what
is superseded is so by one in force, and a successor falls after its predecessor (`RankInv`),
which makes a cycle impossible; `HeldInv` leaves one head. A step is either `Quiet`,
and keeps the line, or `Succeeds`: it confirms a claim and ends its predecessors in one
transaction (`SuccessionKeepsLine`). `ReadersAgree` is the agreement of the two
readers, `InSight` an action property. Claims are finite by `LedgerAssumption`.

`DocumentAgentProofs`, for any turns, replies and models and any number of
generations and faults. The four properties of the run are theorems. The cursor
skips nothing because every time is drawn once, the pending feedback's included
(`TurnInv`), so that the next turn is unique (`NextIsUnique`). A receipt keeps its
answer because a message without an author is about nothing (`ReplyInv`): an
insert can therefore not overwrite a message some receipt is bound to
(`ReplyBinds`). That no driver is lost is an invariant of the steps of a wake
(`DriverInv`): before a spawn none is alive, and afterwards one is, the lease's own,
until its pid is recorded or it is discarded. That a revoked generation is mute
needs that an acknowledged turn is behind the cursor (`RevokedIsIdle`).

Assumptions: the named `ASSUME`s of the modules (finite callers, a roster without
repetition, positive limits); TLC evaluates them on every run.

What is proved is all of the safety: every invariant and every action property a
run shows to hold, both refinements included, and beside them the types, `NeverOverAdmit` of the broker, the finality of the
proposals' decisions and the backbone's promises beside a sweep. The inductive
invariants were checked by TLC on the runs' instances before they were proved.

Only model-checked: the liveness (`SlotsAreUsed`, `ExpiredCallerLeaves`,
`EventuallySettled`, `CatchesUp`, `ApprovedIsRealized`, `QueueDrains`, `JobSettles`).
Under fairness it needs ENABLED, which the prover does not handle. Of the types of
`ActionProposals` the two sequences (`order`, and the batch of each worker) are left
unproved: they are built by `SelectSeq`, which is recursive, and facts about it need an
induction over data that the prover cannot instantiate.

## Divergences met while modelling

Where the code and what is written about it part, beside the finding of
`EventRetention_reaps`. The properties hold of what the code does, so each of these
is either excused by name (a mishap, `late`, `Undisturbed`) or outside a property. A
property that excuses an accident does not catch it: it shows that nothing else does the
same harm. `hazards` in `PROJECT.json` says in a note where that is so.

Broker, events and poller
- Callers of one class are admitted in any order: the counters keep no order and
  `notify_all` wakes everybody (`broker.py:351,367,372`), against "Within a class,
  FIFO." (`broker.py:22`, and `97-98`).
- A poll that dies between publish and save announces the change again under a
  new uuid (`poller.py:89`), which no inbox can recognise ("the spine's inbox makes
  the re-emit idempotent", `state.py:6`). With two polls the last event may announce an older value than the cursor; a poll that
  reads the emptied file takes the current value as an unreported baseline.
- A consumer registered at offset 0 after old rows were listed can lose rows appended
  before its registration (`events/artifact.py:67`); an offset row outlives its
  consumer and pins the log (`events/store.py:244`).
- `source_action` records a fire for the rate limit after the action ran
  (`source_action.py:110`), and takes a consent refusal for a result, so the event is
  dropped (`source_action.py:84`).

Threads
- A Later event leaves the lock behind the log, so that refreshing and retrying,
  which the conflict asks for (`engine.py:233`), never succeeds (`service.py:4122`;
  likewise `redirect_action`, `4020`).
- `execution_runner.py:80` calls `_record_failure`, which does not exist: a run that
  cannot start leaves the thread executing, against its docstring (`53-54`).
- `append_event` checks and inserts in two statements (`store.py:690`), where
  `knowledge/store/threads/event-log.md:34` has "Two concurrent submissions race; one
  succeeds, one retries."
- The first request of a thread whose lock is still NULL is never checked
  (`engine.py:267-270`), however late it lands: three requests suffice for two runs.
  And a transition pinned to an event may read the row before that event's own write of
  it (`engine.py:238` reads the row, and the lock it is given is newer): four
  requests. Both are named in `OneRunAtATime`.
- Two children that end at once may leave the umbrella in MONITORING for ever: both
  report, the lock ends behind the log, and both closing transitions are refused and
  swallowed (`decompose.py:278-284`; `decompose.py:12` and `229` say otherwise).
- `done_cleanup_successful` has no cascade handler (`decompose.py:351-353`, "Wire
  `cascade_handler` to every terminal state."), and dismissing an umbrella leaves its
  children alone although `fsm.py:249` says "cascades to children".
- "Approve all" imports triggers that do not exist (`group.py:518-521`) and always fails.
- `spawn_empty_group` inserts the child before its append is checked, so that a
  conflict leaves an orphan; `move_item` reads and rewrites two lists without a lock.

Operations and Verify jobs
- When `_pre_verify_pwu` finds that an uncertain write has landed, `_replay` returns
  before the record is written (`retry_sweep.py:609-611` against `705-719`): the
  session is told of success and the record is later retired as failed
  (`tests/unit/test_retry_queue.py:1146`, "mark complete, skill NEVER called").
- `retry` reads, checks and writes without the lock file; a manual success leaves
  `queued` set; the sweep draws `now` once, so late records of a long sweep get a lease
  that has lapsed; expiry sends no message although the gateway's hint says to wait.
- `update_job` may write a status over a newer one ("Never regress
  submitted/completed state back to running.", `verify_orchestration.py:1632`); the
  properties of the run hold nevertheless.

Ledger
- A successor whose predecessor was redacted can never be confirmed, and the loser
  of two successors only be rejected; each attempt uses up the person's gesture.
- A consent prompt binds the claim and its receipts only (`review.py:174-204`): a
  `supersedes` link added after it was shown is carried out unseen.
  `SupersededInSight` claims the dashboard's decisions alone.

Document agent
- `post_feedback_message` (`cowork/conversations.py:298-304`) lends
  `post_user_message` a connection without `BEGIN IMMEDIATE`, so the time of the turn
  is drawn before the write lock ("on an active write transaction",
  `conversations/store.py:744`). An ordinary post committed and acknowledged in between
  leaves the feedback behind the cursor, and it is never delivered, although
  `store.py:1826` and `knowledge/store/conversations/conversation_receive.md` promise
  the oldest turn that was not acknowledged. `NothingSkipped` names such turns `late`,
  and shows that it is the only way to lose one.
- A dashboard that dies between claim and spawn leaves a starting lease for which
  wakes of the next twenty seconds do nothing.

## What is not modelled

See the inventory and `PROJECT.json`. Within the modelled parts:

- Everywhere: metrics, logging, wording; ties of timestamps.
- Events: the lossy dashboard fan-out; what a consumer does inside its processor.
- Engine: priorities and budget of the LLM queue; how confidence selects an autonomy
  branch (a free choice); `COMBINED` inference and the triggers edited, rejected and
  timeout, for which no caller exists; HANDED_OFF.
- Family: `decompose_thread` and `force_close_parent`, which nothing calls; the dedup
  check of a pipeline; a family within a family.
- Operations: workflow resumption (no caller passes a workflow context), backoff
  times, user alerts. Verify jobs: what the worker reads between its start and its
  submission, and what its output means for the document.
- Ledger: quarantine of evidence, reasons and intervals of a supersession, dedup by
  claim hash, identity and expiry of a gesture, premises of another store; the two
  content policies are one flag, and a minimum of supports is none or one (a claim cites
once). Three choices allow more than the code does: a consent
  prompt may show any readable claim, the negation of a rejected claim may be any other
  claim, and the dashboard's digest omits the status of conflicting claims. A link
  retracted and created again at the same place is left out.
- Agent: questions and answers, form assistance, redaction, disclosure accounting,
  the choice of a model, and what a fetch returns.

Parts left out as a whole: the Markdown databases and journal capture (merging of two
representations, a pure function over their contents); scheduler, consent and the
inference fleet (one call at a time over small tables); the workflow conductor and
the notifications (candidates for a later model, next to the operation records); presentation, search,
integrations and settings (sequential, or input and output).

## Plan

1. Done: broker and gate; backbone; retention; poller; engine of one thread; families;
   proposals; operation records; Verify jobs; the ledger; the document agent; proofs of
   all their safety, and that the broker implements `AdmissionGate` and the backbone
   `DeliveryLog`.
2. Proofs: the document agent's turns, and the operation record while nobody calls
   `retry`, against abstract specifications of their own.
3. Models: the task list that is kept in Markdown and in SQLite; the LLM queue with
   its budget ledger; the scheduler with its instance lock.
