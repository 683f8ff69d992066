----------------------------- MODULE SourcePoller -----------------------------
(***************************************************************************)
(* One pull source of the event backbone (work_buddy/events/sources): a poll *)
(* loads the cursor, fetches the watched value, publishes a change and then   *)
(* saves the cursor. Nothing keeps the cron job's poll and one requested      *)
(* through the gateway apart, and a poll may die, or its fetch or publish may *)
(* raise, between any two of these steps.                                     *)
(***************************************************************************)
EXTENDS Integers

CONSTANTS
    Pollers,    \* the processes that may poll this source at the same time
    Values,     \* what the source may show (content hashes of it)
    None,       \* no cursor: no state file, or one that does not parse
    MaxChanges, \* bound: changes of the watched value
    MaxFailures \* bound: crashes, failed fetches and failed publishes

ASSUME PollerAssumption ==
    /\ None \notin Values
    /\ MaxChanges \in Nat /\ MaxFailures \in Nat

VARIABLES
    reportAll,  \* cursor.from == all: the first observation is reported too
    value,      \* what the source shows now
    cursor,     \* last_hash in the state file
    published,  \* the changes the log reports, their order and repetitions aside
    poll,       \* per poller: its place, the cursor it loaded, its fetch
    baselines,  \* history: values a poll without a cursor took for its baseline
    changes, failures

pollerVars == <<reportAll, value, cursor, published, poll, baselines, changes, failures>>

Idle == [pc |-> "idle", prev |-> None, seen |-> None]

Events == [prev : Values \cup {None}, current : Values]

(* An event without a previous value is published only when cursor.from is   *)
(* all.                                                                      *)
PollerTypeOK ==
    /\ reportAll \in BOOLEAN
    /\ value \in Values
    /\ cursor \in Values \cup {None}
    /\ published \subseteq Events
    /\ \A e \in published : e.prev = None => reportAll
    /\ poll \in [Pollers -> [pc : {"idle", "loaded", "fetched", "saving", "writing"},
                             prev : Values \cup {None}, seen : Values \cup {None}]]
    /\ baselines \subseteq Values
    /\ changes \in 0..MaxChanges /\ failures \in 0..MaxFailures

PollerInit ==
    /\ reportAll \in BOOLEAN
    /\ value \in Values /\ cursor = None /\ published = {}
    /\ poll = [p \in Pollers |-> Idle]
    /\ baselines = {}
    /\ changes = 0 /\ failures = 0

Change(v) ==
    /\ v # value /\ changes < MaxChanges
    /\ value' = v /\ changes' = changes + 1
    /\ UNCHANGED <<reportAll, cursor, published, poll, baselines, failures>>

At(p, place) == poll[p].pc = place
Goto(p, place) == poll' = [poll EXCEPT ![p].pc = place]

(* A due poll begins: load_state. *)
Load(p) ==
    /\ At(p, "idle")
    /\ poll' = [poll EXCEPT ![p] = [pc |-> "loaded", prev |-> cursor, seen |-> None]]
    /\ UNCHANGED <<reportAll, value, cursor, published, baselines, changes, failures>>

Fetch(p) ==
    /\ At(p, "loaded")
    /\ poll' = [poll EXCEPT ![p].pc = "fetched", ![p].seen = value]
    /\ UNCHANGED <<reportAll, value, cursor, published, baselines, changes, failures>>

Fires(q) == q.seen # q.prev /\ (q.prev # None \/ reportAll)

PublishOrGoOn(p) ==
    /\ At(p, "fetched") /\ Fires(poll[p])
    /\ published' \in {published, published \cup {[prev |-> poll[p].prev, current |-> poll[p].seen]}}
    /\ Goto(p, "saving")
    /\ UNCHANGED <<reportAll, value, cursor, baselines, changes, failures>>

(* new_event draws a fresh uuid for the id, so the log takes every event. *)
PublishChange(p) ==
    /\ At(p, "fetched") /\ Fires(poll[p])
    /\ published' = published \cup {[prev |-> poll[p].prev, current |-> poll[p].seen]}
    /\ Goto(p, "saving")
    /\ UNCHANGED <<reportAll, value, cursor, baselines, changes, failures>>

SkipUnchanged(p) ==
    /\ At(p, "fetched") /\ ~Fires(poll[p])
    /\ baselines' = baselines \cup ({poll[p].seen} \ {poll[p].prev})
    /\ Goto(p, "saving")
    /\ UNCHANGED <<reportAll, value, cursor, published, changes, failures>>

(* save_state opens the file for writing, which empties it, ... *)
Truncate(p) ==
    /\ At(p, "saving")
    /\ cursor' = None
    /\ Goto(p, "writing")
    /\ UNCHANGED <<reportAll, value, published, baselines, changes, failures>>

WriteIfFired(p) ==
    /\ At(p, "writing")
    /\ cursor' = IF Fires(poll[p]) THEN poll[p].seen ELSE cursor
    /\ poll' = [poll EXCEPT ![p] = Idle]
    /\ UNCHANGED <<reportAll, value, published, baselines, changes, failures>>

(* ... and then writes the new cursor, whatever it holds by then. *)
Write(p) ==
    /\ At(p, "writing")
    /\ cursor' = poll[p].seen
    /\ poll' = [poll EXCEPT ![p] = Idle]
    /\ UNCHANGED <<reportAll, value, published, baselines, changes, failures>>

(* A fetch or publish that raises ends the poll without a save; so does the  *)
(* death of the process, wherever the poll is.                               *)
Abandon(p) ==
    /\ ~At(p, "idle") /\ failures < MaxFailures
    /\ failures' = failures + 1
    /\ poll' = [poll EXCEPT ![p] = Idle]
    /\ UNCHANGED <<reportAll, value, cursor, published, baselines, changes>>

Poll(p) ==
    Load(p) \/ Fetch(p) \/ PublishChange(p) \/ SkipUnchanged(p) \/ Truncate(p) \/ Write(p)

PollerNext ==
    \/ \E v \in Values : Change(v)
    \/ \E p \in Pollers : Poll(p) \/ Abandon(p)

(* The job polls again and again; nothing makes the source change. *)
PollerSpec == PollerInit /\ [][PollerNext]_pollerVars
FairPollerSpec == PollerSpec /\ \A p \in Pollers : WF_pollerVars(Poll(p))

----------------------------------------------------------------------------
(* Properties                                                              *)

Announced == {e.current : e \in published}

(* No value becomes the cursor unannounced, unless it was the baseline of a  *)
(* poll that found no cursor: a change is lost only with the cursor, whatever *)
(* polls overlap or die (poll_source, save_state).                            *)
CursorFollowsTheLog == cursor # None => cursor \in Announced \cup baselines

(* Once the source settles, the cursor is what the source shows, but for the *)
(* moments the file is empty, and the log knows the value too, although the  *)
(* slower of two polls may first put an older value back (poll_due_sources). *)
CatchesUp ==
    /\ <>[](cursor \in {value, None} /\ value \in Announced \cup baselines)
    /\ []<>(cursor = value)
==============================================================================
