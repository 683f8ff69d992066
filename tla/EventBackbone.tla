---------------------------- MODULE EventBackbone ----------------------------
(***************************************************************************)
(* The durable event log of work_buddy/events: producers in any process    *)
(* append rows to one SQLite table (store.py), and the single event-drain   *)
(* thread of the sidecar (drain.py) delivers them to every registered       *)
(* consumer (dispatcher.py), each with its own committed offset, a bounded  *)
(* number of attempts per event, and a dead-letter table.                   *)
(*                                                                         *)
(* Every SQLite call of the drain is a transaction of its own, so the       *)
(* process may die, and a call may raise, between any two of them.          *)
(***************************************************************************)
EXTENDS Integers, Sequences, FiniteSets

CONSTANTS
    Roster,      \* consumers, in the order the daemon registers them
    Ids,         \* the (source, id) pairs producers publish
    Handles,     \* Handles[c]: the events whose type consumer c subscribes to
    Gated,       \* consumers that declare a consent action
    MaxAttempts, \* MAX_ATTEMPTS
    ReadLimit,   \* READ_LIMIT
    MaxRows,     \* bound: rows ever appended
    MaxCrashes,  \* bound: deaths of the sidecar process
    MaxFaults    \* bound: SQLite calls that raise

Consumers == {Roster[i] : i \in DOMAIN Roster}
Rows == 1..MaxRows

ASSUME RosterAssumption ==
    /\ Roster \in Seq(Consumers)
    /\ Len(Roster) > 0
    /\ \A i, j \in DOMAIN Roster : Roster[i] = Roster[j] => i = j
ASSUME SubscriptionsAssumption ==
    /\ Handles \in [Consumers -> SUBSET Ids]
    /\ Gated \subseteq Consumers
ASSUME LimitsAssumption ==
    /\ MaxAttempts \in Nat \ {0}
    /\ ReadLimit \in Nat \ {0}
    /\ MaxRows \in Nat
    /\ MaxCrashes \in Nat
    /\ MaxFaults \in Nat

VARIABLES
    row,      \* row[seq]: the event that was given this seq; seqs are never reused
    live,     \* the seqs still in the events table
    offset,   \* consumer_offsets: last_seq, or NoRow
    since,    \* history: the newest seq when a consumer's offset row was created
    dlq,      \* event_dlq: pairs <<seq, consumer>>
    ran,      \* history: <<seq, consumer>> whose processor returned normally
    granted,  \* gated consumers whose consent is granted now
    release,  \* how many consumers of Roster the installed code registers
    up,       \* how many of them this process has registered
    pc,       \* where the sidecar's drain thread is
    at,       \* index in Roster of the consumer being served
    batch,    \* rows of read_since this consumer has still to go through
    attempts, \* _attempts: failures per <<seq, consumer>>, in memory
    crashes, faults

log == <<row, live>>
table == <<offset, since, dlq>>
thread == <<up, pc, at, batch, attempts>>
vars == <<row, live, offset, since, dlq, ran, granted, release, up, pc, at,
          batch, attempts, crashes, faults>>

NoRow == -1
Places == {"down", "boot", "idle", "consumer", "event", "ran", "bury", "buried"}

TypeOK ==
    /\ row \in Seq(Ids) /\ Len(row) <= MaxRows
    /\ live \subseteq 1..Len(row)
    /\ offset \in [Consumers -> {NoRow} \cup 0..Len(row)]
    /\ since \in [Consumers -> 0..Len(row)]
    /\ dlq \subseteq (1..Len(row)) \X Consumers
    /\ ran \subseteq (1..Len(row)) \X Consumers
    /\ granted \subseteq Gated
    /\ release \in DOMAIN Roster
    /\ up \in 0..release
    /\ pc \in Places
    /\ at \in 1..release + 1
    /\ batch \subseteq 1..Len(row)
    /\ attempts \in [Rows \X Consumers -> 0..MaxAttempts + MaxFaults]
    /\ crashes \in 0..MaxCrashes
    /\ faults \in 0..MaxFaults

Init ==
    /\ row = <<>> /\ live = {}
    /\ offset = [c \in Consumers |-> NoRow]
    /\ since = [c \in Consumers |-> 0]
    /\ dlq = {} /\ ran = {} /\ granted = {}
    /\ release \in DOMAIN Roster
    /\ up = 0 /\ pc = "boot" /\ at = 1 /\ batch = {}
    /\ attempts = [p \in Rows \X Consumers |-> 0]
    /\ crashes = 0 /\ faults = 0

----------------------------------------------------------------------------
(* Producers: any process, at any time.                                    *)

IsDuplicate(e) == \E s \in live : row[s] = e

(* The insert is the dedup claim: INSERT OR IGNORE on UNIQUE(source, id). *)
Publish(e) ==
    /\ Len(row) < MaxRows
    /\ IF IsDuplicate(e)
         THEN UNCHANGED log
         ELSE /\ row' = Append(row, e)
              /\ live' = live \cup {Len(row) + 1}
    /\ UNCHANGED <<table, ran, granted, release, thread, crashes, faults>>

(* The user grants a consent action, or the grant runs out. *)
Grant(c) ==
    /\ granted' = granted \cup {c}
    /\ UNCHANGED <<log, table, ran, release, thread, crashes, faults>>

Lapse(c) ==
    /\ granted' = granted \ {c}
    /\ UNCHANGED <<log, table, ran, release, thread, crashes, faults>>

----------------------------------------------------------------------------
(* The sidecar process: start, registration of the consumers, death.       *)

(* A restart may run newer code, which registers more consumers. *)
Start ==
    /\ pc = "down"
    /\ pc' = "boot"
    /\ release' \in release..Len(Roster)
    /\ UNCHANGED <<log, table, ran, granted, up, at, batch, attempts, crashes,
                   faults>>

RegisterOverwriting ==
    /\ pc = "boot" /\ up < release
    /\ up' = up + 1
    /\ offset' = [offset EXCEPT ![Roster[up + 1]] = 0]
    /\ since' = [since EXCEPT ![Roster[up + 1]] = Len(row)]
    /\ UNCHANGED <<log, dlq, ran, granted, release, pc, at, batch, attempts,
                   crashes, faults>>

RegisterWithoutPin ==
    /\ pc = "boot" /\ up < release
    /\ up' = up + 1
    /\ since' = [since EXCEPT ![Roster[up + 1]] = Len(row)]
    /\ UNCHANGED <<log, offset, dlq, ran, granted, release, pc, at, batch,
                   attempts, crashes, faults>>

(* register_consumer: into the registry, and ensure_offset(id, 0). *)
Register ==
    /\ pc = "boot" /\ up < release
    /\ LET c == Roster[up + 1] IN
         IF offset[c] = NoRow
           THEN /\ offset' = [offset EXCEPT ![c] = 0]
                /\ since' = [since EXCEPT ![c] = Len(row)]
           ELSE UNCHANGED <<offset, since>>
    /\ up' = up + 1
    /\ UNCHANGED <<log, dlq, ran, granted, release, pc, at, batch, attempts,
                   crashes, faults>>

StartDrain ==
    /\ pc = "boot" /\ up = release
    /\ pc' = "idle"
    /\ UNCHANGED <<log, table, ran, granted, release, up, at, batch, attempts,
                   crashes, faults>>

(* The registry, the loop's locals and the attempt counts die with the      *)
(* process; the database does not.                                          *)
Crash ==
    /\ pc # "down" /\ crashes < MaxCrashes
    /\ crashes' = crashes + 1
    /\ pc' = "down" /\ up' = 0 /\ at' = 1 /\ batch' = {}
    /\ attempts' = [p \in Rows \X Consumers |-> 0]
    /\ UNCHANGED <<log, table, ran, granted, release, faults>>

----------------------------------------------------------------------------
(* One tick of the drain thread.                                           *)

Current == Roster[at]
FirstOf(S) == CHOOSE s \in S : \A t \in S : s <= t
Item == FirstOf(batch)
Delivery == <<Item, Current>>
Subscribed == row[Item] \in Handles[Current]
Allowed == Current \notin Gated \/ Current \in granted

(* The first ReadLimit rows above an offset, as read_since returns them. *)
ReadSince(n) ==
    LET above == {s \in live : s > n} IN
    {s \in above : Cardinality({t \in above : t < s}) < ReadLimit}

Commit == offset' = [offset EXCEPT ![Current] = Item]
Uncount == attempts' = [attempts EXCEPT ![Delivery] = 0]
NextItem == pc' = "event" /\ batch' = batch \ {Item} /\ UNCHANGED at
NextConsumer == pc' = "consumer" /\ batch' = {} /\ at' = at + 1

Tick ==
    /\ pc = "idle"
    /\ pc' = "consumer" /\ at' = 1
    /\ UNCHANGED <<log, table, ran, granted, release, up, batch, attempts,
                   crashes, faults>>

ReadBatch ==
    /\ pc = "consumer" /\ at <= up
    /\ pc' = "event" /\ batch' = ReadSince(offset[Current])
    /\ UNCHANGED <<log, table, ran, granted, release, up, at, attempts,
                   crashes, faults>>

EndTick ==
    /\ pc = "consumer" /\ at > up
    /\ pc' = "idle"
    /\ UNCHANGED <<log, table, ran, granted, release, up, at, batch, attempts,
                   crashes, faults>>

BatchDone ==
    /\ pc = "event" /\ batch = {}
    /\ NextConsumer
    /\ UNCHANGED <<log, table, ran, granted, release, up, attempts, crashes,
                   faults>>

(* An event the consumer does not subscribe to: its offset moves past it. *)
PassOver ==
    /\ pc = "event" /\ batch # {} /\ ~Subscribed
    /\ Commit /\ NextItem
    /\ UNCHANGED <<log, since, dlq, ran, granted, release, up, attempts,
                   crashes, faults>>

(* policy_check says "prompt": leave the offset, serve the next consumer. *)
Hold ==
    /\ pc = "event" /\ batch # {} /\ Subscribed /\ ~Allowed
    /\ NextConsumer
    /\ UNCHANGED <<log, table, ran, granted, release, up, attempts, crashes,
                   faults>>

Run ==
    /\ pc = "event" /\ batch # {} /\ Subscribed /\ Allowed
    /\ pc' = "ran" /\ ran' = ran \cup {Delivery}
    /\ UNCHANGED <<log, table, granted, release, up, at, batch, attempts,
                   crashes, faults>>

CommitRunTooLow ==
    /\ pc = "ran"
    /\ offset' = [offset EXCEPT ![Current] = Item - 1]
    /\ Uncount /\ NextItem
    /\ UNCHANGED <<log, since, dlq, ran, granted, release, up, crashes, faults>>

CommitRun ==
    /\ pc = "ran"
    /\ Commit /\ Uncount /\ NextItem
    /\ UNCHANGED <<log, since, dlq, ran, granted, release, up, crashes, faults>>

FailAndGoOn ==
    /\ attempts' = [attempts EXCEPT ![Delivery] = @ + 1]
    /\ IF attempts'[Delivery] >= MaxAttempts
         THEN pc' = "bury" /\ UNCHANGED <<at, batch>>
         ELSE NextItem
    /\ UNCHANGED <<log, table, ran, granted, release, up, crashes>>

FailNeverBuried ==
    /\ attempts' = [attempts EXCEPT
           ![Delivery] = IF @ < MaxAttempts THEN @ + 1 ELSE @]
    /\ NextConsumer
    /\ UNCHANGED <<log, table, ran, granted, release, up, crashes>>

(* The except branch: count the failure; bury the event at the limit, or    *)
(* leave the offset where it is and retry at the next tick.                 *)
Fail ==
    /\ attempts' = [attempts EXCEPT ![Delivery] = @ + 1]
    /\ IF attempts'[Delivery] >= MaxAttempts
         THEN pc' = "bury" /\ UNCHANGED <<at, batch>>
         ELSE NextConsumer
    /\ UNCHANGED <<log, table, ran, granted, release, up, crashes>>

RunFails ==
    /\ pc = "event" /\ batch # {} /\ Subscribed /\ Allowed
    /\ Fail
    /\ UNCHANGED faults

(* The commit after run() sits in the same try: when it raises, a delivery  *)
(* that succeeded counts as a failed attempt.                               *)
CommitRunFails ==
    /\ pc = "ran" /\ faults < MaxFaults
    /\ faults' = faults + 1
    /\ Fail

DeadLetter ==
    /\ pc = "bury"
    /\ dlq' = dlq \cup {Delivery}
    /\ pc' = "buried"
    /\ UNCHANGED <<log, offset, since, ran, granted, release, up, at, batch,
                   attempts, crashes, faults>>

CommitBuried ==
    /\ pc = "buried"
    /\ Commit /\ Uncount /\ NextItem
    /\ UNCHANGED <<log, since, dlq, ran, granted, release, up, crashes, faults>>

(* A store call outside the try, or in the except branch, raises: the tick  *)
(* is over, EventDrain._run logs it and waits for the next one.             *)
TickFails ==
    /\ \/ pc = "consumer" /\ at <= up
       \/ pc = "event" /\ batch # {} /\ ~Subscribed
       \/ pc \in {"bury", "buried"}
    /\ faults < MaxFaults
    /\ faults' = faults + 1
    /\ pc' = "idle" /\ batch' = {}
    /\ UNCHANGED <<log, table, ran, granted, release, up, at, attempts, crashes>>

Drain ==
    \/ Tick \/ ReadBatch \/ EndTick \/ BatchDone \/ PassOver \/ Hold
    \/ Run \/ CommitRun \/ RunFails \/ CommitRunFails
    \/ DeadLetter \/ CommitBuried \/ TickFails

Next ==
    \/ \E e \in Ids : Publish(e)
    \/ \E c \in Gated : Grant(c) \/ Lapse(c)
    \/ Start \/ Register \/ StartDrain \/ Crash
    \/ Drain

Spec == Init /\ [][Next]_vars

(* The registering thread and the drain thread keep running while their     *)
(* process lives. Nothing forces the process to be started again, consent   *)
(* to be granted, a processor to succeed or a store call to raise.          *)
Fairness == WF_vars(Register \/ StartDrain) /\ WF_vars(Drain)
FairSpec == Spec /\ Fairness

----------------------------------------------------------------------------
(* Properties                                                              *)

Settled(s, c) == <<s, c>> \in ran \/ <<s, c>> \in dlq

(* An offset never passes an event its consumer subscribes to before the    *)
(* event was processed or is in the dead-letter table, whatever crashes,    *)
(* failed commits and retries came between (dispatcher.drain).              *)
OffsetNeverSkips ==
    \A c \in Consumers : \A s \in live :
        s <= offset[c] /\ row[s] \in Handles[c] => Settled(s, c)

(* A consumer's processor is not run again on an event it has completed,    *)
(* unless a crash or a failed store call kept the offset from moving.       *)
RunsOnceUnlessFault ==
    [][pc = "event" /\ pc' = "ran" =>
         Delivery \notin ran \/ crashes + faults > 0]_vars

(* A committed offset never moves back: not at a restart, where             *)
(* ensure_offset runs again, nor when a batch is read again.                *)
OffsetMonotone ==
    [][\A c \in Consumers : offset'[c] >= offset[c]]_vars

(* Events are offered to a processor in seq order: when one completes, every *)
(* earlier row this consumer subscribes to was settled before it.           *)
DeliveredInOrder ==
    [][pc = "event" /\ pc' = "ran" =>
         \A s \in live : s < Item /\ row[s] \in Handles[Current]
                           => Settled(s, Current)]_vars

(* Behind its crashes, retries, batches and holds the drain is a log that    *)
(* every consumer reads in order, past each event only when it was processed *)
(* or buried; the event is this consumer's next one at the moment its        *)
(* processor runs, its letter is written or its offset moves.                *)
Log == INSTANCE DeliveryLog
         WITH events <- row, position <- offset, processed <- ran, buried <- dlq
ImplementsLog == Log!Init /\ [][Log!Next]_(Log!vars)

(* A row in the log is settled or passed over by each consumer that needs   *)
(* no consent it lacks, as long as the process lives: neither a poison      *)
(* event, nor a consumer waiting for consent, holds up the others.          *)
EventuallySettled ==
    \A c \in Consumers, s \in Rows :
        <>[](c \notin Gated \/ c \in granted) =>
          ((s \in live /\ offset[c] # NoRow)
              ~> (offset[c] >= s \/ s \notin live \/ pc = "down"))
==============================================================================
