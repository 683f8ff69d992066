---------------------------- MODULE EventRetention ----------------------------
(***************************************************************************)
(* The artifact_cleanup sweep over the events table, composed with the      *)
(* backbone it runs beside: Artifact.prune enumerates the expired rows, asks *)
(* the retention predicate of events/artifact.py about each one, and hands   *)
(* the rest to the Delete action. The predicate reads min_live_offset and    *)
(* the dead letters in two queries and remembers both for _SNAPSHOT_TTL_S.   *)
(*                                                                         *)
(* The replay window of external events is not a variable: their time to     *)
(* live (14 days) is longer than the window (7), so an expired one is past it. *)
(***************************************************************************)
EXTENDS EventBackbone, FiniteSetsExt

CONSTANTS
    SpelledSeq,  \* the seq an event id reads as when it is a numeral, 0 if none
    MaxSweeps    \* bound: sweeps started

ASSUME RetentionAssumption ==
    /\ SpelledSeq \in [Ids -> Nat]
    /\ MaxSweeps \in Nat

VARIABLES
    expired,   \* rows whose expires_at has passed
    sweep,     \* where the sweep is
    listed,    \* expired rows find_expired has still to put to the predicate
    doomed,    \* rows it found: expired, and not kept by the predicate
    memo,      \* the predicate's snapshot: min offset, dead letters
    memoTop,   \* history: the newest seq when the snapshot was begun
    fresh,     \* the snapshot is younger than _SNAPSHOT_TTL_S
    sweeps

sweeper == <<sweep, listed, doomed, memo, memoTop, fresh, sweeps>>
retentionVars == <<vars, expired, sweeper>>

Unbounded == MaxRows + 1    \* sys.maxsize: above every seq

RetentionTypeOK ==
    /\ expired \subseteq live
    /\ sweep \in {"idle", "judging", "snapping", "snapped"}
    /\ listed \subseteq Rows /\ doomed \subseteq Rows
    /\ memo \in [min : 0..Unbounded, dlq : SUBSET Rows]
    /\ memoTop \in 0..MaxRows
    /\ fresh \in BOOLEAN
    /\ sweeps \in 0..MaxSweeps

RetentionInit ==
    /\ Init
    /\ expired = {} /\ sweep = "idle" /\ listed = {} /\ doomed = {}
    /\ memo = [min |-> 0, dlq |-> {}] /\ memoTop = 0 /\ fresh = FALSE
    /\ sweeps = 0

(* min_live_offset: over the rows of consumer_offsets, whoever runs now. *)
MinLiveOffset ==
    LET offsets == {offset[c] : c \in Consumers} \ {NoRow} IN
    IF offsets = {} THEN Unbounded ELSE Min(offsets)

(* A row's time to live passes. The shortest is hours, so a snapshot begun  *)
(* before the row was appended is stale by then.                            *)
Expire(s) ==
    /\ s \in live \ expired
    /\ expired' = expired \cup {s}
    /\ fresh' = (fresh /\ s <= memoTop)
    /\ UNCHANGED <<vars, sweep, listed, doomed, memo, memoTop, sweeps>>

SnapshotAges ==
    /\ fresh
    /\ fresh' = FALSE
    /\ UNCHANGED <<vars, expired, sweep, listed, doomed, memo, memoTop,
                   sweeps>>

(* iter_records fetches every row before the first is judged. *)
List ==
    /\ sweep = "idle" /\ sweeps < MaxSweeps
    /\ sweep' = "judging" /\ sweeps' = sweeps + 1
    /\ listed' = expired /\ doomed' = {}
    /\ UNCHANGED <<vars, expired, memo, memoTop, fresh>>

QueryOffsets ==
    memo' = [memo EXCEPT !.min = MinLiveOffset] /\ memoTop' = Len(row)
QueryLetters ==
    memo' = [memo EXCEPT !.dlq = {p[1] : p \in dlq}] /\ UNCHANGED memoTop

RefreshLettersFirst ==
    /\ \/ /\ sweep = "judging" /\ listed # {} /\ ~fresh
          /\ sweep' = "snapping" /\ fresh' = TRUE
          /\ QueryLetters
       \/ /\ sweep = "snapping"
          /\ sweep' = "snapped"
          /\ QueryOffsets /\ UNCHANGED fresh
    /\ UNCHANGED <<vars, expired, listed, doomed, sweeps>>

(* _refresh: min_live_offset first, then dlq_seqs. The snapshot's age counts *)
(* from before the first query, and the row at hand is judged by it anyway.  *)
Refresh ==
    /\ \/ /\ sweep = "judging" /\ listed # {} /\ ~fresh
          /\ sweep' = "snapping" /\ fresh' = TRUE
          /\ QueryOffsets
       \/ /\ sweep = "snapping"
          /\ sweep' = "snapped"
          /\ QueryLetters /\ UNCHANGED fresh
    /\ UNCHANGED <<vars, expired, listed, doomed, sweeps>>

(* _events_keep. *)
Keep(s) == s > memo.min \/ s \in memo.dlq

Judge ==
    /\ sweep = "snapped" \/ (sweep = "judging" /\ listed # {} /\ fresh)
    /\ sweep' = "judging"
    /\ LET s == FirstOf(listed) IN
         /\ listed' = listed \ {s}
         /\ doomed' = IF Keep(s) THEN doomed ELSE doomed \cup {s}
    /\ UNCHANGED <<vars, expired, memo, memoTop, fresh, sweeps>>

(* Delete.apply: delete_where with _record_id_in, which compares the column  *)
(* named "id" (the event's id, not the seq the refs carry) to the victims.   *)
IsVictim(s) == SpelledSeq[row[s]] \in doomed

DeleteRows ==
    /\ sweep = "judging" /\ listed = {}
    /\ sweep' = "idle" /\ doomed' = {}
    /\ live' = {s \in live : ~IsVictim(s)}
    /\ expired' = expired \cap live'
    /\ UNCHANGED <<row, table, ran, granted, release, thread, crashes, faults,
                   listed, memo, memoTop, fresh, sweeps>>

(* The process the sweep runs in dies, and the snapshot with it. *)
SweeperDies ==
    /\ sweep # "idle" /\ crashes < MaxCrashes
    /\ crashes' = crashes + 1
    /\ sweep' = "idle" /\ listed' = {} /\ doomed' = {} /\ fresh' = FALSE
    /\ UNCHANGED <<log, table, ran, granted, release, thread, faults, expired,
                   memo, memoTop, sweeps>>

Sweep ==
    \/ List \/ Refresh \/ Judge \/ DeleteRows
    \/ SweeperDies \/ SnapshotAges
    \/ \E s \in Rows : Expire(s)

RetentionNext ==
    \/ Next /\ UNCHANGED <<expired, sweeper>>
    \/ Sweep

RetentionSpec == RetentionInit /\ [][RetentionNext]_retentionVars

----------------------------------------------------------------------------
(* Properties                                                              *)

(* The sweep never condemns a row appended after a consumer's registration   *)
(* that this consumer has not been given yet, although the offsets it goes   *)
(* by were read earlier and the drain, new registrations and new rows went   *)
(* on meanwhile (events/artifact.py _make_events_keep).                      *)
UndeliveredIsNotDoomed ==
    \A s \in doomed, c \in Consumers :
        offset[c] # NoRow /\ s > since[c] => s <= offset[c]

(* A dead-lettered row is never condemned: the two halves of the snapshot    *)
(* are read apart, and an event buried between them must still count.        *)
DeadLetterIsNotDoomed ==
    \A s \in doomed, c \in Consumers :
        <<s, c>> \in dlq => s <= since[c]

(* "the bulk-delete predicate hits the same records the lifecycle's          *)
(* find_expired identified" (delete.py, _record_id_in): a sweep that          *)
(* completes leaves none of the rows it found in the table.                  *)
PrunedRowsAreGone ==
    [][sweep = "judging" /\ sweep' = "idle" /\ crashes' = crashes
         => doomed \cap live' = {}]_retentionVars
==============================================================================
