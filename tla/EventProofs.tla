---------------------------- MODULE EventProofs ----------------------------
(***************************************************************************)
(* Proofs about EventBackbone and EventRetention, for every roster, log,   *)
(* naming of events and bound, and in the end about SourcePoller, for      *)
(* every number of pollers.                                                *)
(*                                                                         *)
(* None of the backbone's properties is inductive: that an offset skips    *)
(* nothing depends on the batch in the drain's hands being the log's next  *)
(* rows, on the processor's result being recorded before the offset moves, *)
(* and on the consumer having an offset row at all.  IInv says these.      *)
(*                                                                         *)
(* With these, and without a sweep, each step of the drain is one of        *)
(* DeliveryLog's, or none of them.                                         *)
(*                                                                         *)
(* The sweep runs beside the backbone, so its proofs rest on these: IInv   *)
(* is kept by a sweep too, which only takes rows away.  What a condemned   *)
(* row stands on is remembered: MinInv says what the remembered offset is  *)
(* worth now, FreshInv that the snapshot a row is judged by is younger     *)
(* than the row, and LettersInv what the dead letters the snapshot misses  *)
(* have become.                                                            *)
(***************************************************************************)
EXTENDS EventRetention, SourcePoller, FiniteSetTheorems, TLAPS

Serving == pc \in {"event", "ran", "bury", "buried"}

(* Every registered consumer has its offset row. *)
Registered == \A i \in 1..up : offset[Roster[i]] >= 0

(* The batch is the next rows of the log: all above the offset, no gaps. *)
BatchIsNext ==
    Serving =>
        /\ at <= up
        /\ \A b \in batch : offset[Current] < b
        /\ \A b \in batch, s \in live :
             offset[Current] < s /\ s <= b => s \in batch

(* Between its steps a delivery has left the trace the next step relies on. *)
MidDelivery ==
    /\ pc \in {"ran", "bury", "buried"} => batch # {}
    /\ pc = "ran" => Delivery \in ran
    /\ pc = "buried" => Delivery \in dlq

(* Only a failed store call lets a delivery exceed MaxAttempts. *)
AttemptsBounded ==
    \A p \in Rows \X Consumers :
        /\ attempts[p] <= MaxAttempts + faults
        /\ attempts[p] < MaxAttempts + faults
             \/ (pc \in {"bury", "buried"} /\ p = Delivery)

CompletedIsCommitted ==
    crashes + faults = 0 =>
        \A s \in Rows, c \in Consumers :
            <<s, c>> \in ran =>
                s <= offset[c] \/ (pc = "ran" /\ <<s, c>> = Delivery)

IInv ==
    /\ TypeOK /\ Registered /\ BatchIsNext /\ MidDelivery /\ AttemptsBounded
    /\ OffsetNeverSkips /\ CompletedIsCommitted

----------------------------------------------------------------------------
(* The helpers.                                                            *)

\* FirstOf returns the least element of a nonempty set of row numbers: with
\* k lower bounds, 0..k-1 are the lower bounds and k-1 is in the set.
LEMMA FirstIsLeast ==
  ASSUME NEW S \in SUBSET Nat, S # {}
  PROVE  FirstOf(S) \in S /\ \A t \in S : FirstOf(S) <= t
<1>. DEFINE L == {n \in Nat : \A t \in S : n <= t}
            k == Cardinality(L)
<1>1. PICK s \in S : s \in Nat
  OBVIOUS
<1>2. IsFiniteSet(L) /\ k \in Nat \ {0} /\ 0 \in L
  <2>1. L \subseteq 0..s /\ IsFiniteSet(0..s)
    BY <1>1, FS_Interval
  <2>2. IsFiniteSet(L) /\ 0 \in L
    BY <2>1, FS_Subset
  <2>. QED
    BY <2>2, FS_CardinalityType, FS_EmptySet
<1>3. k \notin L
  <2>. SUFFICES ASSUME k \in L PROVE FALSE
    OBVIOUS
  <2>1. 0..k \subseteq L
    BY <1>2
  <2>2. Cardinality(0..k) = k + 1
    BY <1>2, FS_Interval
  <2>3. Cardinality(0..k) <= k
    BY <1>2, <2>1, FS_Subset
  <2>. QED
    BY <1>2, <2>2, <2>3
<1>4. k - 1 \in L
  <2>. SUFFICES ASSUME k - 1 \notin L PROVE FALSE
    OBVIOUS
  <2>. HIDE DEF k
  <2>1. ASSUME NEW n \in L PROVE n \in 0..(k - 2)
    BY <1>2
  <2>2. IsFiniteSet(0..(k - 2)) /\ k >= 2
    BY <1>2, <2>1, FS_Interval
  <2>3. Cardinality(0..(k - 2)) = k - 1
    BY <1>2, <2>2, FS_Interval
  <2>4. k <= Cardinality(0..(k - 2))
    BY <2>1, <2>2, FS_Subset DEF k
  <2>. QED
    BY <1>2, <2>3, <2>4
<1>. HIDE DEF k
<1>5. k - 1 \in S /\ \A t \in S : k - 1 <= t
  BY <1>2, <1>3, <1>4
<1>. QED
  BY <1>5 DEF FirstOf

\* The consumer being served, its next row and the pair of the two.
LEMMA NextRow ==
  ASSUME TypeOK, at <= up
  PROVE  /\ Current \in Consumers /\ at \in 1..up
         /\ batch # {} => /\ Item \in batch /\ Item \in 1..Len(row)
                          /\ Item \in Rows
                          /\ \A t \in batch : Item <= t
                          /\ Delivery \in Rows \X Consumers
                          /\ Delivery \in (1..Len(row)) \X Consumers
<1>1. Current \in Consumers /\ at \in 1..up
  BY RosterAssumption DEF TypeOK, Current
<1>2. batch \in SUBSET Nat /\ Len(row) \in Nat /\ Len(row) <= MaxRows
  BY DEF TypeOK
<1>3. ASSUME batch # {}
      PROVE  Item \in batch /\ \A t \in batch : Item <= t
  BY <1>2, <1>3, FirstIsLeast DEF Item
<1>4. ASSUME batch # {}
      PROVE  Item \in 1..Len(row) /\ Item \in Rows
  <2>1. Item \in 1..Len(row)
    BY <1>3, <1>4 DEF TypeOK
  <2>. QED
    BY <1>2, <2>1, LimitsAssumption DEF Rows
<1>. QED
  BY <1>1, <1>3, <1>4 DEF Delivery

\* read_since returns the next rows of the log, without gaps.
LEMMA ReadSinceIsNext ==
  ASSUME TypeOK, NEW n \in Nat
  PROVE  /\ ReadSince(n) \subseteq live
         /\ \A b \in ReadSince(n) : n < b
         /\ \A b \in ReadSince(n), s \in live :
              n < s /\ s <= b => s \in ReadSince(n)
<1>. DEFINE above == {s \in live : s > n}
            Below(s) == {t \in above : t < s}
<1>1. IsFiniteSet(above)
  <2>1. IsFiniteSet(1..Len(row))
    BY FS_Interval DEF TypeOK
  <2>. QED
    BY <2>1, FS_Subset DEF TypeOK
<1>2. ASSUME NEW b \in ReadSince(n), NEW s \in live, n < s, s <= b
      PROVE  s \in ReadSince(n)
  <2>1. b \in above /\ s \in above /\ Cardinality(Below(b)) < ReadLimit
    BY <1>2 DEF ReadSince
  <2>2. Below(s) \subseteq Below(b)
    <3>1. live \subseteq Nat
      BY DEF TypeOK
    <3>2. ASSUME NEW t \in above, t < s PROVE t < b
      BY <1>2, <2>1, <3>1, <3>2
    <3>. QED
      BY <3>2
  <2>3. IsFiniteSet(Below(b))
    BY <1>1, FS_Subset
  <2>4. Cardinality(Below(s)) <= Cardinality(Below(b))
    BY <2>2, <2>3, FS_Subset
  <2>5. Cardinality(Below(s)) \in Nat /\ Cardinality(Below(b)) \in Nat
    BY <2>2, <2>3, FS_Subset, FS_CardinalityType
  <2>6. Cardinality(Below(s)) < ReadLimit
    BY <2>1, <2>4, <2>5, LimitsAssumption
  <2>. QED
    BY <2>1, <2>6 DEF ReadSince
<1>. QED
  BY <1>2 DEF ReadSince, TypeOK

----------------------------------------------------------------------------
(* The types, in the parts that steps disturb separately.                  *)

LogTypes ==
    /\ row \in Seq(Ids) /\ Len(row) <= MaxRows
    /\ live \subseteq 1..Len(row)
    /\ offset \in [Consumers -> {NoRow} \cup 0..Len(row)]
    /\ since \in [Consumers -> 0..Len(row)]
    /\ dlq \subseteq (1..Len(row)) \X Consumers
    /\ ran \subseteq (1..Len(row)) \X Consumers

ThreadTypes ==
    /\ granted \subseteq Gated
    /\ release \in DOMAIN Roster /\ up \in 0..release /\ at \in 1..release + 1
    /\ pc \in Places
    /\ crashes \in 0..MaxCrashes /\ faults \in 0..MaxFaults

WorkTypes ==
    /\ batch \subseteq 1..Len(row)
    /\ attempts \in [Rows \X Consumers -> 0..MaxAttempts + MaxFaults]

LEMMA TypeParts == TypeOK <=> LogTypes /\ ThreadTypes /\ WorkTypes
BY DEF TypeOK, LogTypes, ThreadTypes, WorkTypes

LEMMA Numbers ==
  ASSUME TypeOK
  PROVE  /\ Len(row) \in Nat /\ Len(row) <= MaxRows
         /\ DOMAIN Roster = 1..Len(Roster) /\ Len(Roster) \in Nat
         /\ release \in Nat /\ 1 <= release /\ release <= Len(Roster)
         /\ up \in Nat /\ up <= release
         /\ at \in Nat /\ 1 <= at /\ at <= release + 1
         /\ crashes \in Nat /\ faults \in Nat
<1>1. Len(row) \in Nat /\ Len(row) <= MaxRows
  BY DEF TypeOK
<1>2. DOMAIN Roster = 1..Len(Roster) /\ Len(Roster) \in Nat
  BY RosterAssumption
<1>3. release \in Nat /\ 1 <= release /\ release <= Len(Roster)
  BY <1>2 DEF TypeOK
<1>4. /\ up \in Nat /\ up <= release
      /\ at \in Nat /\ 1 <= at /\ at <= release + 1
  BY <1>3 DEF TypeOK
<1>5. crashes \in Nat /\ faults \in Nat
  BY LimitsAssumption DEF TypeOK
<1>. QED
  BY <1>1, <1>2, <1>3, <1>4, <1>5

LEMMA LogFrame ==
  ASSUME LogTypes, UNCHANGED <<log, table, ran>>
  PROVE  LogTypes'
BY DEF LogTypes, log, table

LEMMA WorkFrame ==
  ASSUME WorkTypes, UNCHANGED <<row, attempts>>, batch' \subseteq batch
  PROVE  WorkTypes'
BY DEF WorkTypes

\* While an event is in hand there is a delivery to speak of.
LEMMA InHand ==
  ASSUME TypeOK, BatchIsNext, MidDelivery, Serving, pc = "event" => batch # {}
  PROVE  /\ at \in 1..up /\ Current \in Consumers /\ batch # {}
         /\ Item \in batch /\ \A t \in batch : Item <= t
         /\ Item \in 1..Len(row) /\ Item \in Rows
         /\ Delivery = <<Item, Current>>
         /\ Delivery \in Rows \X Consumers
         /\ Delivery \in (1..Len(row)) \X Consumers
         /\ offset[Current] < Item
<1>1. at <= up /\ batch # {}
  BY DEF BatchIsNext, MidDelivery, Serving
<1>2. Item \in batch /\ Item \in 1..Len(row) /\ Item \in Rows /\ \A t \in batch : Item <= t
  BY <1>1, NextRow
<1>. QED
  BY <1>1, <1>2, NextRow DEF BatchIsNext, Delivery

\* An attempt is counted only where one more still fits.
LEMMA FailTypes ==
  ASSUME TypeOK, BatchIsNext, MidDelivery, AttemptsBounded, Fail,
         (pc = "event" /\ batch # {}) \/ pc = "ran"
  PROVE  /\ attempts' = [attempts EXCEPT ![Delivery] = attempts[Delivery] + 1]
         /\ attempts'[Delivery] = attempts[Delivery] + 1
         /\ attempts[Delivery] \in Nat
         /\ attempts[Delivery] < MaxAttempts + faults
         /\ WorkTypes'
         /\ pc' \in {"bury", "consumer"} /\ at' \in {at, at + 1}
         /\ UNCHANGED row
<1>1. Delivery \in Rows \X Consumers
  BY InHand DEF Serving
<1>2. /\ attempts[Delivery] \in Nat
      /\ attempts[Delivery] < MaxAttempts + faults
      /\ faults \in Nat /\ faults <= MaxFaults /\ MaxFaults \in Nat
      /\ MaxAttempts \in Nat
  <2>1. attempts[Delivery] < MaxAttempts + faults
    BY <1>1 DEF AttemptsBounded
  <2>2. attempts[Delivery] \in 0..MaxAttempts + MaxFaults
    BY <1>1 DEF TypeOK
  <2>. QED
    BY <2>1, <2>2, LimitsAssumption DEF TypeOK
<1>3. /\ attempts' = [attempts EXCEPT ![Delivery] = attempts[Delivery] + 1]
      /\ UNCHANGED row
  BY DEF Fail, log
<1>4. attempts[Delivery] + 1 \in 0..MaxAttempts + MaxFaults
  BY <1>2
<1>5. /\ attempts' \in [Rows \X Consumers -> 0..MaxAttempts + MaxFaults]
      /\ attempts'[Delivery] = attempts[Delivery] + 1
  BY <1>1, <1>3, <1>4 DEF TypeOK
<1>6. pc' \in {"bury", "consumer"} /\ at' \in {at, at + 1} /\ batch' \subseteq batch
  BY DEF Fail, NextConsumer
<1>7. WorkTypes'
  BY <1>3, <1>5, <1>6 DEF WorkTypes, TypeOK
<1>. QED
  BY <1>2, <1>3, <1>5, <1>6, <1>7

LEMMA TypeStep ==
  ASSUME TypeOK, BatchIsNext, MidDelivery, AttemptsBounded, [Next]_vars
  PROVE  TypeOK'
<1>. USE DEF log, table, thread
<1>0. LogTypes /\ ThreadTypes /\ WorkTypes
  BY TypeParts
<1>. SUFFICES LogTypes' /\ ThreadTypes' /\ WorkTypes'
  BY DEF TypeOK, LogTypes, ThreadTypes, WorkTypes
<1>. DEFINE Goal == LogTypes' /\ ThreadTypes' /\ WorkTypes'
<1>1. ASSUME NEW e \in Ids, Publish(e) PROVE Goal
  <2>1. CASE IsDuplicate(e)
    BY <1>0, <1>1, <2>1 DEF Publish, LogTypes, ThreadTypes, WorkTypes
  <2>2. CASE ~IsDuplicate(e)
    <3>1. /\ row' = Append(row, e) /\ live' = live \cup {Len(row) + 1}
          /\ Len(row) < MaxRows /\ MaxRows \in Nat
      BY <1>1, <2>2, LimitsAssumption DEF Publish
    <3>2. row' \in Seq(Ids) /\ Len(row') = Len(row) + 1 /\ Len(row) \in Nat
      BY <1>1, <3>1 DEF TypeOK
    <3>3. 1..Len(row) \subseteq 1..Len(row') /\ 0..Len(row) \subseteq 0..Len(row')
      BY <3>2
    <3>4. live' \subseteq 1..Len(row') /\ Len(row') <= MaxRows
      <4>1. Len(row) + 1 \in 1..Len(row')
        BY <3>2
      <4>2. live \subseteq 1..Len(row')
        BY <1>0, <3>3 DEF LogTypes
      <4>3. live' \subseteq 1..Len(row')
        BY <3>1, <4>1, <4>2
      <4>4. Len(row') <= MaxRows
        BY <3>1, <3>2
      <4>. QED
        BY <4>3, <4>4
    <3>5. LogTypes'
      BY <1>0, <1>1, <3>2, <3>3, <3>4 DEF Publish, LogTypes
    <3>. QED
      BY <1>0, <1>1, <3>3, <3>5 DEF Publish, ThreadTypes, WorkTypes
  <2>. QED
    BY <2>1, <2>2
<1>2. ASSUME NEW c \in Gated, Grant(c) \/ Lapse(c) PROVE Goal
  BY <1>0, <1>2, LogFrame, WorkFrame DEF Grant, Lapse, ThreadTypes
<1>3. CASE Start
  <2>1. release' \in DOMAIN Roster /\ release <= release' /\ release' \in Nat
    BY <1>3, Numbers DEF Start
  <2>2. ThreadTypes'
    BY <1>0, <1>3, <2>1, Numbers DEF Start, ThreadTypes, Places
  <2>. QED
    BY <1>0, <1>3, <2>2, LogFrame, WorkFrame DEF Start
<1>4. CASE Register
  <2>1. Roster[up + 1] \in Consumers
    BY <1>4, Numbers DEF Register, Consumers
  <2>2. /\ offset' \in [Consumers -> {NoRow} \cup 0..Len(row)]
        /\ since' \in [Consumers -> 0..Len(row)]
    <3>1. 0 \in 0..Len(row) /\ Len(row) \in 0..Len(row)
      BY Numbers
    <3>. QED
      BY <1>0, <1>4, <2>1, <3>1 DEF Register, LogTypes
  <2>3. LogTypes' /\ WorkTypes'
    BY <1>0, <1>4, <2>2 DEF Register, LogTypes, WorkTypes
  <2>4. ThreadTypes'
    BY <1>0, <1>4, Numbers DEF Register, ThreadTypes
  <2>. QED
    BY <2>3, <2>4
<1>5. CASE StartDrain \/ Tick \/ EndTick \/ TickFails
  <2>1. LogTypes' /\ WorkTypes'
    BY <1>0, <1>5, LogFrame, WorkFrame DEF StartDrain, Tick, EndTick, TickFails
  <2>2. ThreadTypes'
    BY <1>0, <1>5, Numbers, LimitsAssumption
       DEF StartDrain, Tick, EndTick, TickFails, ThreadTypes, Places
  <2>. QED
    BY <2>1, <2>2
<1>6. CASE Crash
  <2>1. LogTypes'
    BY <1>0, <1>6, LogFrame DEF Crash
  <2>2. ThreadTypes'
    BY <1>0, <1>6, Numbers, LimitsAssumption DEF Crash, ThreadTypes, Places
  <2>3. WorkTypes'
    BY <1>0, <1>6, LimitsAssumption DEF Crash, WorkTypes
  <2>. QED
    BY <2>1, <2>2, <2>3
<1>7. CASE ReadBatch
  <2>1. batch' \subseteq 1..Len(row)
    BY <1>0, <1>7 DEF ReadBatch, ReadSince, LogTypes
  <2>2. WorkTypes'
    BY <1>0, <1>7, <2>1 DEF ReadBatch, WorkTypes
  <2>. QED
    BY <1>0, <1>7, <2>2, LogFrame DEF ReadBatch, ThreadTypes, Places
<1>8. CASE BatchDone \/ Hold
  <2>1. at <= up
    BY <1>8 DEF BatchDone, Hold, BatchIsNext, Serving
  <2>2. ThreadTypes'
    BY <1>0, <1>8, <2>1, Numbers
       DEF BatchDone, Hold, NextConsumer, ThreadTypes, Places
  <2>3. LogTypes' /\ WorkTypes'
    BY <1>0, <1>8, LogFrame, WorkFrame DEF BatchDone, Hold, NextConsumer
  <2>. QED
    BY <2>2, <2>3
<1>9. CASE PassOver \/ CommitRun \/ CommitBuried
  <2>1. Item \in 1..Len(row) /\ Delivery \in Rows \X Consumers
    BY <1>9, InHand DEF PassOver, CommitRun, CommitBuried, Serving
  <2>2. offset' \in [Consumers -> {NoRow} \cup 0..Len(row)]
    BY <1>0, <1>9, <2>1 DEF PassOver, CommitRun, CommitBuried, Commit, LogTypes
  <2>3. attempts' \in [Rows \X Consumers -> 0..MaxAttempts + MaxFaults]
    <3>1. 0 \in 0..MaxAttempts + MaxFaults
      BY LimitsAssumption
    <3>. QED
      BY <1>0, <1>9, <2>1, <3>1
         DEF PassOver, CommitRun, CommitBuried, Uncount, WorkTypes
  <2>4. UNCHANGED <<log, since, dlq, ran>> /\ batch' \subseteq batch
    BY <1>9 DEF PassOver, CommitRun, CommitBuried, NextItem
  <2>5. LogTypes' /\ WorkTypes'
    BY <1>0, <2>2, <2>3, <2>4 DEF LogTypes, WorkTypes
  <2>6. ThreadTypes'
    BY <1>0, <1>9 DEF PassOver, CommitRun, CommitBuried, NextItem, ThreadTypes, Places
  <2>. QED
    BY <2>5, <2>6
<1>10. CASE Run \/ DeadLetter
  <2>1. Delivery \in (1..Len(row)) \X Consumers
    BY <1>10, InHand DEF Run, DeadLetter, Serving
  <2>2. LogTypes'
    BY <1>0, <1>10, <2>1 DEF Run, DeadLetter, LogTypes
  <2>. QED
    BY <1>0, <1>10, <2>2, WorkFrame DEF Run, DeadLetter, ThreadTypes, Places
<1>11. CASE RunFails \/ CommitRunFails
  <2>1. Fail /\ ((pc = "event" /\ batch # {}) \/ pc = "ran")
    BY <1>11 DEF RunFails, CommitRunFails
  <2>2. WorkTypes' /\ pc' \in {"bury", "consumer"} /\ at' \in {at, at + 1}
    BY <2>1, FailTypes
  <2>3. at <= up
    BY <2>1 DEF BatchIsNext, Serving
  <2>4. LogTypes' /\ UNCHANGED <<granted, release, up, crashes>>
    BY <1>0, <2>1, LogFrame DEF Fail
  <2>5. faults' \in 0..MaxFaults
    BY <1>0, <1>11, LimitsAssumption DEF RunFails, CommitRunFails, ThreadTypes
  <2>6. ThreadTypes'
    BY <1>0, <2>2, <2>3, <2>4, <2>5, Numbers DEF ThreadTypes, Places
  <2>. QED
    BY <2>2, <2>4, <2>6
<1>12. CASE UNCHANGED vars
  BY <1>0, <1>12, LogFrame, WorkFrame DEF vars, ThreadTypes
<1>. QED
  BY <1>1, <1>2, <1>3, <1>4, <1>5, <1>6, <1>7, <1>8, <1>9, <1>10, <1>11,
     <1>12 DEF Next, Drain

----------------------------------------------------------------------------
(* The other parts of IInv.                                                *)

\* An offset moves in one place only: to the event in hand, from below it.
LEMMA OffsetSteps ==
  ASSUME TypeOK, BatchIsNext, MidDelivery, [Next]_vars
  PROVE  \/ UNCHANGED offset
         \/ /\ PassOver \/ CommitRun \/ CommitBuried
            /\ offset' = [offset EXCEPT ![Current] = Item]
            /\ UNCHANGED log
         \/ /\ Register
            /\ offset[Roster[up + 1]] = NoRow
            /\ offset' = [offset EXCEPT ![Roster[up + 1]] = 0]
            /\ UNCHANGED log
BY DEF Next, vars, Publish, Grant, Lapse, Start, Register, StartDrain, Crash,
       Drain, Tick, ReadBatch, EndTick, BatchDone, PassOver, Hold, Run,
       CommitRun, RunFails, CommitRunFails, DeadLetter, CommitBuried, TickFails,
       Fail, Commit, table

\* A committed offset is never taken back.
LEMMA NeverBack ==
  ASSUME TypeOK, BatchIsNext, MidDelivery, [Next]_vars, NEW c \in Consumers
  PROVE  offset'[c] >= offset[c]
<1>1. offset[c] \in Int
  BY DEF TypeOK, NoRow
<1>2. CASE UNCHANGED offset
  BY <1>1, <1>2
<1>3. CASE /\ PassOver \/ CommitRun \/ CommitBuried
           /\ offset' = [offset EXCEPT ![Current] = Item]
  <2>1. /\ Current \in Consumers /\ offset[Current] < Item
        /\ Item \in Int
    BY <1>3, InHand DEF PassOver, CommitRun, CommitBuried, Serving
  <2>. QED
    BY <1>1, <1>3, <2>1 DEF TypeOK
<1>4. CASE /\ offset[Roster[up + 1]] = NoRow
           /\ offset' = [offset EXCEPT ![Roster[up + 1]] = 0]
  BY <1>1, <1>4 DEF TypeOK, NoRow
<1>. QED
  BY <1>2, <1>3, <1>4, OffsetSteps

LEMMA RegisteredStep ==
  ASSUME TypeOK, Registered, BatchIsNext, MidDelivery, [Next]_vars, TypeOK'
  PROVE  Registered'
<1>. SUFFICES ASSUME NEW i \in 1..up' PROVE offset'[Roster[i]] >= 0
  BY DEF Registered
<1>1. i \in DOMAIN Roster /\ Roster[i] \in Consumers
  <2>1. release' \in DOMAIN Roster /\ up' \in 0..release'
    BY DEF TypeOK
  <2>2. release' \in 1..Len(Roster) /\ Len(Roster) \in Nat
    BY <2>1, Numbers
  <2>3. i \in 1..Len(Roster)
    BY <2>1, <2>2
  <2>. QED
    BY <2>3, Numbers DEF Consumers
<1>2. offset[Roster[i]] \in Int /\ offset'[Roster[i]] \in Int
  BY <1>1 DEF TypeOK, NoRow
<1>3. CASE i \in 1..up
  BY <1>1, <1>2, <1>3, NeverBack DEF Registered
<1>4. CASE i \notin 1..up
  <2>1. Register /\ i = up + 1
    <3>1. up' = up \/ up' = 0 \/ (Register /\ up' = up + 1)
      BY DEF Next, vars, Publish, Grant, Lapse, Start, Register, StartDrain,
             Crash, Drain, Tick, ReadBatch, EndTick, BatchDone, PassOver, Hold,
             Run, CommitRun, RunFails, CommitRunFails, DeadLetter,
             CommitBuried, TickFails, Fail, thread
    <3>. QED
      BY <1>4, <3>1, Numbers
  <2>2. CASE offset[Roster[i]] = NoRow
    BY <1>1, <2>1, <2>2 DEF Register, TypeOK
  <2>3. CASE offset[Roster[i]] # NoRow
    BY <1>1, <2>1, <2>3 DEF Register, TypeOK
  <2>. QED
    BY <2>2, <2>3
<1>. QED
  BY <1>3, <1>4

LEMMA BatchStep ==
  ASSUME TypeOK, Registered, BatchIsNext, MidDelivery, [Next]_vars
  PROVE  BatchIsNext'
<1>. USE DEF log, table, thread
<1>1. ASSUME NEW e \in Ids, Publish(e) PROVE BatchIsNext'
  <2>1. /\ UNCHANGED <<offset, pc, at, up, batch>>
        /\ live' = live \/ live' = live \cup {Len(row) + 1}
    BY <1>1 DEF Publish
  <2>2. \A b \in batch : b < Len(row) + 1 /\ b \in Nat
    BY Numbers DEF TypeOK
  <2>3. \A b \in batch : ~(Len(row) + 1 <= b)
    BY <2>2, Numbers
  <2>. QED
    BY <2>1, <2>3 DEF BatchIsNext, Serving, Current
<1>2. CASE ReadBatch
  <2>1. at \in 1..up /\ Current \in Consumers
    BY <1>2, NextRow DEF ReadBatch
  <2>2. offset[Current] \in Nat
    BY <2>1 DEF Registered, Current, TypeOK, NoRow
  <2>3. /\ batch' = ReadSince(offset[Current])
        /\ UNCHANGED <<offset, at, up, live>>
    BY <1>2 DEF ReadBatch
  <2>. QED
    BY <2>1, <2>2, <2>3, ReadSinceIsNext DEF BatchIsNext, Current
<1>3. CASE PassOver \/ CommitRun \/ CommitBuried
  <2>1. /\ Current \in Consumers /\ Item \in batch /\ \A t \in batch : Item <= t
        /\ offset[Current] < Item /\ at <= up
    BY <1>3, InHand, Numbers DEF PassOver, CommitRun, CommitBuried, Serving
  <2>2. /\ offset'[Current] = Item /\ batch' = batch \ {Item}
        /\ UNCHANGED <<live, at, up>>
    BY <1>3, <2>1 DEF PassOver, CommitRun, CommitBuried, Commit, NextItem, TypeOK
  <2>3. /\ batch \subseteq Int /\ live \subseteq Int /\ offset[Current] \in Int
    BY <2>1 DEF TypeOK, NoRow
  <2>4. \A b \in batch' : Item < b
    BY <2>1, <2>2, <2>3
  <2>5. ASSUME NEW b \in batch', NEW s \in live, Item < s, s <= b
        PROVE  s \in batch'
    <3>1. offset[Current] < s
      BY <2>1, <2>3, <2>5
    <3>2. s \in batch
      BY <1>3, <2>2, <2>5, <3>1
         DEF BatchIsNext, Serving, PassOver, CommitRun, CommitBuried
    <3>. QED
      BY <2>1, <2>2, <2>3, <2>5, <3>2
  <2>. QED
    BY <2>1, <2>2, <2>4, <2>5 DEF BatchIsNext, Current
<1>4. CASE Run \/ DeadLetter
  BY <1>4 DEF Run, DeadLetter, BatchIsNext, Serving, Current
<1>5. CASE RunFails \/ CommitRunFails
  BY <1>5 DEF RunFails, CommitRunFails, Fail, NextConsumer, BatchIsNext,
              Serving, Current
<1>6. ASSUME NEW c \in Gated, Grant(c) \/ Lapse(c) PROVE BatchIsNext'
  BY <1>6 DEF Grant, Lapse, BatchIsNext, Serving, Current
<1>7. CASE UNCHANGED vars
  BY <1>7 DEF vars, BatchIsNext, Serving, Current
<1>8. CASE \/ Start \/ StartDrain \/ Crash \/ Tick \/ EndTick \/ BatchDone
           \/ Hold \/ TickFails \/ Register
  BY <1>8 DEF Start, StartDrain, Crash, Tick, EndTick, BatchDone, Hold,
              TickFails, Register, NextConsumer, BatchIsNext, Serving
<1>. QED
  BY <1>1, <1>2, <1>3, <1>4, <1>5, <1>6, <1>7, <1>8 DEF Next, Drain

LEMMA MidDeliveryStep ==
  ASSUME TypeOK, BatchIsNext, MidDelivery, [Next]_vars
  PROVE  MidDelivery'
<1>. USE DEF log, table, thread
<1>1. CASE Run \/ DeadLetter
  BY <1>1 DEF Run, DeadLetter, MidDelivery, Delivery, Item, Current
<1>2. CASE RunFails \/ CommitRunFails
  <2>1. Fail /\ batch # {}
    BY <1>2 DEF RunFails, CommitRunFails, MidDelivery
  <2>. QED
    BY <2>1 DEF Fail, NextConsumer, MidDelivery
<1>3. ASSUME NEW e \in Ids, Publish(e) PROVE MidDelivery'
  BY <1>3 DEF Publish, MidDelivery, Delivery, Item, Current
<1>4. ASSUME NEW c \in Gated, Grant(c) \/ Lapse(c) PROVE MidDelivery'
  BY <1>4 DEF Grant, Lapse, MidDelivery, Delivery, Item, Current
<1>5. CASE UNCHANGED vars
  BY <1>5 DEF vars, MidDelivery, Delivery, Item, Current
<1>6. CASE \/ Start \/ StartDrain \/ Crash \/ Tick \/ EndTick \/ BatchDone
           \/ Hold \/ TickFails \/ Register \/ ReadBatch \/ PassOver
           \/ CommitRun \/ CommitBuried
  BY <1>6 DEF Start, StartDrain, Crash, Tick, EndTick, BatchDone, Hold,
              TickFails, Register, ReadBatch, PassOver, CommitRun,
              CommitBuried, NextConsumer, NextItem, MidDelivery
<1>. QED
  BY <1>1, <1>2, <1>3, <1>4, <1>5, <1>6 DEF Next, Drain

\* While attempts, the faults and the delivery in hand stay, so does the bound.
LEMMA AttemptsStep ==
  ASSUME TypeOK, BatchIsNext, MidDelivery, AttemptsBounded, [Next]_vars
  PROVE  AttemptsBounded'
<1>. USE DEF log, table, thread
<1>0. /\ attempts \in [Rows \X Consumers -> Nat]
      /\ faults \in Nat /\ MaxAttempts \in Nat \ {0} /\ MaxFaults \in Nat
  <2>1. \A p \in Rows \X Consumers : attempts[p] \in Nat
    BY DEF TypeOK
  <2>. QED
    BY <2>1, LimitsAssumption DEF TypeOK
<1>1. CASE RunFails \/ CommitRunFails
  <2>1. Fail /\ ((pc = "event" /\ batch # {}) \/ pc = "ran") /\ faults' >= faults
        /\ faults' \in Nat
    BY <1>0, <1>1 DEF RunFails, CommitRunFails
  <2>2. /\ attempts' = [attempts EXCEPT ![Delivery] = attempts[Delivery] + 1]
        /\ attempts[Delivery] \in Nat
        /\ attempts[Delivery] < MaxAttempts + faults
        /\ Delivery \in Rows \X Consumers
    BY <2>1, FailTypes, InHand DEF Serving
  <2>3. attempts'[Delivery] <= MaxAttempts + faults'
    BY <1>0, <2>1, <2>2
  <2>4. attempts'[Delivery] < MaxAttempts + faults'
          \/ (pc' = "bury" /\ Delivery' = Delivery)
    <3>1. attempts'[Delivery] = attempts[Delivery] + 1
      BY <2>2, FailTypes, <2>1
    <3>2. CASE attempts'[Delivery] >= MaxAttempts
      BY <2>1, <3>2 DEF Fail, Delivery, Item, Current
    <3>3. CASE ~(attempts'[Delivery] >= MaxAttempts)
      BY <1>0, <2>1, <2>2, <3>1, <3>3
    <3>. QED
      BY <3>2, <3>3
  <2>5. ASSUME NEW p \in Rows \X Consumers, p # Delivery
        PROVE  attempts'[p] < MaxAttempts + faults'
    <3>1. attempts'[p] = attempts[p] /\ attempts[p] \in Nat
      BY <1>0, <2>2, <2>5
    <3>2. attempts[p] < MaxAttempts + faults
      BY <2>1, <2>5 DEF AttemptsBounded
    <3>. QED
      BY <1>0, <2>1, <3>1, <3>2
  <2>6. \A p \in Rows \X Consumers : attempts'[p] \in Nat
    BY <1>0, <2>2
  <2>. QED
    BY <1>0, <2>1, <2>3, <2>4, <2>5, <2>6 DEF AttemptsBounded
<1>2. CASE PassOver \/ CommitRun \/ CommitBuried
  <2>1. Delivery \in Rows \X Consumers /\ UNCHANGED faults
    BY <1>2, InHand DEF PassOver, CommitRun, CommitBuried, Serving
  <2>2. ASSUME NEW p \in Rows \X Consumers
        PROVE  attempts'[p] < MaxAttempts + faults
    <3>1. CASE attempts' = attempts /\ PassOver
      BY <2>2, <3>1 DEF PassOver, AttemptsBounded
    <3>2. CASE Uncount /\ p = Delivery
      <4>1. attempts'[p] = 0
        BY <1>0, <2>1, <3>2 DEF Uncount
      <4>. QED
        BY <1>0, <4>1
    <3>3. CASE Uncount /\ p # Delivery
      <4>1. attempts'[p] = attempts[p]
        BY <1>0, <2>1, <3>3 DEF Uncount
      <4>. QED
        BY <3>3, <4>1 DEF AttemptsBounded
    <3>. QED
      BY <1>2, <3>1, <3>2, <3>3 DEF PassOver, CommitRun, CommitBuried
  <2>3. \A p \in Rows \X Consumers : attempts'[p] \in Int
    BY <1>0, <1>2, <2>1 DEF PassOver, CommitRun, CommitBuried, Uncount
  <2>. QED
    BY <1>0, <2>1, <2>2, <2>3 DEF AttemptsBounded
<1>3. CASE TickFails
  <2>1. faults' = faults + 1 /\ UNCHANGED attempts
    BY <1>3 DEF TickFails
  <2>. QED
    BY <1>0, <2>1 DEF AttemptsBounded
<1>4. CASE Crash
  BY <1>0, <1>4 DEF Crash, AttemptsBounded
<1>5. CASE DeadLetter
  BY <1>5 DEF DeadLetter, AttemptsBounded, Delivery, Item, Current
<1>6. ASSUME NEW e \in Ids, Publish(e) PROVE AttemptsBounded'
  BY <1>6 DEF Publish, AttemptsBounded, Delivery, Item, Current
<1>7. ASSUME NEW c \in Gated, Grant(c) \/ Lapse(c) PROVE AttemptsBounded'
  BY <1>7 DEF Grant, Lapse, AttemptsBounded, Delivery, Item, Current
<1>8. CASE UNCHANGED vars
  BY <1>8 DEF vars, AttemptsBounded, Delivery, Item, Current
<1>9. CASE \/ Start \/ StartDrain \/ Tick \/ EndTick \/ BatchDone \/ Hold
           \/ Register \/ ReadBatch \/ Run
  <2>1. pc \notin {"bury", "buried"} /\ UNCHANGED <<attempts, faults>>
    BY <1>9 DEF Start, StartDrain, Tick, EndTick, BatchDone, Hold, Register,
                ReadBatch, Run
  <2>. QED
    BY <2>1 DEF AttemptsBounded
<1>. QED
  BY <1>1, <1>2, <1>3, <1>4, <1>5, <1>6, <1>7, <1>8, <1>9 DEF Next, Drain

LEMMA SkipStep ==
  ASSUME TypeOK, BatchIsNext, MidDelivery, OffsetNeverSkips, [Next]_vars
  PROVE  OffsetNeverSkips'
<1>. USE DEF log, table, thread
<1>1. ASSUME NEW e \in Ids, Publish(e) PROVE OffsetNeverSkips'
  <2>. SUFFICES ASSUME NEW c \in Consumers, NEW s \in live', s <= offset[c],
                       row'[s] \in Handles[c]
                PROVE  Settled(s, c)
    BY <1>1 DEF Publish, OffsetNeverSkips, Settled
  <2>1. offset[c] \in Int /\ offset[c] <= Len(row) /\ Len(row) \in Nat
    BY Numbers DEF TypeOK, NoRow
  <2>2. s \in live
    BY <1>1, <2>1 DEF Publish
  <2>3. row'[s] = row[s]
    <3>1. s \in 1..Len(row) /\ row \in Seq(Ids)
      BY <2>2 DEF TypeOK
    <3>. QED
      BY <1>1, <3>1 DEF Publish
  <2>. QED
    BY <2>2, <2>3 DEF OffsetNeverSkips
<1>2. CASE PassOver \/ CommitRun \/ CommitBuried
  <2>1. /\ Current \in Consumers /\ Item \in batch /\ \A t \in batch : Item <= t
        /\ Delivery = <<Item, Current>>
    BY <1>2, InHand DEF PassOver, CommitRun, CommitBuried, Serving
  <2>2. /\ offset' = [offset EXCEPT ![Current] = Item]
        /\ UNCHANGED <<row, live, ran, dlq>>
    BY <1>2 DEF PassOver, CommitRun, CommitBuried, Commit
  <2>3. Subscribed => Settled(Item, Current)
    BY <1>2, <2>1 DEF PassOver, CommitRun, CommitBuried, MidDelivery, Settled
  <2>. SUFFICES ASSUME NEW c \in Consumers, NEW s \in live, s <= offset'[c],
                       row[s] \in Handles[c]
                PROVE  Settled(s, c)
    BY <2>2 DEF OffsetNeverSkips, Settled
  <2>4. CASE c # Current
    BY <2>2, <2>4 DEF OffsetNeverSkips, TypeOK
  <2>5. CASE c = Current
    <3>1. s <= Item /\ s \in Int /\ Item \in Int /\ offset[c] \in Int
      BY <2>1, <2>2, <2>5 DEF TypeOK, NoRow
    <3>2. CASE s <= offset[c]
      BY <3>2 DEF OffsetNeverSkips
    <3>3. CASE ~(s <= offset[c])
      <4>1. s \in batch
        BY <1>2, <2>1, <2>5, <3>1, <3>3
           DEF BatchIsNext, Serving, PassOver, CommitRun, CommitBuried
      <4>2. s = Item
        BY <2>1, <3>1, <4>1
      <4>. QED
        BY <2>3, <2>5, <4>2 DEF Subscribed
    <3>. QED
      BY <3>2, <3>3
  <2>. QED
    BY <2>4, <2>5
<1>3. CASE Register
  <2>1. UNCHANGED <<row, live, ran, dlq>>
    BY <1>3 DEF Register
  <2>2. offset' = offset \/ offset' = [offset EXCEPT ![Roster[up + 1]] = 0]
    BY <1>3 DEF Register
  <2>3. \A s \in live : s \in Int /\ ~(s <= 0)
    BY DEF TypeOK
  <2>4. ASSUME NEW c \in Consumers, NEW s \in live, s <= offset'[c]
        PROVE  s <= offset[c]
    BY <2>2, <2>3, <2>4 DEF TypeOK
  <2>. QED
    BY <2>1, <2>4 DEF OffsetNeverSkips, Settled
<1>4. ASSUME NEW c \in Gated, Grant(c) \/ Lapse(c) PROVE OffsetNeverSkips'
  BY <1>4 DEF Grant, Lapse, OffsetNeverSkips, Settled
<1>5. CASE UNCHANGED vars
  BY <1>5 DEF vars, OffsetNeverSkips, Settled
<1>6. CASE \/ Start \/ StartDrain \/ Crash \/ Tick \/ EndTick \/ BatchDone
           \/ Hold \/ TickFails \/ ReadBatch \/ Run \/ RunFails
           \/ CommitRunFails \/ DeadLetter
  <2>1. UNCHANGED <<row, live, offset>> /\ ran \subseteq ran' /\ dlq \subseteq dlq'
    BY <1>6 DEF Start, StartDrain, Crash, Tick, EndTick, BatchDone, Hold,
                TickFails, ReadBatch, Run, RunFails, CommitRunFails, Fail,
                DeadLetter
  <2>. QED
    BY <2>1 DEF OffsetNeverSkips, Settled
<1>. QED
  BY <1>1, <1>2, <1>3, <1>4, <1>5, <1>6 DEF Next, Drain

LEMMA CompletedStep ==
  ASSUME TypeOK, BatchIsNext, MidDelivery, CompletedIsCommitted, [Next]_vars,
         TypeOK'
  PROVE  CompletedIsCommitted'
<1>. USE DEF log, table, thread
<1>. SUFFICES ASSUME crashes' + faults' = 0,
                     NEW s \in Rows, NEW c \in Consumers, <<s, c>> \in ran'
              PROVE  \/ s <= offset'[c]
                     \/ (pc' = "ran" /\ <<s, c>> = Delivery')
  BY DEF CompletedIsCommitted
<1>1. crashes + faults = 0 /\ ~Crash /\ ~TickFails /\ ~CommitRunFails
  <2>1. crashes' \in {crashes, crashes + 1} /\ faults' \in {faults, faults + 1}
    BY DEF Next, vars, Publish, Grant, Lapse, Start, Register, StartDrain,
           Crash, Drain, Tick, ReadBatch, EndTick, BatchDone, PassOver, Hold,
           Run, CommitRun, RunFails, CommitRunFails, DeadLetter, CommitBuried,
           TickFails, Fail
  <2>2. crashes' = crashes /\ faults' = faults /\ crashes + faults = 0
    BY <2>1, Numbers
  <2>. QED
    BY <2>2, Numbers DEF Crash, TickFails, CommitRunFails
<1>2. <<s, c>> \in ran => s <= offset[c] \/ (pc = "ran" /\ <<s, c>> = Delivery)
  BY <1>1 DEF CompletedIsCommitted
<1>3. s \in Int /\ offset[c] \in Int /\ offset'[c] \in Int
  <2>1. s \in Int /\ offset[c] \in Int
    BY DEF TypeOK, NoRow, Rows
  <2>2. offset'[c] \in {NoRow} \cup 0..Len(row')
    BY DEF TypeOK
  <2>. QED
    BY <2>1, <2>2 DEF NoRow
<1>4. s <= offset[c] => s <= offset'[c]
  BY <1>3, NeverBack
<1>5. CASE Run
  <2>1. ran' = ran \cup {Delivery} /\ pc' = "ran" /\ Delivery' = Delivery
        /\ pc # "ran"
    BY <1>5 DEF Run, Delivery, Item, Current
  <2>. QED
    BY <1>2, <1>4, <2>1
<1>6. CASE CommitRun
  <2>1. /\ Current \in Consumers /\ Delivery = <<Item, Current>>
        /\ Item \in Int /\ ran' = ran
    BY <1>6, InHand DEF CommitRun, Serving
  <2>2. offset'[Current] = Item
    BY <1>6, <2>1 DEF CommitRun, Commit, TypeOK
  <2>. QED
    BY <1>2, <1>3, <1>4, <2>1, <2>2
<1>7. ASSUME ran' = ran, pc # "ran"
      PROVE  s <= offset'[c]
  BY <1>2, <1>4, <1>7
<1>8. CASE \/ Start \/ StartDrain \/ Tick \/ EndTick \/ BatchDone
           \/ Hold \/ ReadBatch \/ RunFails \/ DeadLetter \/ Register
           \/ PassOver \/ CommitBuried
  BY <1>7, <1>8 DEF Start, StartDrain, Tick, EndTick, BatchDone, Hold,
                    ReadBatch, RunFails, Fail, DeadLetter, Register, PassOver,
                    CommitBuried
<1>9. ASSUME UNCHANGED <<ran, pc, at, batch>>
      PROVE  s <= offset'[c] \/ (pc' = "ran" /\ <<s, c>> = Delivery')
  <2>1. Delivery' = Delivery
    BY <1>9 DEF Delivery, Item, Current
  <2>. QED
    BY <1>2, <1>4, <1>9, <2>1
<1>10. ASSUME NEW e \in Ids, Publish(e) PROVE UNCHANGED <<ran, pc, at, batch>>
  BY <1>10 DEF Publish
<1>11. ASSUME NEW d \in Gated, Grant(d) \/ Lapse(d)
       PROVE  UNCHANGED <<ran, pc, at, batch>>
  BY <1>11 DEF Grant, Lapse
<1>12. CASE UNCHANGED vars
  BY <1>9, <1>12 DEF vars
<1>. QED
  BY <1>1, <1>5, <1>6, <1>8, <1>9, <1>10, <1>11, <1>12 DEF Next, Drain

----------------------------------------------------------------------------
(* The theorems.                                                           *)

LEMMA InitHolds == Init => IInv
<1>. SUFFICES ASSUME Init PROVE IInv
  OBVIOUS
<1>1. row = <<>> /\ Len(row) = 0 /\ row \in Seq(Ids)
  BY DEF Init
<1>2. /\ offset \in [Consumers -> {NoRow} \cup 0..Len(row)]
      /\ since \in [Consumers -> 0..Len(row)]
  BY <1>1 DEF Init
<1>3. LogTypes
  BY <1>1, <1>2, LimitsAssumption DEF Init, LogTypes
<1>4. ThreadTypes
  BY RosterAssumption, LimitsAssumption DEF Init, ThreadTypes, Places
<1>5. WorkTypes
  BY LimitsAssumption DEF Init, WorkTypes
<1>6. AttemptsBounded
  BY LimitsAssumption DEF Init, AttemptsBounded
<1>. QED
  BY <1>3, <1>4, <1>5, <1>6, TypeParts
     DEF Init, IInv, Registered, BatchIsNext, Serving, MidDelivery,
         OffsetNeverSkips, CompletedIsCommitted

\* IInv holds in every reachable state: the drain's promises rest on it.
THEOREM Invariance == Spec => []IInv
<1>1. IInv /\ [Next]_vars => IInv'
  BY TypeStep, RegisteredStep, BatchStep, MidDeliveryStep, AttemptsStep,
     SkipStep, CompletedStep DEF IInv
<1>. QED
  BY InitHolds, <1>1, PTL DEF Spec

\* Every variable keeps its type; an event is attempted at most MaxAttempts
\* times plus once per store call that failed (dispatcher.drain).
THEOREM TypeCorrect == Spec => []TypeOK
BY Invariance, PTL DEF IInv

\* No consumer's offset passes an event it subscribes to before the event was
\* processed or dead-lettered, through crashes, retries and failed commits.
THEOREM NothingIsSkipped == Spec => []OffsetNeverSkips
BY Invariance, PTL DEF IInv

\* ensure_offset at a restart and a re-read batch never move an offset back.
THEOREM OffsetsOnlyAdvance == Spec => OffsetMonotone
<1>1. IInv /\ [Next]_vars => [\A c \in Consumers : offset'[c] >= offset[c]]_vars
  BY NeverBack DEF IInv
<1>. QED
  BY <1>1, Invariance, PTL DEF Spec, OffsetMonotone

\* Without a crash or a failed store call no completed delivery is run again.
THEOREM RunsOnce == Spec => RunsOnceUnlessFault
<1>1. ASSUME IInv, [Next]_vars, pc = "event", pc' = "ran"
      PROVE  Delivery \notin ran \/ crashes + faults > 0
  <2>1. Run
    BY <1>1 DEF Next, vars, Publish, Grant, Lapse, Start, Register, StartDrain,
         Crash, Drain, Tick, ReadBatch, EndTick, BatchDone, PassOver, Hold,
         Run, CommitRun, RunFails, CommitRunFails, DeadLetter, CommitBuried,
         TickFails, Fail, NextItem, NextConsumer, thread
  <2>2. /\ Current \in Consumers /\ Item \in Rows
        /\ Delivery = <<Item, Current>> /\ offset[Current] < Item
    BY <1>1, <2>1, InHand DEF IInv, Run, Serving
  <2>3. offset[Current] \in Int /\ Item \in Int
    BY <1>1, <2>2 DEF IInv, TypeOK, NoRow, Rows
  <2>4. crashes + faults = 0 => Delivery \notin ran
    BY <1>1, <2>2, <2>3 DEF IInv, CompletedIsCommitted
  <2>. QED
    BY <1>1, <2>4, Numbers DEF IInv
<1>2. IInv /\ [Next]_vars =>
        [pc = "event" /\ pc' = "ran" => Delivery \notin ran \/ crashes + faults > 0]_vars
  BY <1>1
<1>. QED
  BY <1>2, Invariance, PTL DEF Spec, RunsOnceUnlessFault

\* A processor completes an event only when every earlier row its consumer
\* subscribes to was processed or dead-lettered before.
THEOREM InOrder == Spec => DeliveredInOrder
<1>1. ASSUME IInv, [Next]_vars, pc = "event", pc' = "ran",
             NEW s \in live, s < Item, row[s] \in Handles[Current]
      PROVE  Settled(s, Current)
  <2>1. Run
    BY <1>1 DEF Next, vars, Publish, Grant, Lapse, Start, Register, StartDrain,
         Crash, Drain, Tick, ReadBatch, EndTick, BatchDone, PassOver, Hold,
         Run, CommitRun, RunFails, CommitRunFails, DeadLetter, CommitBuried,
         TickFails, Fail, NextItem, NextConsumer, thread
  <2>2. /\ Current \in Consumers /\ Item \in batch /\ \A t \in batch : Item <= t
        /\ Item \in 1..Len(row)
    BY <1>1, <2>1, InHand DEF IInv, Run, Serving
  <2>3. s \in Int /\ Item \in Int /\ offset[Current] \in Int
    BY <1>1, <2>2 DEF IInv, TypeOK, NoRow
  <2>4. s <= offset[Current]
    <3>1. s \notin batch
      BY <1>1, <2>2, <2>3
    <3>. QED
      BY <1>1, <2>2, <2>3, <3>1 DEF IInv, BatchIsNext, Serving
  <2>. QED
    BY <1>1, <2>2, <2>4 DEF IInv, OffsetNeverSkips
<1>2. IInv /\ [Next]_vars =>
        [pc = "event" /\ pc' = "ran" =>
           \A s \in live : s < Item /\ row[s] \in Handles[Current]
                             => Settled(s, Current)]_vars
  BY <1>1
<1>. QED
  BY <1>2, Invariance, PTL DEF Spec, DeliveredInOrder

-----------------------------------------------------------------------------
(* The backbone implements DeliveryLog. Without a sweep no row leaves the     *)
(* table, so that a batch's next row is the next seq, and what is run, buried *)
(* or passed over is at the consumer's place.                                 *)

Whole ==
    /\ live = 1..Len(row)
    /\ pc \in {"ran", "bury"} => Subscribed

\* The event in hand is the one after the consumer's offset.
LEMMA InHandIsNext ==
  ASSUME IInv, Whole, Serving, pc = "event" => batch # {}
  PROVE  /\ Current \in Consumers /\ Delivery = <<Item, Current>>
         /\ Log!HasNext(Current) /\ Log!Place(Current) = Item
<1>1. /\ at \in 1..up /\ Current \in Consumers /\ Delivery = <<Item, Current>>
      /\ \A t \in batch : Item <= t
      /\ Item \in 1..Len(row) /\ offset[Current] < Item
      /\ Item \in batch
  BY InHand DEF IInv
<1>2. offset[Current] \in Int /\ offset[Current] >= 0 /\ Len(row) \in Nat
  BY <1>1 DEF IInv, TypeOK, Registered, Current, NoRow
<1>3. offset[Current] + 1 \in live
  BY <1>1, <1>2 DEF Whole
<1>4. offset[Current] + 1 \in batch
  BY <1>1, <1>2, <1>3 DEF IInv, BatchIsNext
<1>5. Item = offset[Current] + 1
  BY <1>1, <1>2, <1>4
<1>. QED
  BY <1>1, <1>2, <1>5 DEF Log!HasNext, Log!Place, Log!Outside

LEMMA WholeStep ==
  ASSUME IInv, Whole, [Next]_vars PROVE Whole'
<1>. USE DEF log, table, thread
<1>1. CASE \E e \in Ids : Publish(e)
  <2>1. PICK e \in Ids : Publish(e)
    BY <1>1
  <2>2. CASE IsDuplicate(e)
    <3>1. UNCHANGED <<row, live, pc, at, batch>>
      BY <2>1, <2>2 DEF Publish
    <3>. QED
      BY <3>1 DEF Whole, Subscribed, Item, Current
  <2>3. CASE ~IsDuplicate(e)
    <3>1. /\ row' = Append(row, e) /\ live' = live \cup {Len(row) + 1}
          /\ UNCHANGED <<pc, at, batch>>
      BY <2>1, <2>3 DEF Publish
    <3>2. row \in Seq(Ids) /\ Len(row) \in Nat
      BY DEF IInv, TypeOK
    <3>3. Len(row') = Len(row) + 1 /\ \A n \in 1..Len(row) : row'[n] = row[n]
      BY <3>1, <3>2
    <3>4. live' = 1..Len(row')
      BY <3>1, <3>2, <3>3 DEF Whole
    <3>5. ASSUME pc \in {"ran", "bury"} PROVE Subscribed'
      <4>1. Item \in 1..Len(row) /\ Subscribed
        BY <3>5, InHand DEF IInv, Whole, Serving
      <4>2. Item' = Item /\ Current' = Current
        BY <3>1 DEF Item, Current
      <4>. QED
        BY <3>3, <4>1, <4>2 DEF Subscribed
    <3>. QED
      BY <3>1, <3>4, <3>5 DEF Whole
  <2>. QED
    BY <2>2, <2>3
<1>2. CASE Run \/ CommitRunFails \/ RunFails
  <2>1. UNCHANGED <<row, live>> /\ Subscribed
    BY <1>2 DEF Run, CommitRunFails, RunFails, Fail, Whole
  <2>2. pc' \in {"ran", "bury"} => UNCHANGED <<at, batch>>
    BY <1>2 DEF Run, CommitRunFails, RunFails, Fail, NextConsumer
  <2>. QED
    BY <2>1, <2>2 DEF Whole, Subscribed, Item, Current
<1>3. CASE \/ Start \/ Register \/ StartDrain \/ Crash
           \/ Tick \/ ReadBatch \/ EndTick \/ BatchDone \/ PassOver \/ Hold
           \/ CommitRun \/ DeadLetter \/ CommitBuried \/ TickFails
  <2>1. UNCHANGED <<row, live>>
    BY <1>3 DEF Start, Register, StartDrain, Crash, Tick, ReadBatch, EndTick, BatchDone,
       PassOver, Hold, CommitRun, DeadLetter, CommitBuried, TickFails
  <2>2. pc' \notin {"ran", "bury"}
    BY <1>3 DEF Start, Register, StartDrain, Crash, Tick, ReadBatch, EndTick, BatchDone,
       PassOver, Hold, CommitRun, DeadLetter, CommitBuried, TickFails, NextItem, NextConsumer
  <2>. QED
    BY <2>1, <2>2 DEF Whole
<1>4. CASE (\E c \in Gated : Grant(c) \/ Lapse(c)) \/ UNCHANGED vars
  <2>1. UNCHANGED <<row, live, pc, at, batch>>
    BY <1>4 DEF Grant, Lapse, vars
  <2>. QED
    BY <2>1 DEF Whole, Subscribed, Item, Current
<1>. QED
  BY <1>1, <1>2, <1>3, <1>4 DEF Next, Drain

\* Each step of the backbone is a step of the log of deliveries, or none.
LEMMA LogStep ==
  ASSUME IInv, Whole, [Next]_vars PROVE [Log!Next]_(Log!vars)
<1>. USE DEF log, table, thread
<1>1. ASSUME NEW e \in Ids, Publish(e) PROVE [Log!Next]_(Log!vars)
  <2>1. CASE IsDuplicate(e)
    BY <1>1, <2>1 DEF Publish, Log!vars
  <2>2. CASE ~IsDuplicate(e)
    BY <1>1, <2>2 DEF Publish, IsDuplicate, Whole, Log!Publish, Log!Next
  <2>. QED
    BY <2>1, <2>2
<1>2. CASE Register
  <2>. DEFINE c == Roster[up + 1]
  <2>1. c \in Consumers
    BY <1>2, Numbers DEF Register, Consumers, IInv
  <2>2. CASE offset[c] = NoRow
    <3>1. Log!Join(c)
      BY <1>2, <2>2 DEF Register, Log!Join, Log!Outside, NoRow
    <3>. QED
      BY <2>1, <3>1 DEF Log!Next
  <2>3. CASE offset[c] # NoRow
    BY <1>2, <2>3 DEF Register, Log!vars
  <2>. QED
    BY <2>2, <2>3
<1>3. CASE Run
  <2>1. Serving /\ batch # {} /\ Subscribed
    BY <1>3 DEF Run, Serving
  <2>2. Log!Process(Current)
    BY <1>3, <2>1, InHandIsNext DEF Run, Log!Process, Log!Wants, Subscribed
  <2>. QED
    BY <2>1, <2>2, InHandIsNext DEF Log!Next
<1>4. CASE DeadLetter
  <2>1. Serving /\ pc # "event" /\ Subscribed
    BY <1>4 DEF DeadLetter, Serving, Whole
  <2>2. Log!Bury(Current)
    BY <1>4, <2>1, InHandIsNext DEF DeadLetter, Log!Bury, Log!Wants, Subscribed
  <2>. QED
    BY <2>1, <2>2, InHandIsNext DEF Log!Next
<1>5. CASE PassOver \/ CommitRun \/ CommitBuried
  <2>1. Serving /\ (pc = "event" => batch # {})
    BY <1>5 DEF PassOver, CommitRun, CommitBuried, Serving
  <2>2. Commit /\ UNCHANGED <<row, ran, dlq>>
    BY <1>5 DEF PassOver, CommitRun, CommitBuried
  <2>3. Subscribed => Delivery \in ran \cup dlq
    BY <1>5 DEF PassOver, CommitRun, CommitBuried, IInv, MidDelivery
  <2>4. Log!Advance(Current)
    BY <2>1, <2>2, <2>3, InHandIsNext DEF Commit, Log!Advance, Log!Wants, Subscribed
  <2>. QED
    BY <2>1, <2>4, InHandIsNext DEF Log!Next
<1>6. CASE \/ Start \/ StartDrain \/ Crash \/ \E c \in Gated : Grant(c) \/ Lapse(c)
           \/ Tick \/ ReadBatch \/ EndTick \/ BatchDone \/ Hold
           \/ RunFails \/ CommitRunFails \/ TickFails
  BY <1>6 DEF Start, StartDrain, Crash, Grant, Lapse, Tick, ReadBatch, EndTick, BatchDone,
     Hold, RunFails, CommitRunFails, TickFails, Fail, Log!vars
<1>7. CASE UNCHANGED vars
  BY <1>7 DEF vars, Log!vars
<1>. QED
  BY <1>1, <1>2, <1>3, <1>4, <1>5, <1>6, <1>7 DEF Next, Drain

\* Behind its crashes, retries, batches and holds the backbone is a log that every
\* consumer reads in order, and past each event only when it was processed or buried.
THEOREM Refinement == Spec => ImplementsLog
<1>1. Init => Log!Init /\ Whole
  BY DEF Init, Log!Init, Log!Outside, NoRow, Whole
<1>2. IInv /\ Whole /\ [Next]_vars => Whole' /\ [Log!Next]_(Log!vars)
  BY WholeStep, LogStep
<1>. QED
  BY <1>1, <1>2, Invariance, PTL DEF Spec, ImplementsLog

-----------------------------------------------------------------------------
(* The sweep beside the drain. *)

(* The remembered minimum is below the offset of every consumer that had    *)
(* one when the snapshot was begun; a later one was registered after it.    *)
MinInv ==
    \A c \in Consumers : offset[c] # NoRow =>
        since[c] >= memoTop \/ memo.min <= offset[c]

(* No row is judged by a snapshot begun before the row was appended. *)
FreshInv ==
    /\ fresh => \A s \in expired \cup listed : s <= memoTop
    /\ sweep \in {"snapping", "snapped"} => listed # {} /\ \A s \in listed : s <= memoTop

(* The snapshot's letters and its offsets belong together. *)
Complete == sweep = "snapped" \/ (fresh /\ sweep # "snapping")

(* A letter the snapshot does not have is of a row its minimum keeps, of    *)
(* one appended later, or of one older than its consumer's registration.    *)
LettersInv ==
    Complete => \A p \in dlq :
        \/ p[1] \in memo.dlq \/ p[1] > memo.min
        \/ p[1] > memoTop \/ p[1] <= since[p[2]]

(* The sweep looks at rows that were appended. *)
SweptInv == doomed \cup listed \subseteq 1..Len(row) /\ memoTop \in 0..Len(row)

RetentionInv ==
    /\ IInv /\ RetentionTypeOK /\ MinInv /\ FreshInv /\ LettersInv
    /\ SweptInv /\ UndeliveredIsNotDoomed /\ DeadLetterIsNotDoomed

----------------------------------------------------------------------------
(* The helpers.                                                            *)

LEMMA Offsets ==
  ASSUME TypeOK, NEW c \in Consumers
  PROVE  /\ offset[c] \in Int /\ since[c] \in Nat /\ Len(row) \in Nat
         /\ since[c] <= Len(row) /\ (offset[c] # NoRow <=> offset[c] >= 0)
         /\ offset[c] <= Len(row)
<1>1. Len(row) \in Nat
  BY DEF TypeOK
<1>2. offset[c] \in {NoRow} \cup 0..Len(row) /\ since[c] \in 0..Len(row)
  BY DEF TypeOK
<1>. QED
  BY <1>1, <1>2 DEF NoRow

\* The minimum of the offsets is below every offset.
LEMMA MinIsLeast ==
  ASSUME TypeOK
  PROVE  /\ MinLiveOffset \in 0..Unbounded
         /\ \A c \in Consumers : offset[c] # NoRow => MinLiveOffset <= offset[c]
<1>. DEFINE offsets == {offset[c] : c \in Consumers} \ {NoRow}
<1>1. offsets \in SUBSET Nat /\ \A n \in offsets : n <= MaxRows
  <2>1. ASSUME NEW c \in Consumers, offset[c] # NoRow
        PROVE  offset[c] \in Nat /\ offset[c] <= MaxRows
    BY <2>1, Offsets, Numbers, LimitsAssumption
  <2>. QED
    BY <2>1
<1>2. CASE offsets = {}
  <2>1. MinLiveOffset = Unbounded /\ Unbounded \in 0..Unbounded
    BY <1>2, LimitsAssumption DEF MinLiveOffset, Unbounded
  <2>. QED
    BY <1>2, <2>1
<1>3. CASE offsets # {}
  <2>1. MinLiveOffset = FirstOf(offsets)
    BY <1>3 DEF MinLiveOffset, Min, FirstOf
  <2>. HIDE DEF offsets
  <2>2. MinLiveOffset \in offsets /\ \A n \in offsets : MinLiveOffset <= n
    BY <1>1, <1>3, <2>1, FirstIsLeast
  <2>3. MinLiveOffset \in 0..Unbounded
    BY <1>1, <2>2, LimitsAssumption DEF Unbounded
  <2>. QED
    BY <2>2, <2>3 DEF offsets
<1>. QED
  BY <1>2, <1>3

----------------------------------------------------------------------------
(* What a step of the backbone does to what the sweep relies on.           *)

LEMMA BackboneSteps == IInv /\ [Next]_vars => IInv'
BY TypeStep, RegisteredStep, BatchStep, MidDeliveryStep, AttemptsStep, SkipStep,
   CompletedStep DEF IInv

\* Rows are only added, offsets only advance, and a registration is of now.
LEMMA BackboneGrows ==
  ASSUME IInv, [Next]_vars
  PROVE  /\ live \subseteq live' /\ Len(row) <= Len(row')
         /\ \A c \in Consumers : offset[c] # NoRow =>
               /\ since'[c] = since[c] /\ offset'[c] # NoRow /\ offset[c] <= offset'[c]
         /\ \A c \in Consumers : offset[c] = NoRow =>
               \/ offset'[c] = NoRow /\ since'[c] = since[c]
               \/ since'[c] = Len(row)
<1>. USE DEF IInv, log, table, thread
<1>1. ASSUME NEW e \in Ids, Publish(e)
      PROVE  live \subseteq live' /\ Len(row) <= Len(row') /\ UNCHANGED table
  <2>1. row' = row \/ row' = Append(row, e)
    BY <1>1 DEF Publish
  <2>2. row \in Seq(Ids)
    BY DEF TypeOK
  <2>3. Len(row) <= Len(row')
    BY <2>1, <2>2
  <2>. QED
    BY <1>1, <2>3 DEF Publish
<1>2. CASE Register
  <2>. DEFINE c == Roster[up + 1]
  <2>1. \/ UNCHANGED <<offset, since>>
        \/ /\ offset[c] = NoRow
           /\ offset' = [offset EXCEPT ![c] = 0] /\ since' = [since EXCEPT ![c] = Len(row)]
    BY <1>2 DEF Register
  <2>. HIDE DEF c
  <2>2. UNCHANGED <<row, live>>
    BY <1>2 DEF Register
  <2>3. CASE UNCHANGED <<offset, since>>
    BY <2>2, <2>3, Offsets, Numbers
  <2>4. CASE /\ offset[c] = NoRow
             /\ offset' = [offset EXCEPT ![c] = 0] /\ since' = [since EXCEPT ![c] = Len(row)]
    <3>1. \A d \in Consumers : /\ d # c => offset'[d] = offset[d] /\ since'[d] = since[d]
                               /\ d = c => since'[d] = Len(row)
      BY <2>4 DEF TypeOK
    <3>. QED
      BY <2>2, <2>4, <3>1, Offsets, Numbers
  <2>. QED
    BY <2>1, <2>3, <2>4
<1>3. CASE PassOver \/ CommitRun \/ CommitBuried
  <2>1. /\ Current \in Consumers /\ offset[Current] < Item /\ Item \in Nat
        /\ offset[Current] >= 0
    <3>1. /\ at \in 1..up /\ Current \in Consumers /\ Item \in 1..Len(row)
          /\ offset[Current] < Item
      BY <1>3, InHand DEF PassOver, CommitRun, CommitBuried, Serving
    <3>. QED
      BY <3>1 DEF Registered, Current
  <2>2. /\ offset' = [offset EXCEPT ![Current] = Item]
        /\ UNCHANGED <<row, live, since>>
    BY <1>3 DEF PassOver, CommitRun, CommitBuried, Commit
  <2>. QED
    BY <2>1, <2>2, Offsets, Numbers DEF TypeOK, NoRow
<1>4. CASE UNCHANGED <<row, live, offset, since>>
  BY <1>4, Offsets, Numbers
<1>5. ASSUME NEW c \in Gated, Grant(c) \/ Lapse(c) PROVE UNCHANGED <<row, live, offset, since>>
  BY <1>5 DEF Grant, Lapse
<1>6. CASE \/ Start \/ StartDrain \/ Crash \/ Tick \/ EndTick \/ BatchDone
           \/ Hold \/ TickFails \/ ReadBatch \/ Run \/ RunFails
           \/ CommitRunFails \/ DeadLetter \/ UNCHANGED vars
  BY <1>4, <1>6 DEF Start, StartDrain, Crash, Tick, EndTick, BatchDone, Hold,
     TickFails, ReadBatch, Run, RunFails, CommitRunFails, Fail, DeadLetter, vars
<1>7. CASE UNCHANGED table /\ live \subseteq live' /\ Len(row) <= Len(row')
  BY <1>7, Offsets
<1>. QED
  BY <1>1, <1>2, <1>3, <1>4, <1>5, <1>6, <1>7 DEF Next, Drain

\* An event is buried by a consumer whose offset is still below it.
LEMMA BuriedAhead ==
  ASSUME IInv, [Next]_vars, NEW p \in dlq', p \notin dlq
  PROVE  /\ p[1] \in 1..Len(row) /\ p[2] \in Consumers
         /\ offset[p[2]] # NoRow /\ offset[p[2]] < p[1]
         /\ UNCHANGED <<row, since, offset>>
<1>. USE DEF IInv, log, table, thread
<1>1. DeadLetter
  BY DEF Next, vars, Publish, Grant, Lapse, Start, Register, StartDrain,
         Crash, Drain, Tick, ReadBatch, EndTick, BatchDone, PassOver, Hold,
         Run, CommitRun, RunFails, CommitRunFails, CommitBuried, TickFails, Fail
<1>2. /\ at \in 1..up /\ Current \in Consumers /\ Item \in 1..Len(row)
      /\ Delivery = <<Item, Current>> /\ offset[Current] < Item
  BY <1>1, InHand DEF DeadLetter, Serving
<1>3. p = <<Item, Current>> /\ UNCHANGED <<row, since, offset>>
  BY <1>1, <1>2 DEF DeadLetter
<1>4. offset[Current] >= 0
  BY <1>2 DEF Registered, Current
<1>5. offset[Current] # NoRow
  BY <1>2, <1>4, Offsets
<1>. QED
  BY <1>2, <1>3, <1>5

----------------------------------------------------------------------------
(* The sweep's invariant under a step of the backbone.                     *)

LEMMA DrainStep ==
  ASSUME RetentionInv, [Next]_vars, UNCHANGED <<expired, sweeper>>
  PROVE  RetentionInv'
<1>. USE DEF RetentionInv, sweeper
<1>1. IInv'
  BY BackboneSteps
<1>2. TypeOK /\ TypeOK'
  BY <1>1 DEF IInv
<1>3. RetentionTypeOK'
  BY BackboneGrows DEF RetentionTypeOK
<1>4. SweptInv'
  <2>1. Len(row) \in Nat /\ Len(row') \in Nat /\ Len(row) <= Len(row')
    BY <1>2, BackboneGrows DEF TypeOK
  <2>2. memoTop \in 0..Len(row) => memoTop \in 0..Len(row')
    BY <2>1
  <2>3. 1..Len(row) \subseteq 1..Len(row')
    BY <2>1
  <2>. QED
    BY <2>2, <2>3 DEF SweptInv
<1>5. memoTop \in Nat /\ memo.min \in Nat /\ memoTop <= Len(row) /\ Len(row) \in Nat
  BY <1>2, LimitsAssumption DEF SweptInv, RetentionTypeOK, Unbounded, TypeOK
<1>6. ASSUME NEW c \in Consumers
      PROVE  /\ offset[c] \in Int /\ since[c] \in Nat /\ offset'[c] \in Int /\ since'[c] \in Nat
             /\ offset[c] # NoRow => /\ since'[c] = since[c]
                                     /\ offset'[c] # NoRow /\ offset[c] <= offset'[c]
             /\ offset[c] = NoRow => \/ offset'[c] = NoRow /\ since'[c] = since[c]
                                     \/ since'[c] = Len(row)
  <2>1. offset'[c] \in Int /\ since'[c] \in Nat
    <3>1. /\ offset'[c] \in {NoRow} \cup 0..Len(row') /\ since'[c] \in 0..Len(row')
          /\ Len(row') \in Nat
      BY <1>2 DEF TypeOK
    <3>. QED
      BY <3>1 DEF NoRow
  <2>. QED
    BY <1>2, <2>1, Offsets, BackboneGrows
<1>7. MinInv'
  <2>. SUFFICES ASSUME NEW c \in Consumers, offset'[c] # NoRow
                PROVE  since'[c] >= memoTop \/ memo.min <= offset'[c]
    BY DEF MinInv
  <2>. QED
    BY <1>5, <1>6 DEF MinInv
<1>8. FreshInv'
  BY DEF FreshInv
<1>9. UndeliveredIsNotDoomed'
  <2>. SUFFICES ASSUME NEW s \in doomed, NEW c \in Consumers, offset'[c] # NoRow, s > since'[c]
                PROVE  s <= offset'[c]
    BY DEF UndeliveredIsNotDoomed
  <2>1. s \in Nat /\ s <= Len(row)
    BY <1>5 DEF SweptInv
  <2>. QED
    BY <1>5, <1>6, <2>1 DEF UndeliveredIsNotDoomed
<1>10. ASSUME NEW p \in dlq
       PROVE  /\ p[1] \in Nat /\ p[1] <= Len(row) /\ p[2] \in Consumers /\ p = <<p[1], p[2]>>
              /\ since'[p[2]] = since[p[2]] \/ p[1] <= since'[p[2]]
  <2>1. p \in (1..Len(row)) \X Consumers
    BY <1>2 DEF TypeOK
  <2>2. p[1] \in 1..Len(row) /\ p[2] \in Consumers /\ p = <<p[1], p[2]>>
    BY <2>1
  <2>. QED
    BY <1>5, <1>6, <2>2
<1>11. DeadLetterIsNotDoomed'
  <2>. SUFFICES ASSUME NEW s \in doomed, NEW c \in Consumers, <<s, c>> \in dlq'
                PROVE  s <= since'[c]
    BY DEF DeadLetterIsNotDoomed
  <2>1. CASE <<s, c>> \in dlq
    BY <1>10, <2>1 DEF DeadLetterIsNotDoomed
  <2>2. CASE <<s, c>> \notin dlq
    <3>1. /\ s \in 1..Len(row) /\ offset[c] # NoRow /\ offset[c] < s
          /\ UNCHANGED since
      BY <2>2, BuriedAhead
    <3>. QED
      BY <1>5, <1>6, <3>1 DEF UndeliveredIsNotDoomed
  <2>. QED
    BY <2>1, <2>2
<1>12. LettersInv'
  <2>. SUFFICES ASSUME Complete, NEW p \in dlq'
                PROVE  \/ p[1] \in memo.dlq \/ p[1] > memo.min
                       \/ p[1] > memoTop \/ p[1] <= since'[p[2]]
    BY DEF LettersInv, Complete
  <2>1. CASE p \in dlq
    BY <1>10, <2>1 DEF LettersInv
  <2>2. CASE p \notin dlq
    <3>1. /\ p[1] \in 1..Len(row) /\ p[2] \in Consumers
          /\ offset[p[2]] # NoRow /\ offset[p[2]] < p[1] /\ UNCHANGED since
      BY <2>2, BuriedAhead
    <3>. QED
      BY <1>5, <1>6, <3>1 DEF MinInv
  <2>. QED
    BY <2>1, <2>2
<1>. QED
  BY <1>1, <1>3, <1>4, <1>7, <1>8, <1>9, <1>11, <1>12

----------------------------------------------------------------------------
(* The sweep's own steps.                                                  *)

\* A sweep leaves the backbone's promises: it only takes rows away.
LEMMA BackboneKept ==
  ASSUME IInv, live' \subseteq live,
         crashes' \in 0..MaxCrashes, crashes' >= crashes,
         UNCHANGED <<row, table, ran, granted, release, thread, faults>>
  PROVE  IInv'
<1>. USE DEF IInv, table, thread
<1>1. TypeOK'
  BY DEF TypeOK
<1>2. Registered' /\ MidDelivery' /\ BatchIsNext'
  BY DEF Registered, MidDelivery, BatchIsNext, Serving, Delivery, Item, Current
<1>3. AttemptsBounded'
  BY DEF AttemptsBounded, Delivery, Item, Current
<1>4. OffsetNeverSkips'
  BY DEF OffsetNeverSkips, Settled
<1>5. CompletedIsCommitted'
  <2>1. crashes' + faults' = 0 => crashes + faults = 0
    <3>1. crashes \in Nat /\ faults \in Nat
      BY Numbers
    <3>2. crashes' \in Nat /\ crashes <= crashes' /\ faults' = faults
      BY <3>1, LimitsAssumption
    <3>3. \A a, b, m \in Nat : a <= m /\ m + b = 0 => a + b = 0
      OBVIOUS
    <3>. QED
      BY <3>1, <3>2, <3>3, Zenon
  <2>. QED
    BY <2>1 DEF CompletedIsCommitted, Delivery, Item, Current
<1>. QED
  BY <1>1, <1>2, <1>3, <1>4, <1>5

LEMMA StillBackbone ==
  ASSUME IInv, UNCHANGED vars
  PROVE  IInv'
BY DEF vars, IInv, TypeOK, Registered, MidDelivery, BatchIsNext, Serving, Delivery,
       Item, Current, AttemptsBounded, OffsetNeverSkips, Settled, CompletedIsCommitted

LEMMA ExpireStep ==
  ASSUME RetentionInv, NEW s \in Rows, Expire(s) PROVE RetentionInv'
<1>. USE DEF RetentionInv, Expire, vars
<1>1. IInv'
  BY StillBackbone
<1>2. RetentionTypeOK'
  BY DEF RetentionTypeOK
<1>3. SweptInv' /\ MinInv' /\ UndeliveredIsNotDoomed' /\ DeadLetterIsNotDoomed'
  BY DEF SweptInv, MinInv, UndeliveredIsNotDoomed, DeadLetterIsNotDoomed
<1>4. FreshInv' /\ LettersInv'
  BY DEF FreshInv, LettersInv, Complete
<1>. QED
  BY <1>1, <1>2, <1>3, <1>4

LEMMA AgeStep ==
  ASSUME RetentionInv, SnapshotAges PROVE RetentionInv'
<1>. USE DEF RetentionInv, SnapshotAges, vars
<1>1. IInv'
  BY StillBackbone
<1>2. RetentionTypeOK' /\ FreshInv' /\ LettersInv'
  BY DEF RetentionTypeOK, FreshInv, LettersInv, Complete
<1>3. SweptInv' /\ MinInv' /\ UndeliveredIsNotDoomed' /\ DeadLetterIsNotDoomed'
  BY DEF SweptInv, MinInv, UndeliveredIsNotDoomed, DeadLetterIsNotDoomed
<1>. QED
  BY <1>1, <1>2, <1>3

LEMMA ListStep ==
  ASSUME RetentionInv, List PROVE RetentionInv'
<1>. USE DEF RetentionInv, List, vars
<1>1. IInv'
  BY StillBackbone
<1>2. expired \subseteq 1..Len(row) /\ expired \subseteq Rows
  BY LimitsAssumption DEF RetentionTypeOK, IInv, TypeOK, Rows
<1>3. RetentionTypeOK'
  BY <1>2, RetentionAssumption DEF RetentionTypeOK
<1>4. SweptInv' /\ MinInv' /\ UndeliveredIsNotDoomed' /\ DeadLetterIsNotDoomed'
  BY <1>2 DEF SweptInv, MinInv, UndeliveredIsNotDoomed, DeadLetterIsNotDoomed
<1>5. FreshInv' /\ LettersInv'
  BY DEF FreshInv, LettersInv, Complete
<1>. QED
  BY <1>1, <1>3, <1>4, <1>5

LEMMA RefreshStep ==
  ASSUME RetentionInv, Refresh PROVE RetentionInv'
<1>. USE DEF RetentionInv, vars
<1>1. IInv' /\ TypeOK
  BY StillBackbone DEF Refresh, IInv
<1>2. UNCHANGED <<row, live, offset, since, dlq, expired, listed, doomed, sweeps>>
  BY DEF Refresh
<1>3. UndeliveredIsNotDoomed' /\ DeadLetterIsNotDoomed'
  BY <1>2 DEF UndeliveredIsNotDoomed, DeadLetterIsNotDoomed
<1>4. CASE /\ sweep = "judging" /\ listed # {} /\ ~fresh
           /\ sweep' = "snapping" /\ fresh' = TRUE /\ QueryOffsets
  <2>1. memo' = [memo EXCEPT !.min = MinLiveOffset] /\ memoTop' = Len(row)
    BY <1>4 DEF QueryOffsets
  <2>2. memo'.min = MinLiveOffset /\ memo' \in [min : 0..Unbounded, dlq : SUBSET Rows]
    BY <1>1, <2>1, MinIsLeast DEF RetentionTypeOK
  <2>3. Len(row) \in 0..Len(row) /\ Len(row) \in 0..MaxRows
    BY <1>1, Numbers, LimitsAssumption
  <2>4. RetentionTypeOK'
    BY <1>2, <1>4, <2>1, <2>2, <2>3 DEF RetentionTypeOK
  <2>5. SweptInv' /\ MinInv'
    BY <1>1, <1>2, <2>1, <2>2, <2>3, MinIsLeast DEF SweptInv, MinInv
  <2>6. FreshInv'
    <3>1. \A s \in expired \cup listed : s <= Len(row)
      BY <1>1 DEF RetentionTypeOK, TypeOK, SweptInv
    <3>. QED
      BY <1>2, <1>4, <2>1, <3>1 DEF FreshInv
  <2>7. LettersInv'
    BY <1>4 DEF LettersInv, Complete
  <2>. QED
    BY <1>1, <1>3, <2>4, <2>5, <2>6, <2>7
<1>5. CASE sweep = "snapping" /\ sweep' = "snapped" /\ QueryLetters /\ UNCHANGED fresh
  <2>1. memo' = [memo EXCEPT !.dlq = {p[1] : p \in dlq}] /\ memoTop' = memoTop
    BY <1>5 DEF QueryLetters
  <2>2. \A p \in dlq : p[1] \in Rows
    <3>1. \A p \in dlq : p[1] \in 1..Len(row)
      BY <1>1 DEF TypeOK
    <3>. QED
      BY <1>1, <3>1, Numbers, LimitsAssumption DEF Rows
  <2>3. /\ memo'.min = memo.min /\ memo'.dlq = {p[1] : p \in dlq}
        /\ memo' \in [min : 0..Unbounded, dlq : SUBSET Rows]
    BY <2>1, <2>2 DEF RetentionTypeOK
  <2>4. RetentionTypeOK'
    BY <1>2, <1>5, <2>1, <2>3 DEF RetentionTypeOK
  <2>5. SweptInv' /\ MinInv'
    BY <1>2, <2>1, <2>3 DEF SweptInv, MinInv
  <2>6. FreshInv'
    BY <1>2, <1>5, <2>1 DEF FreshInv
  <2>7. LettersInv'
    BY <1>2, <2>3 DEF LettersInv
  <2>. QED
    BY <1>1, <1>3, <2>4, <2>5, <2>6, <2>7
<1>. QED
  BY <1>4, <1>5 DEF Refresh

\* A row that is condemned has been given to every consumer it is due to, and is no
\* consumer's letter.
LEMMA JudgeStep ==
  ASSUME RetentionInv, Judge PROVE RetentionInv'
<1>. USE DEF RetentionInv, vars
<1>. DEFINE s == FirstOf(listed)
<1>1. IInv' /\ TypeOK
  BY StillBackbone DEF Judge, IInv
<1>2. /\ UNCHANGED <<row, live, offset, since, dlq, expired, memo, memoTop, fresh, sweeps>>
      /\ sweep' = "judging" /\ listed' = listed \ {s}
      /\ doomed' = IF Keep(s) THEN doomed ELSE doomed \cup {s}
      /\ sweep = "snapped" \/ (sweep = "judging" /\ fresh)
  BY DEF Judge
<1>3. s \in listed
  <2>1. listed # {} /\ listed \in SUBSET Nat
    BY DEF Judge, FreshInv, RetentionTypeOK, Rows
  <2>. QED
    BY <2>1, FirstIsLeast
<1>. HIDE DEF s
<1>4. s \in 1..Len(row) /\ s \in Rows /\ s <= memoTop
  BY <1>2, <1>3 DEF SweptInv, RetentionTypeOK, FreshInv
<1>5. RetentionTypeOK'
  BY <1>2, <1>4 DEF RetentionTypeOK
<1>6. SweptInv' /\ MinInv'
  BY <1>2, <1>4 DEF SweptInv, MinInv
<1>7. FreshInv' /\ LettersInv'
  BY <1>2 DEF FreshInv, LettersInv, Complete
<1>8. memo.min \in Nat /\ memoTop \in Nat /\ s \in Nat
  BY <1>4, LimitsAssumption DEF RetentionTypeOK, Unbounded
<1>9. ASSUME ~Keep(s)
      PROVE  /\ \A c \in Consumers : offset[c] # NoRow /\ s > since[c] => s <= offset[c]
             /\ \A c \in Consumers : <<s, c>> \in dlq => s <= since[c]
  <2>1. s <= memo.min /\ s \notin memo.dlq
    BY <1>8, <1>9 DEF Keep
  <2>2. ASSUME NEW c \in Consumers, offset[c] # NoRow, s > since[c] PROVE s <= offset[c]
    <3>1. offset[c] \in Int /\ since[c] \in Nat
      BY <1>1, Offsets
    <3>2. since[c] >= memoTop \/ memo.min <= offset[c]
      BY <2>2 DEF MinInv
    <3>. QED
      BY <1>4, <1>8, <2>1, <2>2, <3>1, <3>2
  <2>3. ASSUME NEW c \in Consumers, <<s, c>> \in dlq PROVE s <= since[c]
    <3>1. Complete
      BY <1>2 DEF Complete
    <3>2. s \in memo.dlq \/ s > memo.min \/ s > memoTop \/ s <= since[c]
      BY <2>3, <3>1 DEF LettersInv
    <3>. QED
      BY <1>4, <1>8, <2>1, <3>2
  <2>. QED
    BY <2>2, <2>3
<1>10. UndeliveredIsNotDoomed' /\ DeadLetterIsNotDoomed'
  BY <1>2, <1>9 DEF UndeliveredIsNotDoomed, DeadLetterIsNotDoomed
<1>. QED
  BY <1>1, <1>5, <1>6, <1>7, <1>10

LEMMA DeleteStep ==
  ASSUME RetentionInv, DeleteRows PROVE RetentionInv'
<1>. USE DEF RetentionInv
<1>1. crashes \in 0..MaxCrashes /\ crashes >= crashes /\ live' \subseteq live
  BY LimitsAssumption DEF IInv, TypeOK, DeleteRows
<1>2. IInv'
  BY <1>1, BackboneKept DEF DeleteRows
<1>. USE DEF DeleteRows, table, thread
<1>3. RetentionTypeOK'
  BY DEF RetentionTypeOK
<1>4. SweptInv' /\ MinInv' /\ FreshInv' /\ LettersInv'
  BY DEF SweptInv, MinInv, FreshInv, LettersInv, Complete
<1>5. UndeliveredIsNotDoomed' /\ DeadLetterIsNotDoomed'
  BY DEF UndeliveredIsNotDoomed, DeadLetterIsNotDoomed
<1>. QED
  BY <1>2, <1>3, <1>4, <1>5

LEMMA DeathStep ==
  ASSUME RetentionInv, SweeperDies PROVE RetentionInv'
<1>. USE DEF RetentionInv
<1>1. crashes' \in 0..MaxCrashes /\ crashes' >= crashes /\ live' \subseteq live
  BY LimitsAssumption DEF IInv, TypeOK, SweeperDies, log
<1>2. IInv'
  BY <1>1, BackboneKept DEF SweeperDies, log
<1>. USE DEF SweeperDies, log, table, thread
<1>3. RetentionTypeOK'
  BY DEF RetentionTypeOK
<1>4. SweptInv' /\ MinInv' /\ FreshInv' /\ LettersInv'
  BY DEF SweptInv, MinInv, FreshInv, LettersInv, Complete
<1>5. UndeliveredIsNotDoomed' /\ DeadLetterIsNotDoomed'
  BY DEF UndeliveredIsNotDoomed, DeadLetterIsNotDoomed
<1>. QED
  BY <1>2, <1>3, <1>4, <1>5

----------------------------------------------------------------------------
(* The theorems.                                                           *)

LEMMA RetentionStep == RetentionInv /\ [RetentionNext]_retentionVars => RetentionInv'
<1>. SUFFICES ASSUME RetentionInv, [RetentionNext]_retentionVars PROVE RetentionInv'
  OBVIOUS
<1>1. CASE Next /\ UNCHANGED <<expired, sweeper>>
  BY <1>1, DrainStep
<1>2. CASE Sweep
  BY <1>2, ListStep, RefreshStep, JudgeStep, DeleteStep, DeathStep, AgeStep, ExpireStep
     DEF Sweep
<1>3. CASE UNCHANGED retentionVars
  BY <1>3, DrainStep DEF retentionVars
<1>. QED
  BY <1>1, <1>2, <1>3 DEF RetentionNext

LEMMA RetentionStart == RetentionInit => RetentionInv
<1>. SUFFICES ASSUME RetentionInit PROVE RetentionInv
  OBVIOUS
<1>. USE DEF RetentionInit
<1>1. IInv
  BY InitHolds
<1>2. RetentionTypeOK
  <2>1. 0 \in 0..MaxRows + 1 /\ 0 \in 0..MaxRows /\ 0 \in 0..MaxSweeps
    BY LimitsAssumption, RetentionAssumption
  <2>2. memo \in [min : 0..Unbounded, dlq : SUBSET Rows]
    BY <2>1 DEF Unbounded
  <2>. QED
    BY <2>1, <2>2 DEF RetentionTypeOK
<1>3. SweptInv /\ MinInv
  <2>1. row = <<>> /\ offset = [c \in Consumers |-> NoRow]
    BY DEF Init
  <2>. QED
    BY <2>1 DEF SweptInv, MinInv
<1>4. FreshInv /\ LettersInv /\ UndeliveredIsNotDoomed /\ DeadLetterIsNotDoomed
  BY DEF FreshInv, LettersInv, Complete, UndeliveredIsNotDoomed, DeadLetterIsNotDoomed
<1>. QED
  BY <1>1, <1>2, <1>3, <1>4 DEF RetentionInv

\* RetentionInv holds in every reachable state of the backbone with the sweep beside it.
LEMMA RetentionInvariance == RetentionSpec => []RetentionInv
BY RetentionStart, RetentionStep, PTL DEF RetentionSpec

\* The sweep's rows, snapshot and counters keep their types beside the backbone's.
THEOREM RetentionTypeCorrect == RetentionSpec => [](TypeOK /\ RetentionTypeOK)
<1>1. RetentionInv => TypeOK /\ RetentionTypeOK
  BY DEF RetentionInv, IInv
<1>. QED
  BY <1>1, RetentionInvariance, PTL

\* However old the offsets a sweep goes by, it condemns no row that a consumer
\* registered before it was appended has not been given yet.
THEOREM NoUndeliveredIsDoomed == RetentionSpec => []UndeliveredIsNotDoomed
<1>1. RetentionInv => UndeliveredIsNotDoomed
  BY DEF RetentionInv
<1>. QED
  BY <1>1, RetentionInvariance, PTL

\* Nor does it condemn a dead-lettered row, although the offsets and the letters are
\* read apart.
THEOREM NoLetterIsDoomed == RetentionSpec => []DeadLetterIsNotDoomed
<1>1. RetentionInv => DeadLetterIsNotDoomed
  BY DEF RetentionInv
<1>. QED
  BY <1>1, RetentionInvariance, PTL

\* With rows deleted under it, the drain still skips nothing that is in the log, and
\* no offset moves back.
THEOREM BackboneUnharmed == RetentionSpec => []OffsetNeverSkips /\ OffsetMonotone
<1>1. RetentionInv => OffsetNeverSkips
  BY DEF RetentionInv, IInv
<1>2. RetentionInv /\ [RetentionNext]_retentionVars
        => [\A c \in Consumers : offset'[c] >= offset[c]]_vars
  <2>. SUFFICES ASSUME RetentionInv, [RetentionNext]_retentionVars, NEW c \in Consumers
                PROVE  offset'[c] >= offset[c]
    OBVIOUS
  <2>1. IInv /\ offset[c] \in Int
    BY Offsets DEF RetentionInv, IInv
  <2>2. CASE [Next]_vars
    BY <2>1, <2>2, NeverBack DEF IInv
  <2>3. CASE Sweep
    <3>1. UNCHANGED offset
      BY <2>3 DEF Sweep, List, Refresh, Judge, DeleteRows, SweeperDies, SnapshotAges,
         Expire, vars, table
    <3>. QED
      BY <2>1, <3>1
  <2>. QED
    BY <2>2, <2>3 DEF RetentionNext, retentionVars
<1>. QED
  BY <1>1, <1>2, RetentionInvariance, PTL DEF RetentionSpec, OffsetMonotone

-----------------------------------------------------------------------------
(* The producer of a watched value.  A cursor was loaded from a state file that *)
(* already kept to the log, and what is about to be saved was published, or was *)
(* a baseline, or is what was loaded.                                           *)

Known == Announced \cup baselines

LoadedInv == \A p \in Pollers : poll[p].prev \in Known \cup {None}

SeenInv ==
    \A p \in Pollers :
        /\ poll[p].pc \in {"fetched", "saving", "writing"} => poll[p].seen \in Values
        /\ poll[p].pc \in {"saving", "writing"} => poll[p].seen \in Known

PollerInv == PollerTypeOK /\ CursorFollowsTheLog /\ LoadedInv /\ SeenInv

Polls == [pc : {"idle", "loaded", "fetched", "saving", "writing"},
          prev : Values \cup {None}, seen : Values \cup {None}]

\* The log and the baselines only grow.
LEMMA KnownGrows ==
  ASSUME published \subseteq published', baselines \subseteq baselines'
  PROVE  Known \subseteq Known'
BY DEF Known, Announced

\* What a step of one poller has to show for itself.
LEMMA OnePolls ==
  ASSUME PollerInv, NEW p \in Pollers, NEW new \in Polls, poll' = [poll EXCEPT ![p] = new],
         published \subseteq published', baselines \subseteq baselines',
         new.prev \in Known' \cup {None},
         new.pc \in {"fetched", "saving", "writing"} => new.seen \in Values,
         new.pc \in {"saving", "writing"} => new.seen \in Known'
  PROVE  poll' \in [Pollers -> Polls] /\ LoadedInv' /\ SeenInv'
<1>1. poll \in [Pollers -> Polls]
  BY DEF PollerInv, PollerTypeOK, Polls
<1>2. \A q \in Pollers : poll'[q] = IF q = p THEN new ELSE poll[q]
  BY <1>1
<1>3. LoadedInv'
  BY <1>2, KnownGrows DEF LoadedInv, PollerInv
<1>4. SeenInv'
  BY <1>2, KnownGrows DEF SeenInv, PollerInv
<1>. QED
  BY <1>1, <1>3, <1>4

LEMMA PollStep ==
  ASSUME PollerInv, NEW p \in Pollers, Poll(p) \/ Abandon(p)
  PROVE  PollerInv'
<1>. USE PollerAssumption
<1>0. /\ poll \in [Pollers -> Polls] /\ poll[p] \in Polls
      /\ value \in Values /\ failures \in 0..MaxFailures
      /\ cursor \in Values \cup {None} /\ (cursor # None => cursor \in Known)
      /\ poll[p].prev \in Known \cup {None}
      /\ poll[p].pc \in {"fetched", "saving", "writing"} => poll[p].seen \in Values
      /\ poll[p].pc \in {"saving", "writing"} => poll[p].seen \in Known
  BY DEF PollerInv, PollerTypeOK, CursorFollowsTheLog, LoadedInv, SeenInv, Polls, Known
<1>1. Idle \in Polls /\ Idle.prev = None /\ Idle.pc = "idle"
  BY DEF Idle, Polls
<1>2. ASSUME NEW k \in {"saving", "writing"}, Goto(p, k)
      PROVE  /\ [poll[p] EXCEPT !.pc = k] \in Polls
             /\ [poll[p] EXCEPT !.pc = k].prev = poll[p].prev
             /\ [poll[p] EXCEPT !.pc = k].seen = poll[p].seen
             /\ [poll[p] EXCEPT !.pc = k].pc = k
             /\ poll' = [poll EXCEPT ![p] = [poll[p] EXCEPT !.pc = k]]
  BY <1>0, <1>2 DEF Polls, Goto
<1>3. ASSUME UNCHANGED <<reportAll, value, published, baselines, changes>>,
             failures' \in 0..MaxFailures, cursor' \in Values \cup {None},
             cursor' # None => cursor' \in Known,
             poll' \in [Pollers -> Polls], LoadedInv', SeenInv'
      PROVE  PollerInv'
  BY <1>3 DEF PollerInv, PollerTypeOK, CursorFollowsTheLog, Known, Announced,
     Polls, Events
<1>4. CASE Load(p)
  <2>. DEFINE new == [pc |-> "loaded", prev |-> cursor, seen |-> None]
  <2>1. new \in Polls /\ poll' = [poll EXCEPT ![p] = new]
    BY <1>0, <1>4 DEF Load, Polls
  <2>2. published' = published /\ baselines' = baselines /\ Known' = Known
    BY <1>4 DEF Load, Known, Announced
  <2>3. poll' \in [Pollers -> Polls] /\ LoadedInv' /\ SeenInv'
    BY <1>0, <2>1, <2>2, OnePolls
  <2>. QED
    BY <1>0, <1>3, <1>4, <2>3 DEF Load
<1>5. CASE Fetch(p)
  <2>. DEFINE new == [poll[p] EXCEPT !.pc = "fetched", !.seen = value]
  <2>1. new \in Polls /\ poll' = [poll EXCEPT ![p] = new]
    BY <1>0, <1>5 DEF Fetch, Polls
  <2>2. published' = published /\ baselines' = baselines /\ Known' = Known
    BY <1>5 DEF Fetch, Known, Announced
  <2>3. new.prev = poll[p].prev /\ new.pc = "fetched" /\ new.seen = value
    BY <1>0 DEF Polls
  <2>4. poll' \in [Pollers -> Polls] /\ LoadedInv' /\ SeenInv'
    <3>. HIDE DEF new
    <3>. QED
      BY <1>0, <2>1, <2>2, <2>3, OnePolls
  <2>. QED
    BY <1>0, <1>3, <1>5, <2>4 DEF Fetch
<1>6. CASE PublishChange(p)
  <2>. DEFINE event == [prev |-> poll[p].prev, current |-> poll[p].seen]
  <2>1. /\ published' = published \cup {event} /\ Fires(poll[p]) /\ poll[p].pc = "fetched"
        /\ Goto(p, "saving")
        /\ UNCHANGED <<reportAll, value, cursor, baselines, changes, failures>>
    BY <1>6 DEF PublishChange, At
  <2>2. event \in Events /\ (event.prev = None => reportAll)
    BY <1>0, <2>1 DEF Events, Fires, Polls
  <2>3. poll[p].seen \in Known' /\ published \subseteq published'
    <3>1. event \in published' /\ event.current = poll[p].seen
      BY <2>1
    <3>. HIDE DEF event
    <3>. QED
      BY <2>1, <3>1 DEF Known, Announced
  <2>4. Known \subseteq Known'
    BY <2>1, <2>3, KnownGrows
  <2>5. poll' \in [Pollers -> Polls] /\ LoadedInv' /\ SeenInv'
    BY <1>0, <1>2, <2>1, <2>3, <2>4, OnePolls
  <2>6. PollerTypeOK'
    BY <2>1, <2>2, <2>5 DEF PollerInv, PollerTypeOK, Polls
  <2>7. CursorFollowsTheLog'
    BY <1>0, <2>1, <2>4 DEF CursorFollowsTheLog, Known
  <2>. QED
    BY <2>5, <2>6, <2>7 DEF PollerInv
<1>7. CASE SkipUnchanged(p)
  <2>1. /\ poll[p].pc = "fetched" /\ Goto(p, "saving")
        /\ baselines' = baselines \cup ({poll[p].seen} \ {poll[p].prev})
        /\ UNCHANGED <<reportAll, value, cursor, published, changes, failures>>
    BY <1>7 DEF SkipUnchanged, At
  <2>2. Known \subseteq Known' /\ baselines \subseteq baselines'
    BY <2>1, KnownGrows
  <2>3. poll[p].seen \in Known'
    <3>1. CASE poll[p].seen = poll[p].prev
      BY <1>0, <2>1, <2>2, <3>1
    <3>2. CASE poll[p].seen # poll[p].prev
      BY <2>1, <3>2 DEF Known
    <3>. QED
      BY <3>1, <3>2
  <2>4. poll' \in [Pollers -> Polls] /\ LoadedInv' /\ SeenInv'
    BY <1>0, <1>2, <2>1, <2>2, <2>3, OnePolls
  <2>5. PollerTypeOK'
    BY <1>0, <2>1, <2>4 DEF PollerInv, PollerTypeOK, Polls
  <2>6. CursorFollowsTheLog'
    BY <1>0, <2>1, <2>2 DEF CursorFollowsTheLog, Known
  <2>. QED
    BY <2>4, <2>5, <2>6 DEF PollerInv
<1>8. CASE Truncate(p)
  <2>1. /\ poll[p].pc = "saving" /\ Goto(p, "writing") /\ cursor' = None
        /\ UNCHANGED <<reportAll, value, published, baselines, changes, failures>>
    BY <1>8 DEF Truncate, At
  <2>2. Known' = Known
    BY <2>1 DEF Known, Announced
  <2>3. poll' \in [Pollers -> Polls] /\ LoadedInv' /\ SeenInv'
    <3>. DEFINE new == [poll[p] EXCEPT !.pc = "writing"]
    <3>1. /\ new \in Polls /\ new.prev = poll[p].prev /\ new.seen = poll[p].seen
          /\ new.pc = "writing" /\ poll' = [poll EXCEPT ![p] = new]
      BY <1>2, <2>1
    <3>. HIDE DEF new
    <3>. QED
      BY <1>0, <2>1, <2>2, <3>1, OnePolls
  <2>. QED
    BY <1>0, <1>3, <2>1, <2>3
<1>9. CASE Write(p) \/ Abandon(p)
  <2>1. /\ poll' = [poll EXCEPT ![p] = Idle]
        /\ cursor' = cursor \/ (cursor' = poll[p].seen /\ poll[p].pc = "writing")
        /\ UNCHANGED <<reportAll, value, published, baselines, changes>>
        /\ failures' = failures \/ (failures < MaxFailures /\ failures' = failures + 1)
    BY <1>9 DEF Write, Abandon, At
  <2>2. Known' = Known
    BY <2>1 DEF Known, Announced
  <2>3. poll' \in [Pollers -> Polls] /\ LoadedInv' /\ SeenInv'
    BY <1>1, <2>1, <2>2, OnePolls
  <2>4. failures' \in 0..MaxFailures
    BY <1>0, <2>1
  <2>. QED
    BY <1>0, <1>3, <2>1, <2>3, <2>4
<1>. QED
  BY <1>4, <1>5, <1>6, <1>7, <1>8, <1>9 DEF Poll

LEMMA PollerInvariance == PollerSpec => []PollerInv
<1>1. PollerInit => PollerInv
  <2>. SUFFICES ASSUME PollerInit PROVE PollerInv
    OBVIOUS
  <2>1. PollerTypeOK
    BY PollerAssumption DEF PollerInit, PollerTypeOK, Idle
  <2>2. LoadedInv /\ SeenInv /\ CursorFollowsTheLog
    BY DEF LoadedInv, SeenInv, CursorFollowsTheLog, PollerInit, Idle
  <2>. QED
    BY <2>1, <2>2 DEF PollerInv
<1>2. PollerInv /\ [PollerNext]_(pollerVars) => PollerInv'
  <2>. SUFFICES ASSUME PollerInv, [PollerNext]_(pollerVars) PROVE PollerInv'
    OBVIOUS
  <2>1. CASE \E v \in Values : Change(v)
    BY <2>1, PollerAssumption DEF Change, PollerInv, PollerTypeOK, LoadedInv, SeenInv,
       CursorFollowsTheLog, Known, Announced, Events
  <2>2. CASE \E p \in Pollers : Poll(p) \/ Abandon(p)
    BY <2>2, PollStep
  <2>3. CASE UNCHANGED pollerVars
    BY <2>3 DEF pollerVars, PollerInv, PollerTypeOK, LoadedInv, SeenInv,
       CursorFollowsTheLog, Known, Announced, Events
  <2>. QED
    BY <2>1, <2>2, <2>3 DEF PollerNext
<1>. QED
  BY <1>1, <1>2, PTL DEF PollerSpec

\* The state file, the polls and the log of changes keep their types, and an event
\* without a previous value is published only when cursor.from is all.
THEOREM PollerTypeCorrect == PollerSpec => []PollerTypeOK
<1>1. PollerInv => PollerTypeOK
  BY DEF PollerInv
<1>. QED
  BY <1>1, PollerInvariance, PTL

\* However many processes poll a source at once, and wherever they die, no value
\* becomes the cursor unannounced, but for a baseline.
THEOREM NoChangeIsLost == PollerSpec => []CursorFollowsTheLog
<1>1. PollerInv => CursorFollowsTheLog
  BY DEF PollerInv
<1>. QED
  BY <1>1, PollerInvariance, PTL
============================================================================
