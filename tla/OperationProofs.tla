------------------------ MODULE OperationProofs ------------------------
(***************************************************************************)
(* Proofs about OperationQueue, for every set of retriers and number of    *)
(* retries, and then about VerifyLaunch, whose record is such a one, for   *)
(* every number of attempts and of faults.                                 *)
(*                                                                         *)
(* While nobody has called `retry`, IInv says, the dispatch and the sweep  *)
(* take turns: a record is queued only once its dispatch is over           *)
(* (TurnsInv), it reads "running" under a replay (ReplayInv), and no sweep *)
(* will take it up while an attempt stands whose failure is not on record  *)
(* (StandingInv), once a verdict is due (VerdictInv) or once the record is *)
(* completed (CompletedInv).                                               *)
(***************************************************************************)
EXTENDS OperationQueue, VerifyLaunch, TLAPS

Original == caller["dispatch"]

\* A copy that will be written back is a record; the dispatch makes no claim.
CopyInv ==
    /\ \A c \in Callers : caller[c].pc = "claiming" => caller[c].copy # Gone
    /\ sweep.pc \in {"claiming", "retiring", "replaying", "reporting", "failed"} =>
          sweep.copy # Gone
    /\ Original.pc \notin {"idle", "claiming"}

TurnsInv ==
    /\ rec # Gone /\ rec.queued => Original.pc = "done"
    /\ sweep.pc # "idle" => Original.pc = "done"

ReplayInv ==
    sweep.pc \in {"replaying", "reporting"} => rec = Gone \/ rec.status = "running"

\* No sweep will find this record ready.
Closed == rec # Gone => ~(rec.queued /\ rec.status = "failed")

StandingInv ==
    /\ ~Closed => standing = {}
    /\ Original.pc \in {"calling", "reporting"} => standing \subseteq {"dispatch"}
    /\ Original.pc = "enqueueing" /\ rec # Gone => standing = {}
    /\ sweep.pc = "claiming" => standing = {}
    /\ sweep.pc \in {"replaying", "reporting", "failed"} => standing \subseteq {"sweep"}

VerdictInv ==
    /\ told["success"] + told["exhausted"] <= 1
    /\ told["success"] + told["exhausted"] > 0 => sweep.pc \in {"idle", "retiring"}
    /\ told["success"] + told["exhausted"] > 0 \/ sweep.pc \in Verdicts =>
          Closed /\ Original.pc = "done"
    /\ told["exhausted"] > 0 \/ sweep.pc = "exhausted" =>
          /\ sweep.pc # "retiring"
          /\ rec # Gone => rec.status = "failed" /\ ~rec.queued

CompletedInv ==
    rec # Gone => (rec.status = "completed" =>
        /\ ~rec.queued
        /\ Original.pc = "done" /\ sweep.pc \in {"idle", "success"})

TakingTurns == TurnsInv /\ ReplayInv /\ StandingInv /\ VerdictInv /\ CompletedInv

IInv == TypeOK /\ CopyInv /\ (Undisturbed => TakingTurns)

-----------------------------------------------------------------------------
(* The types, and what the writers make of a record.                       *)

Calls == [pc : {"idle", "claiming", "calling", "reporting", "enqueueing", "done"},
          outcome : Outcomes \union {"none"}, copy : Record \union {Gone}]

Sweeps == [pc : {"idle", "claiming", "retiring", "replaying", "reporting", "failed"}
                  \union Verdicts,
           outcome : Outcomes \union {"none"}, copy : Record \union {Gone}]

LEMMA GoneIsNoRecord == Gone \notin Record
  BY DEF Gone, Record

LEMMA Completes ==
  ASSUME NEW r \in Record, NEW ok \in BOOLEAN
  PROVE  /\ Complete(r, ok) \in Record
         /\ Complete(r, ok).status = IF ok THEN "completed" ELSE "failed"
         /\ Complete(r, ok).queued = r.queued
<1>. DEFINE status == IF ok THEN "completed" ELSE "failed"
<1>1. status \in {"failed", "completed"}
  OBVIOUS
<1>2. Complete(r, ok) = [r EXCEPT !.status = status, !.lease = "none", !.settled = TRUE]
  BY DEF Complete
<1>. HIDE DEF status
<1>3. /\ Complete(r, ok) \in Record /\ Complete(r, ok).status = status
      /\ Complete(r, ok).queued = r.queued
  BY <1>1, <1>2 DEF Record
<1>. QED
  BY <1>3 DEF status

LEMMA Enqueues ==
  ASSUME NEW r \in Record, NEW uncertain \in BOOLEAN
  PROVE  /\ Enqueue(r, uncertain) \in Record
         /\ Enqueue(r, uncertain).status = "failed" /\ Enqueue(r, uncertain).queued
<1>. DEFINE carrier == r.carrier \/ uncertain
<1>1. carrier \in BOOLEAN /\ MaxRetries \in Nat
  BY BoundAssumption
<1>2. Enqueue(r, uncertain) = [r EXCEPT !.status = "failed", !.lease = "none",
         !.settled = TRUE, !.queued = TRUE, !.due = FALSE, !.max = MaxRetries,
         !.carrier = carrier]
  BY DEF Enqueue
<1>. HIDE DEF carrier
<1>. QED
  BY <1>1, <1>2 DEF Record

LEMMA Claims ==
  ASSUME NEW r \in Record
  PROVE  Claim(r) \in Record /\ Claim(r).status = "running"
<1>1. r.attempt + 1 \in Nat
  BY DEF Record
<1>. QED
  BY <1>1 DEF Claim, Record

LEMMA Retires ==
  ASSUME NEW r \in Record
  PROVE  /\ Retire(r) \in Record /\ Retire(r).status = "failed" /\ ~Retire(r).queued
         /\ Cancel(r) \in Record /\ Cancel(r).status = "cancelled" /\ ~Cancel(r).queued
  BY DEF Retire, Cancel, Record

\* What the sweep writes back after a replay.
Done(r) == [Complete(r, TRUE) EXCEPT !.queued = FALSE]
Raised(r, uncertain) ==
    [r EXCEPT !.status = "failed", !.lease = "none", !.carrier = uncertain]
Scheduled(r) == [r EXCEPT !.status = "failed", !.lease = "none", !.due = FALSE]
Exhausted(r) == [r EXCEPT !.status = "failed", !.lease = "none", !.queued = FALSE]

LEMMA WritesBack ==
  ASSUME NEW r \in Record, NEW uncertain \in BOOLEAN
  PROVE  /\ Done(r) \in Record /\ Done(r).status = "completed" /\ ~Done(r).queued
         /\ Raised(r, uncertain) \in Record
         /\ Raised(r, uncertain).status = "failed"
         /\ Scheduled(r) \in Record /\ Scheduled(r).status = "failed"
         /\ Exhausted(r) \in Record /\ Exhausted(r).status = "failed" /\ ~Exhausted(r).queued
<1>1. Done(r) \in Record /\ Done(r).status = "completed" /\ ~Done(r).queued
  <2>1. Complete(r, TRUE) \in Record /\ Complete(r, TRUE).status = "completed"
    BY Completes
  <2>. QED
    BY <2>1 DEF Done, Record
<1>2. Raised(r, uncertain) \in Record /\ Raised(r, uncertain).status = "failed"
  BY DEF Raised, Record
<1>3. Scheduled(r) \in Record /\ Scheduled(r).status = "failed"
  BY DEF Scheduled, Record
<1>4. Exhausted(r) \in Record /\ Exhausted(r).status = "failed" /\ ~Exhausted(r).queued
  BY DEF Exhausted, Record
<1>. QED
  BY <1>1, <1>2, <1>3, <1>4

LEMMA Elapses ==
  ASSUME NEW r \in Record
  PROVE  /\ [r EXCEPT !.due = TRUE] \in Record
         /\ [r EXCEPT !.due = TRUE].status = r.status /\ [r EXCEPT !.due = TRUE].queued = r.queued
         /\ [r EXCEPT !.lease = "lapsed"] \in Record
         /\ [r EXCEPT !.lease = "lapsed"].status = r.status
         /\ [r EXCEPT !.lease = "lapsed"].queued = r.queued
  BY DEF Record


LEMMA Runs ==
  ASSUME TypeOK, NEW outcome \in Outcomes, Run(outcome)
  PROVE  landed' \in BOOLEAN /\ late' \in Nat
<1>1. landed \in BOOLEAN /\ late \in Nat
  BY Zenon DEF TypeOK
<1>2. late + 1 \in Nat
  BY <1>1
<1>. QED
  BY <1>1, <1>2 DEF Run

LEMMA Counts ==
  ASSUME TypeOK
  PROVE  told["success"] \in Nat /\ told["exhausted"] \in Nat
<1>1. told \in [Verdicts -> Nat]
  BY Zenon DEF TypeOK
<1>. QED
  BY <1>1 DEF Verdicts

LEMMA Types ==
  TypeOK <=> /\ rec \in Record \union {Gone}
             /\ aged \in BOOLEAN /\ landed \in BOOLEAN /\ pruning \in BOOLEAN
             /\ late \in Nat /\ standing \subseteq Attempts
             /\ caller \in [Callers -> Calls] /\ sweep \in Sweeps
             /\ told \in [Verdicts -> Nat]
  BY Zenon DEF TypeOK, Calls, Sweeps

LEMMA InitHolds == Init => IInv
<1>. SUFFICES ASSUME Init PROVE IInv
  OBVIOUS
<1>1. Idle \in Calls /\ Idle \in Sweeps /\ Idle.pc = "idle"
  BY DEF Idle, Calls, Sweeps
<1>2. \A step \in {"calling", "done"} :
        [Idle EXCEPT !.pc = step] \in Calls /\ [Idle EXCEPT !.pc = step].pc = step
  BY DEF Idle, Calls
<1>3. Saved \in Record /\ Saved.status = "running" /\ ~Saved.queued
  BY BoundAssumption DEF Saved, Record
<1>4. Submitted \in Record /\ Submitted.status = "failed"
  BY <1>3 DEF Submitted, Record
<1>5. PICK step \in {"calling", "done"} :
        /\ caller = [c \in Callers |-> IF c = "dispatch" THEN [Idle EXCEPT !.pc = step] ELSE Idle]
        /\ rec = IF step = "calling" THEN Saved ELSE Submitted
        /\ standing = IF step = "calling" THEN {"dispatch"} ELSE {}
  BY DEF Init
<1>6. caller \in [Callers -> Calls] /\ rec \in Record /\ sweep \in Sweeps
  BY <1>1, <1>2, <1>3, <1>4, <1>5 DEF Init
<1>7. /\ aged = FALSE /\ landed = FALSE /\ pruning = FALSE
      /\ late = 0 /\ told = [v \in Verdicts |-> 0]
  BY Zenon DEF Init
<1>8. TypeOK
  <2>1. standing \subseteq Attempts /\ 0 \in Nat
    BY <1>5 DEF Attempts, Callers
  <2>2. told \in [Verdicts -> Nat]
    BY <1>7, <2>1
  <2>. QED
    BY <1>6, <1>7, <2>1, <2>2, Types, Zenon
<1>9. \A c \in Callers : caller[c].pc = IF c = "dispatch" THEN step ELSE "idle"
  BY <1>1, <1>2, <1>5
<1>10. Original.pc = step
  BY <1>9 DEF Original, Callers
<1>11. sweep.pc = "idle"
  BY <1>1, Zenon DEF Init
<1>12. told["success"] = 0 /\ told["exhausted"] = 0
  BY <1>7 DEF Verdicts
<1>13. CopyInv
  BY <1>9, <1>10, <1>11 DEF CopyInv
<1>14. rec.queued => step = "done"
  BY <1>3, <1>5
<1>15. rec.status # "completed"
  BY <1>3, <1>4, <1>5
<1>16. TakingTurns
  BY <1>5, <1>7, <1>10, <1>11, <1>12, <1>14, <1>15
  DEF TakingTurns, TurnsInv, ReplayInv, StandingInv, VerdictInv, CompletedInv, Closed, Verdicts
<1>. QED
  BY <1>8, <1>13, <1>16 DEF IInv

-----------------------------------------------------------------------------
(* The dispatch and the `retry` calls.                                     *)

LEMMA Moves ==
  ASSUME caller \in [Callers -> Calls], NEW c \in Callers, NEW place \in {"calling", "done"},
         Move(c, place)
  PROVE  /\ caller' \in [Callers -> Calls] /\ caller'[c].pc = place
         /\ \A d \in Callers \ {c} : caller'[d] = caller[d]
<1>. DEFINE there == [Idle EXCEPT !.pc = place]
<1>1. there \in Calls /\ there.pc = place
  BY DEF Idle, Calls
<1>2. caller' = [caller EXCEPT ![c] = there]
  BY DEF Move
<1>. HIDE DEF there
<1>. QED
  BY <1>1, <1>2

LEMMA Goes ==
  ASSUME caller \in [Callers -> Calls], NEW c \in Callers, NEW call \in Calls,
         caller' = [caller EXCEPT ![c] = call]
  PROVE  /\ caller' \in [Callers -> Calls] /\ caller'[c] = call
         /\ \A d \in Callers \ {c} : caller'[d] = caller[d]
  OBVIOUS

\* What every step of a caller leaves alone, and where it leads.
CallerMoved(c) ==
    /\ caller' \in [Callers -> Calls] /\ caller'[c].pc # "idle"
    /\ \A d \in Callers \ {c} : caller'[d] = caller[d]
    /\ UNCHANGED <<aged, sweep, pruning, told>>

\* A caller that has left "idle" is not a retrier nobody has heard of.
LEMMA OnlyTheDispatch ==
  ASSUME NEW c \in Callers, CallerMoved(c), Undisturbed'
  PROVE  c = "dispatch" /\ Undisturbed
  BY DEF CallerMoved, Undisturbed, Callers

LEMMA CallerCopies ==
  ASSUME CopyInv, NEW c \in Callers, CallerMoved(c), c = "dispatch" => caller'[c].pc # "claiming",
         caller'[c].pc = "claiming" => caller'[c].copy # Gone
  PROVE  CopyInv'
<1>. USE DEF CopyInv, CallerMoved, Original, Callers
<1>1. (\A d \in Callers : caller[d].pc = "claiming" => caller[d].copy # Gone)'
  OBVIOUS
<1>2. (sweep.pc \in {"claiming", "retiring", "replaying", "reporting", "failed"} =>
          sweep.copy # Gone)'
  OBVIOUS
<1>3. (Original.pc \notin {"idle", "claiming"})'
  OBVIOUS
<1>. QED
  BY <1>1, <1>2, <1>3

LEMMA Loads ==
  ASSUME IInv, NEW c \in Callers, RetryLoad(c)
  PROVE  IInv'
<1>1. caller \in [Callers -> Calls] /\ rec \in Record \union {Gone} /\ CopyInv /\ TypeOK
  BY Types DEF IInv
<1>2. UNCHANGED <<rec, aged, landed, late, standing, sweep, pruning, told>> /\ caller[c].pc = "idle"
  BY Zenon DEF RetryLoad
<1>3. c # "dispatch"
  BY <1>1, <1>2 DEF CopyInv, Original
<1>4. /\ CallerMoved(c)
      /\ caller'[c].pc = "claiming" => caller'[c].copy # Gone
  <2>1. CASE Move(c, "done")
    BY <1>1, <1>2, <2>1, Moves DEF CallerMoved
  <2>2. CASE rec # Gone /\ caller' = [caller EXCEPT ![c].pc = "claiming", ![c].copy = rec]
    <3>. DEFINE call == [caller[c] EXCEPT !.pc = "claiming", !.copy = rec]
    <3>1. call \in Calls /\ call.pc = "claiming" /\ call.copy = rec
      BY <1>1 DEF Calls
    <3>2. caller' = [caller EXCEPT ![c] = call]
      BY <1>1, <2>2
    <3>. HIDE DEF call
    <3>. QED
      BY <1>1, <1>2, <2>2, <3>1, <3>2, Goes DEF CallerMoved
  <2>. QED
    BY <2>1, <2>2, Zenon DEF RetryLoad
<1>5. CopyInv'
  BY <1>1, <1>3, <1>4, CallerCopies
<1>6. ~Undisturbed'
  BY <1>3, <1>4, OnlyTheDispatch
<1>7. TypeOK'
  BY <1>1, <1>2, <1>4, Zenon DEF TypeOK, Calls, Sweeps, CallerMoved
<1>. QED
  BY <1>5, <1>6, <1>7 DEF IInv

LEMMA RetryClaims ==
  ASSUME IInv, NEW c \in Callers, RetryClaim(c)
  PROVE  IInv'
<1>1. caller \in [Callers -> Calls] /\ CopyInv /\ TypeOK
  BY Types DEF IInv
<1>2. /\ UNCHANGED <<aged, landed, late, sweep, pruning, told>>
      /\ caller[c].pc = "claiming" /\ rec' = Claim(caller[c].copy) /\ Move(c, "calling")
      /\ standing' = standing \union {c}
  BY Zenon DEF RetryClaim
<1>3. c # "dispatch"
  BY <1>1, <1>2 DEF CopyInv, Original
<1>4. CallerMoved(c) /\ caller'[c].pc = "calling"
  BY <1>1, <1>2, Moves DEF CallerMoved
<1>5. rec' \in Record
  <2>1. caller[c].copy \in Record
    BY <1>1, <1>2 DEF CopyInv, Calls
  <2>. QED
    BY <1>2, <2>1, Claims
<1>6. CopyInv'
  BY <1>1, <1>4, CallerCopies
<1>7. ~Undisturbed'
  BY <1>3, <1>4, OnlyTheDispatch
<1>8. standing' \subseteq Attempts
  BY <1>1, <1>2 DEF TypeOK, Attempts
<1>9. TypeOK'
  BY <1>1, <1>2, <1>4, <1>5, <1>8, Zenon DEF TypeOK, Calls, Sweeps, CallerMoved
<1>. QED
  BY <1>6, <1>7, <1>9 DEF IInv

\* While the dispatch is under way nothing else happens to its record.
LEMMA DispatchAlone ==
  ASSUME TypeOK, TakingTurns, Original.pc # "done"
  PROVE  /\ sweep.pc = "idle" /\ told["success"] = 0 /\ told["exhausted"] = 0
         /\ rec # Gone => ~rec.queued /\ rec.status # "completed"
<1>1. sweep.pc = "idle" /\ (rec # Gone => ~rec.queued)
  BY DEF TakingTurns, TurnsInv
<1>2. told["success"] + told["exhausted"] <= 0
  BY Counts DEF TakingTurns, VerdictInv
<1>3. told["success"] = 0 /\ told["exhausted"] = 0
  BY <1>2, Counts
<1>4. rec # Gone => rec.status # "completed"
  BY DEF TakingTurns, CompletedInv
<1>. QED
  BY <1>1, <1>3, <1>4

LEMMA CallsSkill ==
  ASSUME IInv, NEW c \in Callers, NEW outcome \in Outcomes, CallSkill(c, outcome)
  PROVE  IInv'
<1>1. caller \in [Callers -> Calls] /\ CopyInv /\ TypeOK
  BY Types DEF IInv
<1>2. /\ UNCHANGED <<rec, aged, standing, sweep, pruning, told>>
      /\ caller[c].pc = "calling" /\ Run(outcome)
      /\ caller' = [caller EXCEPT ![c].pc = "reporting", ![c].outcome = outcome]
  BY Zenon DEF CallSkill
<1>3. /\ CallerMoved(c) /\ caller'[c].pc = "reporting" /\ caller'[c].outcome = outcome
  <2>. DEFINE call == [caller[c] EXCEPT !.pc = "reporting", !.outcome = outcome]
  <2>1. call \in Calls /\ call.pc = "reporting" /\ call.outcome = outcome
    BY <1>1 DEF Calls
  <2>2. caller' = [caller EXCEPT ![c] = call]
    BY <1>1, <1>2
  <2>. HIDE DEF call
  <2>. QED
    BY <1>1, <1>2, <2>1, <2>2, Goes DEF CallerMoved
<1>4. CopyInv'
  BY <1>1, <1>3, CallerCopies
<1>5. landed' \in BOOLEAN /\ late' \in Nat
  BY <1>1, <1>2, Runs
<1>6. TypeOK'
  BY <1>1, <1>2, <1>3, <1>5, Zenon DEF TypeOK, Calls, Sweeps, CallerMoved
<1>7. Undisturbed' => TakingTurns'
  <2>. SUFFICES ASSUME Undisturbed' PROVE TakingTurns'
    OBVIOUS
  <2>1. c = "dispatch" /\ TakingTurns
    BY <1>3, OnlyTheDispatch DEF IInv
  <2>2. Original.pc = "calling" /\ Original'.pc = "reporting" /\ Original'.outcome = outcome
    BY <1>2, <1>3, <2>1 DEF Original
  <2>3. /\ sweep.pc = "idle" /\ told["success"] = 0 /\ told["exhausted"] = 0
        /\ rec # Gone => ~rec.queued /\ rec.status # "completed"
    BY <1>1, <2>1, <2>2, DispatchAlone
  <2>4. StandingInv'
    BY <1>2, <2>1, <2>2, <2>3 DEF TakingTurns, StandingInv, Closed
  <2>. QED
    BY <1>2, <2>2, <2>3, <2>4
    DEF TakingTurns, TurnsInv, ReplayInv, VerdictInv, CompletedInv, Verdicts
<1>. QED
  BY <1>4, <1>6, <1>7 DEF IInv

LEMMA Reports ==
  ASSUME IInv, NEW c \in Callers, Report(c)
  PROVE  IInv'
<1>1. caller \in [Callers -> Calls] /\ CopyInv /\ TypeOK /\ rec \in Record \union {Gone}
  BY Types DEF IInv
<1>. DEFINE outcome == caller[c].outcome
<1>2. PICK ok \in BOOLEAN :
         /\ outcome # "uncertain" => (ok <=> outcome = "ok")
         /\ rec' = IF rec = Gone THEN Gone ELSE Complete(rec, ok)
         /\ standing' = IF ok \/ rec = Gone THEN standing ELSE standing \ {c}
         /\ \/ ~ok /\ caller' = [caller EXCEPT ![c].pc = "enqueueing"]
            \/ Move(c, "done")
  BY DEF Report
<1>3. UNCHANGED <<aged, landed, late, sweep, pruning, told>> /\ caller[c].pc = "reporting"
  BY Zenon DEF Report
<1>4. /\ CallerMoved(c)
      /\ caller'[c].pc = "done" \/ (caller'[c].pc = "enqueueing" /\ ~ok)
  <2>1. CASE Move(c, "done")
    BY <1>1, <1>3, <2>1, Moves DEF CallerMoved
  <2>2. CASE ~ok /\ caller' = [caller EXCEPT ![c].pc = "enqueueing"]
    <3>. DEFINE call == [caller[c] EXCEPT !.pc = "enqueueing"]
    <3>1. call \in Calls /\ call.pc = "enqueueing"
      BY <1>1 DEF Calls
    <3>2. caller' = [caller EXCEPT ![c] = call]
      BY <1>1, <2>2
    <3>. HIDE DEF call
    <3>. QED
      BY <1>1, <1>3, <2>2, <3>1, <3>2, Goes DEF CallerMoved
  <2>. QED
    BY <1>2, <2>1, <2>2
<1>5. CopyInv'
  BY <1>1, <1>4, CallerCopies
<1>6. /\ rec' \in Record \union {Gone}
      /\ rec' # Gone => /\ rec # Gone /\ rec'.queued = rec.queued
                        /\ rec'.status = "completed" => ok
  <2>1. CASE rec = Gone
    BY <1>2, <2>1
  <2>2. CASE rec # Gone
    <3>1. rec' = Complete(rec, ok) /\ rec \in Record
      BY <1>1, <1>2, <2>2
    <3>. QED
      BY <2>2, <3>1, Completes
  <2>. QED
    BY <2>1, <2>2
<1>7. TypeOK'
  <2>1. standing' \subseteq Attempts
    BY <1>1, <1>2 DEF TypeOK
  <2>. QED
    BY <1>1, <1>3, <1>4, <1>6, <2>1, Zenon DEF TypeOK, Calls, Sweeps, CallerMoved
<1>8. Undisturbed' => TakingTurns'
  <2>. SUFFICES ASSUME Undisturbed' PROVE TakingTurns'
    OBVIOUS
  <2>1. c = "dispatch" /\ TakingTurns
    BY <1>4, OnlyTheDispatch DEF IInv
  <2>2. Original.pc = "reporting" /\ Original.outcome = outcome
        /\ (Original'.pc = "done" \/ ~ok)
    BY <1>3, <1>4, <2>1 DEF Original
  <2>3. /\ sweep.pc = "idle" /\ told["success"] = 0 /\ told["exhausted"] = 0
        /\ rec # Gone => ~rec.queued
    BY <1>1, <2>1, <2>2, DispatchAlone
  <2>4. rec' # Gone => ~rec'.queued /\ (rec'.status = "completed" => Original'.pc = "done")
    BY <1>6, <2>2, <2>3
  <2>5. StandingInv'
    <3>1. standing \subseteq {"dispatch"}
      BY <2>1, <2>2 DEF TakingTurns, StandingInv
    <3>2. Original'.pc = "enqueueing" /\ rec' # Gone => standing' = {}
      BY <1>2, <1>6, <2>1, <2>2, <3>1
    <3>3. Original'.pc \notin {"calling", "reporting"}
      BY <1>1, <1>3, <1>4, <2>1 DEF Original
    <3>. QED
      BY <1>3, <2>3, <2>4, <3>2, <3>3 DEF StandingInv, Closed
  <2>. QED
    BY <1>3, <2>3, <2>4, <2>5
    DEF TakingTurns, TurnsInv, ReplayInv, VerdictInv, CompletedInv, Verdicts
<1>. QED
  BY <1>5, <1>7, <1>8 DEF IInv

LEMMA EnqueuesRecord ==
  ASSUME IInv, NEW c \in Callers, EnqueueForRetry(c)
  PROVE  IInv'
<1>1. caller \in [Callers -> Calls] /\ CopyInv /\ TypeOK /\ rec \in Record \union {Gone}
  BY Types DEF IInv
<1>. DEFINE uncertain == (caller[c].outcome = "uncertain")
<1>2. /\ UNCHANGED <<aged, landed, late, standing, sweep, pruning, told>>
      /\ caller[c].pc = "enqueueing" /\ Move(c, "done")
      /\ rec' = IF rec = Gone THEN Gone ELSE Enqueue(rec, uncertain)
  BY Zenon DEF EnqueueForRetry
<1>3. CallerMoved(c) /\ caller'[c].pc = "done"
  BY <1>1, <1>2, Moves DEF CallerMoved
<1>4. CopyInv'
  BY <1>1, <1>3, CallerCopies
<1>5. rec' \in Record \union {Gone} /\ (rec' # Gone => rec'.status = "failed")
  <2>1. CASE rec = Gone
    BY <1>2, <2>1
  <2>2. CASE rec # Gone
    <3>1. rec' = Enqueue(rec, uncertain) /\ rec \in Record /\ uncertain \in BOOLEAN
      BY <1>1, <1>2, <2>2
    <3>. HIDE DEF uncertain
    <3>. QED
      BY <3>1, Enqueues
  <2>. QED
    BY <2>1, <2>2
<1>6. TypeOK'
  BY <1>1, <1>2, <1>3, <1>5, Zenon DEF TypeOK, Calls, Sweeps, CallerMoved
<1>7. Undisturbed' => TakingTurns'
  <2>. SUFFICES ASSUME Undisturbed' PROVE TakingTurns'
    OBVIOUS
  <2>1. c = "dispatch" /\ TakingTurns
    BY <1>3, OnlyTheDispatch DEF IInv
  <2>2. Original.pc = "enqueueing" /\ Original'.pc = "done"
    BY <1>2, <1>3, <2>1 DEF Original
  <2>3. sweep.pc = "idle" /\ told["success"] = 0 /\ told["exhausted"] = 0
    BY <1>1, <2>1, <2>2, DispatchAlone
  <2>4. rec # Gone => standing = {}
    BY <2>1, <2>2 DEF TakingTurns, StandingInv
  <2>. QED
    BY <1>2, <1>5, <2>2, <2>3, <2>4
    DEF TakingTurns, TurnsInv, ReplayInv, StandingInv, VerdictInv, CompletedInv, Closed, Verdicts
<1>. QED
  BY <1>4, <1>6, <1>7 DEF IInv

LEMMA CallerDying ==
  ASSUME IInv, NEW c \in Callers, CallerDies(c)
  PROVE  IInv'
<1>1. caller \in [Callers -> Calls] /\ CopyInv /\ TypeOK
  BY Types DEF IInv
<1>2. /\ UNCHANGED <<rec, aged, landed, late, standing, sweep, pruning, told>>
      /\ caller[c].pc # "done" /\ Move(c, "done")
  BY Zenon DEF CallerDies
<1>3. CallerMoved(c) /\ caller'[c].pc = "done"
  BY <1>1, <1>2, Moves DEF CallerMoved
<1>4. CopyInv'
  BY <1>1, <1>3, CallerCopies
<1>5. TypeOK'
  BY <1>1, <1>2, <1>3, Zenon DEF TypeOK, Calls, Sweeps, CallerMoved
<1>6. Undisturbed' => TakingTurns'
  <2>. SUFFICES ASSUME Undisturbed' PROVE TakingTurns'
    OBVIOUS
  <2>1. c = "dispatch" /\ TakingTurns
    BY <1>3, OnlyTheDispatch DEF IInv
  <2>2. Original.pc # "done" /\ Original'.pc = "done"
    BY <1>2, <1>3, <2>1 DEF Original
  <2>3. /\ sweep.pc = "idle" /\ told["success"] = 0 /\ told["exhausted"] = 0
        /\ rec # Gone => ~rec.queued /\ rec.status # "completed"
    BY <1>1, <2>1, <2>2, DispatchAlone
  <2>. QED
    BY <1>2, <2>2, <2>3
    DEF TakingTurns, TurnsInv, ReplayInv, StandingInv, VerdictInv, CompletedInv, Closed, Verdicts
<1>. QED
  BY <1>4, <1>5, <1>6 DEF IInv

LEMMA CallerStep ==
  ASSUME IInv, NEW c \in Callers, CallerNext(c)
  PROVE  IInv'
<1>1. CASE RetryLoad(c)
  BY <1>1, Loads
<1>2. CASE RetryClaim(c)
  BY <1>2, RetryClaims
<1>3. CASE \E outcome \in Outcomes : CallSkill(c, outcome)
  BY <1>3, CallsSkill
<1>4. CASE Report(c)
  BY <1>4, Reports
<1>5. CASE EnqueueForRetry(c)
  BY <1>5, EnqueuesRecord
<1>6. CASE CallerDies(c)
  BY <1>6, CallerDying
<1>. QED
  BY <1>1, <1>2, <1>3, <1>4, <1>5, <1>6, Zenon DEF CallerNext

-----------------------------------------------------------------------------
(* The sweep.                                                              *)

Holding == {"claiming", "retiring", "replaying", "reporting", "failed"}

LEMMA Places ==
  ASSUME NEW r \in Record, NEW step \in Holding
  PROVE  /\ [Idle EXCEPT !.pc = step, !.copy = r] \in Sweeps
         /\ [Idle EXCEPT !.pc = step, !.copy = r].pc = step
         /\ [Idle EXCEPT !.pc = step, !.copy = r].copy = r
  BY DEF Idle, Sweeps, Holding

LEMMA Ends ==
  /\ Idle \in Sweeps /\ Idle.pc = "idle"
  /\ \A v \in Verdicts : [Idle EXCEPT !.pc = v] \in Sweeps /\ [Idle EXCEPT !.pc = v].pc = v
  BY DEF Idle, Sweeps, Verdicts

\* A step of the sweep that leaves the callers alone preserves the invariant if
\* what it writes is well formed and the turns are kept.
LEMMA SweepKeeps ==
  ASSUME IInv, UNCHANGED <<aged, caller, pruning>>,
         rec' \in Record \union {Gone}, sweep' \in Sweeps,
         sweep'.pc \in Holding => sweep'.copy # Gone,
         landed' \in BOOLEAN, late' \in Nat, standing' \subseteq Attempts,
         told' \in [Verdicts -> Nat],
         TakingTurns => TakingTurns'
  PROVE  IInv'
<1>1. TypeOK'
  BY Types, Zenon DEF IInv, TypeOK, Calls, Sweeps
<1>2. CopyInv'
  BY DEF IInv, CopyInv, Original, Holding
<1>3. Undisturbed' => Undisturbed
  BY DEF Undisturbed
<1>. QED
  BY <1>1, <1>2, <1>3 DEF IInv

\* While the sweep is at work nothing has been announced, and no attempt stands
\* but its own.
LEMMA SweepAlone ==
  ASSUME TypeOK, TakingTurns, sweep.pc \in {"claiming", "replaying", "reporting", "failed"}
  PROVE  /\ Original.pc = "done"
         /\ told["success"] = 0 /\ told["exhausted"] = 0
         /\ rec # Gone => rec.status # "completed"
         /\ sweep.pc = "claiming" => standing = {}
         /\ sweep.pc # "claiming" => standing \subseteq {"sweep"}
<1>1. Original.pc = "done"
  BY DEF TakingTurns, TurnsInv
<1>2. ~(told["success"] + told["exhausted"] > 0)
  BY DEF TakingTurns, VerdictInv
<1>3. told["success"] = 0 /\ told["exhausted"] = 0
  BY <1>2, Counts
<1>4. rec # Gone => rec.status # "completed"
  BY DEF TakingTurns, CompletedInv
<1>5. /\ sweep.pc = "claiming" => standing = {}
      /\ sweep.pc # "claiming" => standing \subseteq {"sweep"}
  BY DEF TakingTurns, StandingInv
<1>. QED
  BY <1>1, <1>3, <1>4, <1>5

LEMMA Reads ==
  ASSUME IInv, SweepRead
  PROVE  IInv'
<1>1. TypeOK /\ rec \in Record \union {Gone}
  BY Types DEF IInv
<1>2. /\ sweep.pc = "idle"
      /\ UNCHANGED <<rec, aged, landed, late, standing, caller, pruning, told>>
  BY Zenon DEF SweepRead
<1>3. /\ rec # Gone /\ rec.queued /\ sweep'.pc \in Holding
      /\ sweep' \in Sweeps /\ sweep'.copy = rec
      /\ sweep'.pc = "retiring" \/ (sweep'.pc = "claiming" /\ rec.status = "failed")
  <2>1. CASE Expired(rec) /\ sweep' = [Idle EXCEPT !.pc = "retiring", !.copy = rec]
    <3>1. rec # Gone /\ rec.queued
      BY <2>1 DEF Expired
    <3>2. rec \in Record /\ "retiring" \in Holding
      BY <1>1, <3>1 DEF Holding
    <3>3. sweep' = [Idle EXCEPT !.pc = "retiring", !.copy = rec]
      BY <2>1
    <3>4. sweep' \in Sweeps /\ sweep'.pc = "retiring" /\ sweep'.copy = rec
      BY <3>2, <3>3, Places
    <3>. QED
      BY <3>1, <3>2, <3>4
  <2>2. CASE Ready(rec) /\ sweep' = [Idle EXCEPT !.pc = "claiming", !.copy = rec]
    <3>1. rec # Gone /\ rec.queued /\ rec.status = "failed"
      BY <2>2 DEF Ready
    <3>2. rec \in Record /\ "claiming" \in Holding
      BY <1>1, <3>1 DEF Holding
    <3>3. sweep' = [Idle EXCEPT !.pc = "claiming", !.copy = rec]
      BY <2>2
    <3>4. sweep' \in Sweeps /\ sweep'.pc = "claiming" /\ sweep'.copy = rec
      BY <3>2, <3>3, Places
    <3>. QED
      BY <3>1, <3>2, <3>4
  <2>. QED
    BY <2>1, <2>2, Zenon DEF SweepRead
<1>4. TakingTurns => TakingTurns'
  <2>. SUFFICES ASSUME TakingTurns PROVE TakingTurns'
    OBVIOUS
  <2>1. Original.pc = "done" /\ rec.status # "completed"
    BY <1>3 DEF TakingTurns, TurnsInv, CompletedInv
  <2>2. ~(told["exhausted"] > 0)
    BY <1>3 DEF TakingTurns, VerdictInv
  <2>3. Original' = Original
    BY <1>2 DEF Original
  <2>4. CASE sweep'.pc = "retiring"
    <3>1. StandingInv'
      BY <1>2, <2>1, <2>3, <2>4 DEF TakingTurns, StandingInv, Closed
    <3>2. VerdictInv'
      BY <1>2, <1>3, <2>1, <2>2, <2>3, <2>4 DEF TakingTurns, VerdictInv, Closed, Verdicts
    <3>. QED
      BY <1>2, <2>1, <2>3, <2>4, <3>1, <3>2
      DEF TakingTurns, TurnsInv, ReplayInv, CompletedInv
  <2>5. CASE sweep'.pc = "claiming" /\ rec.status = "failed"
    <3>1. ~Closed
      BY <1>3, <2>5 DEF Closed
    <3>2. /\ standing = {}
          /\ told["success"] + told["exhausted"] <= 1
          /\ ~(told["success"] + told["exhausted"] > 0)
      BY <3>1 DEF TakingTurns, StandingInv, VerdictInv
    <3>. QED
      BY <1>2, <2>1, <2>2, <2>3, <2>5, <3>2
      DEF TakingTurns, TurnsInv, ReplayInv, StandingInv, VerdictInv, CompletedInv, Verdicts
  <2>. QED
    BY <1>3, <2>4, <2>5
<1>. QED
  BY <1>1, <1>2, <1>3, <1>4, SweepKeeps, Types

\* The sweep ends idle, with a record that is no longer ready for it.
LEMMA SweepRetires ==
  ASSUME IInv, SweepRetire
  PROVE  IInv'
<1>1. TypeOK /\ sweep \in Sweeps /\ CopyInv
  BY Types DEF IInv
<1>2. /\ sweep.pc = "retiring" /\ rec' = Retire(sweep.copy) /\ sweep' = Idle
      /\ UNCHANGED <<aged, landed, late, standing, caller, pruning, told>>
  BY Zenon DEF SweepRetire
<1>3. sweep.copy \in Record
  BY <1>1, <1>2 DEF CopyInv, Sweeps
<1>4. rec' \in Record /\ rec'.status = "failed" /\ ~rec'.queued
  BY <1>2, <1>3, Retires
<1>5. TakingTurns => TakingTurns'
  <2>. SUFFICES ASSUME TakingTurns PROVE TakingTurns'
    OBVIOUS
  <2>1. Original.pc = "done" /\ Original' = Original /\ sweep'.pc = "idle"
    BY <1>2, Ends DEF TakingTurns, TurnsInv, Original
  <2>2. told["success"] + told["exhausted"] <= 1
    BY DEF TakingTurns, VerdictInv
  <2>. QED
    BY <1>2, <1>4, <2>1, <2>2
    DEF TakingTurns, TurnsInv, ReplayInv, StandingInv, VerdictInv, CompletedInv, Closed, Verdicts
<1>. QED
  BY <1>1, <1>2, <1>4, <1>5, SweepKeeps, Types, Ends DEF Holding

LEMMA SweepClaims ==
  ASSUME IInv, SweepClaim
  PROVE  IInv'
<1>1. TypeOK /\ sweep \in Sweeps /\ CopyInv
  BY Types DEF IInv
<1>2. /\ sweep.pc = "claiming" /\ rec' = Claim(sweep.copy)
      /\ sweep' = [sweep EXCEPT !.pc = "replaying", !.copy = Claim(sweep.copy)]
      /\ standing' = standing \union {"sweep"}
      /\ UNCHANGED <<aged, landed, late, caller, pruning, told>>
  BY Zenon DEF SweepClaim
<1>3. sweep.copy \in Record
  BY <1>1, <1>2 DEF CopyInv, Sweeps
<1>4. rec' \in Record /\ rec'.status = "running"
  BY <1>2, <1>3, Claims
<1>5. sweep' \in Sweeps /\ sweep'.pc = "replaying" /\ sweep'.copy = rec'
  BY <1>1, <1>2, <1>4 DEF Sweeps
<1>6. TakingTurns => TakingTurns'
  <2>. SUFFICES ASSUME TakingTurns PROVE TakingTurns'
    OBVIOUS
  <2>1. Original' = Original
    BY <1>2 DEF Original
  <2>2. /\ Original.pc = "done" /\ told["success"] = 0 /\ told["exhausted"] = 0
        /\ standing = {}
    BY <1>1, <1>2, SweepAlone
  <2>. QED
    BY <1>2, <1>4, <1>5, <2>1, <2>2
    DEF TakingTurns, TurnsInv, ReplayInv, StandingInv, VerdictInv, CompletedInv, Closed, Verdicts
<1>7. rec' # Gone
  BY <1>4, GoneIsNoRecord
<1>8. standing' \subseteq Attempts
  BY <1>1, <1>2, Zenon DEF TypeOK, Attempts
<1>. QED
  BY <1>1, <1>2, <1>4, <1>5, <1>6, <1>7, <1>8, SweepKeeps, Types

LEMMA Suppresses ==
  ASSUME IInv, SweepSuppress
  PROVE  IInv'
<1>1. TypeOK /\ sweep \in Sweeps /\ CopyInv
  BY Types DEF IInv
<1>2. /\ sweep.pc = "replaying" /\ rec' = Cancel(sweep.copy) /\ sweep' = Idle
      /\ UNCHANGED <<aged, landed, late, standing, caller, pruning, told>>
  BY Zenon DEF SweepSuppress
<1>3. sweep.copy \in Record
  BY <1>1, <1>2 DEF CopyInv, Sweeps
<1>4. rec' \in Record /\ rec'.status = "cancelled" /\ ~rec'.queued
  BY <1>2, <1>3, Retires
<1>5. TakingTurns => TakingTurns'
  <2>. SUFFICES ASSUME TakingTurns PROVE TakingTurns'
    OBVIOUS
  <2>1. Original' = Original /\ sweep'.pc = "idle"
    BY <1>2, Ends DEF Original
  <2>2. /\ Original.pc = "done" /\ told["success"] = 0 /\ told["exhausted"] = 0
    BY <1>1, <1>2, SweepAlone
  <2>. QED
    BY <1>2, <1>4, <2>1, <2>2
    DEF TakingTurns, TurnsInv, ReplayInv, StandingInv, VerdictInv, CompletedInv, Closed, Verdicts
<1>. QED
  BY <1>1, <1>2, <1>4, <1>5, SweepKeeps, Types, Ends DEF Holding

LEMMA Refuses ==
  ASSUME IInv, SweepRefuse
  PROVE  IInv'
<1>1. TypeOK /\ sweep \in Sweeps /\ CopyInv
  BY Types DEF IInv
<1>2. /\ sweep.pc = "replaying"
      /\ UNCHANGED <<rec, aged, landed, late, standing, caller, pruning, told>>
  BY Zenon DEF SweepRefuse
<1>3. sweep.copy \in Record
  BY <1>1, <1>2 DEF CopyInv, Sweeps
<1>4. PICK kept \in BOOLEAN : sweep' = [sweep EXCEPT !.pc = "failed", !.copy.carrier = kept]
  BY <1>3 DEF SweepRefuse, Record
<1>5. sweep' \in Sweeps /\ sweep'.pc = "failed" /\ sweep'.copy # Gone
  <2>. DEFINE copy == [sweep.copy EXCEPT !.carrier = kept]
  <2>1. copy \in Record
    BY <1>3 DEF Record
  <2>2. sweep' = [sweep EXCEPT !.pc = "failed", !.copy = copy]
    BY <1>1, <1>4 DEF Sweeps
  <2>. HIDE DEF copy
  <2>3. sweep' \in Sweeps /\ sweep'.pc = "failed" /\ sweep'.copy = copy
    BY <1>1, <2>1, <2>2 DEF Sweeps
  <2>. QED
    BY <2>1, <2>3, GoneIsNoRecord
<1>6. TakingTurns => TakingTurns'
  <2>. SUFFICES ASSUME TakingTurns PROVE TakingTurns'
    OBVIOUS
  <2>1. Original' = Original
    BY <1>2 DEF Original
  <2>2. /\ Original.pc = "done" /\ told["success"] = 0 /\ told["exhausted"] = 0
        /\ rec # Gone => rec.status # "completed"
        /\ standing \subseteq {"sweep"}
    BY <1>1, <1>2, SweepAlone
  <2>3. Closed
    BY <1>2 DEF TakingTurns, ReplayInv, Closed
  <2>. QED
    BY <1>2, <1>5, <2>1, <2>2, <2>3
    DEF TakingTurns, TurnsInv, ReplayInv, StandingInv, VerdictInv, CompletedInv, Closed, Verdicts
<1>. QED
  BY <1>1, <1>2, <1>5, <1>6, SweepKeeps, Types

LEMMA PreVerifies ==
  ASSUME IInv, SweepPreVerify
  PROVE  IInv'
<1>1. TypeOK
  BY DEF IInv
<1>2. /\ sweep.pc = "replaying" /\ sweep' = [Idle EXCEPT !.pc = "success"]
      /\ UNCHANGED <<rec, aged, landed, late, standing, caller, pruning, told>>
  BY Zenon DEF SweepPreVerify
<1>3. sweep' \in Sweeps /\ sweep'.pc = "success"
  BY <1>2, Ends DEF Verdicts
<1>4. TakingTurns => TakingTurns'
  <2>. SUFFICES ASSUME TakingTurns PROVE TakingTurns'
    OBVIOUS
  <2>1. Original' = Original
    BY <1>2 DEF Original
  <2>2. /\ Original.pc = "done" /\ told["success"] = 0 /\ told["exhausted"] = 0
    BY <1>1, <1>2, SweepAlone
  <2>3. rec # Gone => rec.status = "running"
    BY <1>2 DEF TakingTurns, ReplayInv
  <2>. QED
    BY <1>2, <1>3, <2>1, <2>2, <2>3
    DEF TakingTurns, TurnsInv, ReplayInv, StandingInv, VerdictInv, CompletedInv, Closed, Verdicts
<1>. QED
  BY <1>1, <1>2, <1>3, <1>4, SweepKeeps, Types DEF Holding

LEMMA SweepCalls ==
  ASSUME IInv, NEW outcome \in Outcomes, SweepCall(outcome)
  PROVE  IInv'
<1>1. TypeOK /\ sweep \in Sweeps /\ CopyInv
  BY Types DEF IInv
<1>2. /\ sweep.pc = "replaying" /\ Run(outcome)
      /\ sweep' = [sweep EXCEPT !.pc = "reporting", !.outcome = outcome,
                                !.copy.carrier = FALSE]
      /\ UNCHANGED <<rec, aged, standing, caller, pruning, told>>
  BY Zenon DEF SweepCall
<1>3. sweep.copy \in Record
  BY <1>1, <1>2 DEF CopyInv, Sweeps
<1>4. /\ sweep' \in Sweeps /\ sweep'.pc = "reporting" /\ sweep'.outcome = outcome
      /\ sweep'.copy # Gone
  <2>. DEFINE copy == [sweep.copy EXCEPT !.carrier = FALSE]
  <2>1. copy \in Record
    BY <1>3 DEF Record
  <2>2. sweep' = [sweep EXCEPT !.pc = "reporting", !.outcome = outcome, !.copy = copy]
    BY <1>1, <1>2 DEF Sweeps
  <2>. HIDE DEF copy
  <2>3. sweep' \in Sweeps /\ sweep'.pc = "reporting" /\ sweep'.outcome = outcome
        /\ sweep'.copy = copy
    BY <1>1, <2>1, <2>2 DEF Sweeps
  <2>. QED
    BY <2>1, <2>3, GoneIsNoRecord
<1>5. landed' \in BOOLEAN /\ late' \in Nat
  BY <1>1, <1>2, Runs
<1>6. TakingTurns => TakingTurns'
  <2>. SUFFICES ASSUME TakingTurns PROVE TakingTurns'
    OBVIOUS
  <2>1. Original' = Original
    BY <1>2 DEF Original
  <2>2. /\ Original.pc = "done" /\ told["success"] = 0 /\ told["exhausted"] = 0
        /\ standing \subseteq {"sweep"}
    BY <1>1, <1>2, SweepAlone
  <2>3. rec # Gone => rec.status = "running"
    BY <1>2 DEF TakingTurns, ReplayInv
  <2>. QED
    BY <1>2, <1>4, <2>1, <2>2, <2>3
    DEF TakingTurns, TurnsInv, ReplayInv, StandingInv, VerdictInv, CompletedInv, Closed, Verdicts
<1>. QED
  BY <1>1, <1>2, <1>4, <1>5, <1>6, SweepKeeps, Types

LEMMA SweepReports ==
  ASSUME IInv, SweepReport
  PROVE  IInv'
<1>1. TypeOK /\ sweep \in Sweeps /\ CopyInv /\ rec \in Record \union {Gone}
  BY Types DEF IInv
<1>. DEFINE uncertain == (sweep.outcome = "uncertain")
<1>2. /\ sweep.pc = "reporting"
      /\ UNCHANGED <<aged, landed, late, caller, pruning, told>>
  BY Zenon DEF SweepReport
<1>3. sweep.copy \in Record /\ sweep.copy # Gone
  BY <1>1, <1>2 DEF CopyInv, Sweeps
<1>4. \/ /\ standing' = standing /\ rec' = Done(sweep.copy)
         /\ sweep' = [Idle EXCEPT !.pc = "success"]
      \/ /\ standing' = standing \ {"sweep"} /\ rec' = Raised(sweep.copy, uncertain)
         /\ sweep' = [Idle EXCEPT !.pc = "failed", !.copy = Raised(sweep.copy, uncertain)]
      \/ /\ standing' = standing /\ rec' = rec
         /\ sweep' = [sweep EXCEPT !.pc = "failed", !.outcome = "none"]
  BY DEF SweepReport, Done, Raised
<1>5. uncertain \in BOOLEAN
  OBVIOUS
<1>. HIDE DEF uncertain
<1>6. \/ /\ standing' = standing
         /\ rec' \in Record /\ rec'.status = "completed" /\ ~rec'.queued
         /\ sweep' \in Sweeps /\ sweep'.pc = "success"
      \/ /\ standing' = standing \ {"sweep"} /\ rec' \in Record /\ rec'.status = "failed"
         /\ sweep' \in Sweeps /\ sweep'.pc = "failed" /\ sweep'.copy # Gone
      \/ /\ standing' = standing /\ rec' = rec
         /\ sweep' \in Sweeps /\ sweep'.pc = "failed" /\ sweep'.copy # Gone
  <2>1. CASE /\ standing' = standing /\ rec' = Done(sweep.copy)
             /\ sweep' = [Idle EXCEPT !.pc = "success"]
    <3>1. "success" \in Verdicts
      BY DEF Verdicts
    <3>. QED
      BY <1>3, <1>5, <2>1, <3>1, WritesBack, Ends
  <2>2. CASE /\ standing' = standing \ {"sweep"} /\ rec' = Raised(sweep.copy, uncertain)
             /\ sweep' = [Idle EXCEPT !.pc = "failed", !.copy = Raised(sweep.copy, uncertain)]
    <3>1. rec' \in Record /\ rec'.status = "failed"
      BY <1>3, <1>5, <2>2, WritesBack
    <3>2. sweep' = [Idle EXCEPT !.pc = "failed", !.copy = rec'] /\ "failed" \in Holding
      BY <2>2 DEF Holding
    <3>3. sweep' \in Sweeps /\ sweep'.pc = "failed" /\ sweep'.copy = rec'
      BY <3>1, <3>2, Places
    <3>. QED
      BY <2>2, <3>1, <3>3, GoneIsNoRecord
  <2>3. CASE /\ standing' = standing /\ rec' = rec
             /\ sweep' = [sweep EXCEPT !.pc = "failed", !.outcome = "none"]
    <3>1. sweep' \in Sweeps /\ sweep'.pc = "failed" /\ sweep'.copy = sweep.copy
      BY <1>1, <2>3 DEF Sweeps
    <3>. QED
      BY <1>3, <2>3, <3>1
  <2>. QED
    BY <1>4, <2>1, <2>2, <2>3, Zenon
<1>7. TakingTurns => TakingTurns'
  <2>. SUFFICES ASSUME TakingTurns PROVE TakingTurns'
    OBVIOUS
  <2>1. Original' = Original
    BY <1>2 DEF Original
  <2>2. /\ Original.pc = "done" /\ told["success"] = 0 /\ told["exhausted"] = 0
        /\ rec # Gone => rec.status # "completed"
        /\ standing \subseteq {"sweep"}
    BY <1>1, <1>2, SweepAlone
  <2>3. rec # Gone => rec.status = "running"
    BY <1>2 DEF TakingTurns, ReplayInv
  <2>4. CASE /\ rec' \in Record /\ rec'.status = "completed" /\ ~rec'.queued
             /\ sweep'.pc = "success"
    BY <1>2, <2>1, <2>2, <2>4
    DEF TakingTurns, TurnsInv, ReplayInv, StandingInv, VerdictInv, CompletedInv, Closed, Verdicts
  <2>5. CASE /\ sweep'.pc = "failed"
             /\ \/ standing' = standing \ {"sweep"} /\ rec'.status = "failed"
                \/ standing' = standing /\ rec' = rec
    <3>1. StandingInv'
      BY <1>2, <2>1, <2>2, <2>3, <2>5 DEF StandingInv, Closed
    <3>. QED
      BY <1>2, <2>1, <2>2, <2>5, <3>1
      DEF TakingTurns, TurnsInv, ReplayInv, VerdictInv, CompletedInv, Verdicts
  <2>. QED
    BY <1>6, <2>4, <2>5
<1>8. /\ rec' \in Record \union {Gone} /\ sweep' \in Sweeps
      /\ sweep'.pc \in Holding => sweep'.copy # Gone
  BY <1>1, <1>6 DEF Holding
<1>9. standing' \subseteq Attempts
  BY <1>1, <1>6, Zenon DEF TypeOK
<1>. QED
  BY <1>1, <1>2, <1>7, <1>8, <1>9, SweepKeeps, Types

LEMMA Schedules ==
  ASSUME IInv, ScheduleNext \/ Exhaust
  PROVE  IInv'
<1>1. TypeOK /\ sweep \in Sweeps /\ CopyInv
  BY Types DEF IInv
<1>2. /\ sweep.pc = "failed"
      /\ standing' = standing \ {"sweep"}
      /\ UNCHANGED <<aged, landed, late, caller, pruning, told>>
      /\ \/ rec' = Scheduled(sweep.copy) /\ sweep' = Idle
         \/ rec' = Exhausted(sweep.copy) /\ sweep' = [Idle EXCEPT !.pc = "exhausted"]
  BY Zenon DEF ScheduleNext, Exhaust, Scheduled, Exhausted
<1>3. sweep.copy \in Record
  BY <1>1, <1>2 DEF CopyInv, Sweeps
<1>4. /\ rec' \in Record /\ rec'.status = "failed" /\ sweep' \in Sweeps
      /\ sweep'.pc = "idle" \/ (sweep'.pc = "exhausted" /\ ~rec'.queued)
  <2>1. CASE rec' = Scheduled(sweep.copy) /\ sweep' = Idle
    <3>1. rec' \in Record /\ rec'.status = "failed"
      BY <1>3, <2>1, WritesBack, TRUE \in BOOLEAN
    <3>. QED
      BY <2>1, <3>1, Ends
  <2>2. CASE rec' = Exhausted(sweep.copy) /\ sweep' = [Idle EXCEPT !.pc = "exhausted"]
    <3>1. rec' \in Record /\ rec'.status = "failed" /\ ~rec'.queued
      BY <1>3, <2>2, WritesBack, TRUE \in BOOLEAN
    <3>2. "exhausted" \in Verdicts
      BY DEF Verdicts
    <3>. QED
      BY <2>2, <3>1, <3>2, Ends
  <2>. QED
    BY <1>2, <2>1, <2>2
<1>5. TakingTurns => TakingTurns'
  <2>. SUFFICES ASSUME TakingTurns PROVE TakingTurns'
    OBVIOUS
  <2>1. Original' = Original
    BY <1>2 DEF Original
  <2>2. /\ Original.pc = "done" /\ told["success"] = 0 /\ told["exhausted"] = 0
        /\ standing \subseteq {"sweep"}
    BY <1>1, <1>2, SweepAlone
  <2>. QED
    BY <1>2, <1>4, <2>1, <2>2
    DEF TakingTurns, TurnsInv, ReplayInv, StandingInv, VerdictInv, CompletedInv, Closed, Verdicts
<1>6. standing' \subseteq Attempts
  BY <1>1, <1>2, Zenon DEF TypeOK
<1>. QED
  BY <1>1, <1>2, <1>4, <1>5, <1>6, SweepKeeps, Types DEF Holding

LEMMA Tells ==
  ASSUME IInv, Tell
  PROVE  IInv'
<1>1. TypeOK /\ sweep \in Sweeps /\ told \in [Verdicts -> Nat]
  BY Types DEF IInv
<1>2. /\ sweep.pc \in Verdicts /\ told' = [told EXCEPT ![sweep.pc] = @ + 1] /\ sweep' = Idle
      /\ UNCHANGED <<rec, aged, landed, late, standing, caller, pruning>>
  BY Zenon DEF Tell
<1>3. /\ told' \in [Verdicts -> Nat]
      /\ told'[sweep.pc] = told[sweep.pc] + 1
      /\ \A v \in Verdicts \ {sweep.pc} : told'[v] = told[v]
  BY <1>1, <1>2
<1>4. TakingTurns => TakingTurns'
  <2>. SUFFICES ASSUME TakingTurns PROVE TakingTurns'
    OBVIOUS
  <2>1. Original' = Original /\ sweep'.pc = "idle"
    BY <1>2, Ends DEF Original
  <2>2. ~(told["success"] + told["exhausted"] > 0) /\ Closed /\ Original.pc = "done"
    BY <1>2 DEF TakingTurns, VerdictInv, Verdicts
  <2>3. told["success"] = 0 /\ told["exhausted"] = 0
    BY <1>1, <2>2, Counts
  <2>4. /\ told'["success"] + told'["exhausted"] = 1
        /\ told'["exhausted"] > 0 => sweep.pc = "exhausted"
    BY <1>2, <1>3, <2>3 DEF Verdicts
  <2>5. sweep.pc = "exhausted" => (rec # Gone => rec.status = "failed" /\ ~rec.queued)
    BY DEF TakingTurns, VerdictInv
  <2>6. rec # Gone => (rec.status = "completed" => ~rec.queued)
    BY DEF TakingTurns, CompletedInv
  <2>. QED
    BY <1>2, <2>1, <2>2, <2>4, <2>5, <2>6
    DEF TakingTurns, TurnsInv, ReplayInv, StandingInv, VerdictInv, CompletedInv, Closed, Verdicts
<1>. QED
  BY <1>1, <1>2, <1>3, <1>4, SweepKeeps, Types, Ends DEF Holding

LEMMA SweepEnds ==
  ASSUME IInv, SweepDies
  PROVE  IInv'
<1>1. TypeOK
  BY DEF IInv
<1>2. /\ sweep.pc # "idle" /\ sweep' = Idle
      /\ UNCHANGED <<rec, aged, landed, late, standing, caller, pruning, told>>
  BY Zenon DEF SweepDies
<1>3. TakingTurns => TakingTurns'
  <2>. SUFFICES ASSUME TakingTurns PROVE TakingTurns'
    OBVIOUS
  <2>1. Original.pc = "done" /\ Original' = Original /\ sweep'.pc = "idle"
    BY <1>2, Ends DEF TakingTurns, TurnsInv, Original
  <2>. QED
    BY <1>2, <2>1
    DEF TakingTurns, TurnsInv, ReplayInv, StandingInv, VerdictInv, CompletedInv, Closed, Verdicts
<1>. QED
  BY <1>1, <1>2, <1>3, SweepKeeps, Types, Ends DEF Holding

-----------------------------------------------------------------------------
(* Pruning, time, and a write that lands late.                             *)

LEMMA LandsLate ==
  ASSUME IInv, LateCommit
  PROVE  IInv'
<1>1. TypeOK /\ late \in Nat
  BY Types DEF IInv
<1>2. /\ late > 0 /\ late' = late - 1 /\ landed' = TRUE
      /\ UNCHANGED <<rec, aged, standing, caller, sweep, pruning, told>>
  BY Zenon DEF LateCommit
<1>3. landed' \in BOOLEAN /\ late' \in Nat
  BY <1>1, <1>2
<1>4. TakingTurns => TakingTurns'
  BY <1>2
  DEF TakingTurns, TurnsInv, ReplayInv, StandingInv, VerdictInv, CompletedInv, Closed, Original
<1>5. sweep.pc \in Holding => sweep.copy # Gone
  BY DEF IInv, CopyInv, Holding
<1>. QED
  BY <1>1, <1>2, <1>3, <1>4, <1>5, SweepKeeps, Types

\* A step that touches only the pruning, the clock and marks of the record that
\* no part of the invariant reads.
LEMMA Passes ==
  ASSUME IInv, UNCHANGED <<landed, late, standing, caller, sweep, told>>,
         aged' \in BOOLEAN, pruning' \in BOOLEAN, rec' \in Record \union {Gone},
         rec' # Gone => /\ rec # Gone
                        /\ rec'.status = rec.status /\ rec'.queued = rec.queued
  PROVE  IInv'
<1>1. TypeOK'
  BY Types, Zenon DEF IInv, TypeOK, Calls, Sweeps
<1>2. CopyInv' /\ Original' = Original /\ (Undisturbed' => Undisturbed)
  BY DEF IInv, CopyInv, Original, Undisturbed
<1>3. TakingTurns => TakingTurns'
  BY <1>2
  DEF TakingTurns, TurnsInv, ReplayInv, StandingInv, VerdictInv, CompletedInv, Closed
<1>. QED
  BY <1>1, <1>2, <1>3 DEF IInv

LEMMA Prunes ==
  ASSUME IInv, PruneRead \/ PruneUnlink
  PROVE  IInv'
<1>1. rec \in Record \union {Gone} /\ aged \in BOOLEAN
  BY Types DEF IInv
<1>2. /\ UNCHANGED <<aged, landed, late, standing, caller, sweep, told>>
      /\ \/ pruning' = TRUE /\ rec' = rec
         \/ pruning' = FALSE /\ rec' = Gone
  BY Zenon DEF PruneRead, PruneUnlink
<1>3. pruning' \in BOOLEAN
  BY <1>2
<1>. QED
  BY <1>1, <1>2, <1>3, Passes

LEMMA TimePasses ==
  ASSUME IInv, Time
  PROVE  IInv'
<1>1. rec \in Record \union {Gone} /\ aged \in BOOLEAN /\ pruning \in BOOLEAN
  BY Types DEF IInv
<1>2. UNCHANGED <<landed, late, standing, caller, sweep, pruning, told>>
  BY Zenon DEF Time, RetryFallsDue, LeaseLapses, Ages, Elapse
<1>3. CASE RetryFallsDue \/ LeaseLapses
  <2>1. /\ rec # Gone /\ aged' = aged
        /\ rec' = [rec EXCEPT !.due = TRUE] \/ rec' = [rec EXCEPT !.lease = "lapsed"]
    BY <1>3, Zenon DEF RetryFallsDue, LeaseLapses, Elapse
  <2>2. rec \in Record
    BY <1>1, <2>1
  <2>3. rec' \in Record /\ rec'.status = rec.status /\ rec'.queued = rec.queued
    BY <2>1, <2>2, Elapses
  <2>. QED
    BY <1>1, <1>2, <2>1, <2>3, Passes
<1>4. CASE Ages
  <2>1. aged' = TRUE /\ rec' = rec
    BY <1>4, Zenon DEF Ages
  <2>. QED
    BY <1>1, <1>2, <2>1, Passes
<1>. QED
  BY <1>3, <1>4, Zenon DEF Time

-----------------------------------------------------------------------------
LEMMA StepHolds == IInv /\ [Next]_vars => IInv'
<1>. SUFFICES ASSUME IInv, [Next]_vars PROVE IInv'
  OBVIOUS
<1>1. CASE \E c \in Callers : CallerNext(c)
  BY <1>1, CallerStep
<1>2. CASE SweepStep
  <2>1. CASE SweepRead
    BY <2>1, Reads
  <2>2. CASE SweepRetire
    BY <2>2, SweepRetires
  <2>3. CASE SweepClaim
    BY <2>3, SweepClaims
  <2>4. CASE SweepSuppress
    BY <2>4, Suppresses
  <2>5. CASE SweepRefuse
    BY <2>5, Refuses
  <2>6. CASE SweepPreVerify
    BY <2>6, PreVerifies
  <2>7. CASE \E outcome \in Outcomes : SweepCall(outcome)
    BY <2>7, SweepCalls
  <2>8. CASE SweepReport
    BY <2>8, SweepReports
  <2>9. CASE ScheduleNext \/ Exhaust
    BY <2>9, Schedules
  <2>10. CASE Tell
    BY <2>10, Tells
  <2>. QED
    BY <1>2, <2>1, <2>2, <2>3, <2>4, <2>5, <2>6, <2>7, <2>8, <2>9, <2>10, Zenon DEF SweepStep
<1>3. CASE SweepDies
  BY <1>3, SweepEnds
<1>4. CASE PruneRead \/ PruneUnlink
  BY <1>4, Prunes
<1>5. CASE LateCommit
  BY <1>5, LandsLate
<1>6. CASE Time
  BY <1>6, TimePasses
<1>7. CASE UNCHANGED vars
  <2>1. UNCHANGED <<rec, aged, landed, late, standing, caller, sweep, pruning, told>>
    BY <1>7, Zenon DEF vars
  <2>2. rec \in Record \union {Gone} /\ aged \in BOOLEAN /\ pruning \in BOOLEAN
    BY Types DEF IInv
  <2>. QED
    BY <2>1, <2>2, Passes
<1>. QED
  BY <1>1, <1>2, <1>3, <1>4, <1>5, <1>6, <1>7, Zenon DEF Next

\* The inductive invariant of an operation record and those who write it holds
\* in every reachable state.
THEOREM Invariance == Spec => []IInv
  BY InitHolds, StepHolds, PTL DEF Spec

\* The record, the callers, the sweep and what was told keep their types.
THEOREM TypeCorrect == Spec => []TypeOK
<1>1. IInv => TypeOK
  BY DEF IInv
<1>. QED
  BY <1>1, Invariance, PTL

\* A replay is begun by a claim alone.
LEMMA ReplaysAreClaimed ==
  ASSUME IInv, Next, sweep.pc # "replaying", sweep'.pc = "replaying"
  PROVE  sweep.pc = "claiming"
<1>1. sweep \in Sweeps /\ sweep' \in Sweeps /\ Idle.pc = "idle" /\ sweep' # Idle /\ sweep' # sweep
  <2>1. TypeOK /\ TypeOK'
    BY StepHolds DEF IInv
  <2>2. sweep \in Sweeps /\ sweep' \in Sweeps
    BY <2>1, Zenon DEF TypeOK, Sweeps
  <2>. QED
    BY <2>2, Ends
<1>2. SweepStep
  <2>1. ~(\E c \in Callers : CallerNext(c))
    BY <1>1, Zenon DEF CallerNext, RetryLoad, RetryClaim, CallSkill, Report, EnqueueForRetry,
       CallerDies
  <2>2. ~(SweepDies \/ PruneRead \/ PruneUnlink \/ LateCommit \/ Time)
    BY <1>1, Zenon DEF SweepDies, PruneRead, PruneUnlink, LateCommit, Time, RetryFallsDue,
       LeaseLapses, Ages, Elapse
  <2>. QED
    BY <2>1, <2>2, Zenon DEF Next
<1>3. ~(SweepRetire \/ SweepSuppress \/ ScheduleNext \/ Tell)
  BY <1>1, Zenon DEF SweepRetire, SweepSuppress, ScheduleNext, Tell
<1>4. ~(SweepRefuse \/ SweepPreVerify \/ \E outcome \in Outcomes : SweepCall(outcome))
  BY DEF SweepRefuse, SweepPreVerify, SweepCall
<1>5. ~SweepRead
  BY DEF SweepRead, Idle
<1>6. ~SweepReport
  BY <1>1 DEF SweepReport, Idle, Sweeps
<1>7. ~Exhaust
  BY DEF Exhaust, Idle
<1>. QED
  BY <1>2, <1>3, <1>4, <1>5, <1>6, <1>7 DEF SweepStep, SweepClaim

\* While nobody has called `retry`, a replay is begun only when the failure of
\* every attempt before it is on record: none is under way, none succeeded, and
\* none died before it wrote how it ended.
THEOREM ReplaysFollowFailures == Spec => ReplayAfterFailure
<1>1. IInv /\ [Next]_vars =>
        [(Undisturbed /\ sweep.pc # "replaying" /\ sweep'.pc = "replaying")
            => standing = {}]_vars
  <2>. SUFFICES ASSUME IInv, Next, Undisturbed, sweep.pc # "replaying", sweep'.pc = "replaying"
                PROVE  standing = {}
    BY DEF vars
  <2>1. sweep.pc = "claiming"
    BY ReplaysAreClaimed
  <2>. QED
    BY <2>1 DEF IInv, TakingTurns, StandingInv
<1>. QED
  BY <1>1, Invariance, PTL DEF Spec, ReplayAfterFailure

\* While nobody has called `retry`, the agent session hears one verdict at most,
\* and an exhausted operation stays failed and out of the queue.
THEOREM ToldOnce == Spec => []OneVerdict
<1>1. IInv => OneVerdict
  BY DEF IInv, TakingTurns, VerdictInv, OneVerdict
<1>. QED
  BY <1>1, Invariance, PTL

\* While nobody has called `retry`, an operation recorded as completed is never
\* turned back into a failed or a running one.
THEOREM CompletedStays == Spec => CompletedIsFinal
<1>1. IInv /\ [Next]_vars =>
        [(Undisturbed /\ rec.status = "completed") => rec'.status \in {"completed", "gone"}]_vars
  <2>. SUFFICES ASSUME IInv, Next, Undisturbed, rec.status = "completed"
                PROVE  rec'.status \in {"completed", "gone"}
    BY DEF vars
  <2>1. rec # Gone /\ TypeOK /\ TakingTurns /\ rec \in Record
    BY Types DEF IInv, Gone
  <2>2. Original.pc = "done" /\ sweep.pc \in {"idle", "success"} /\ ~rec.queued
    BY <2>1 DEF TakingTurns, CompletedInv
  <2>3. CASE \E c \in Callers : CallerNext(c)
    <3>1. PICK c \in Callers : CallerNext(c)
      BY <2>3
    <3>2. caller[c].pc \in {"idle", "done"}
      BY <2>2 DEF Undisturbed, Callers, Original
    <3>3. RetryLoad(c)
      <4>1. ~RetryClaim(c) /\ ~Report(c) /\ ~EnqueueForRetry(c)
        BY <3>2 DEF RetryClaim, Report, EnqueueForRetry
      <4>2. \A outcome \in Outcomes : ~CallSkill(c, outcome)
        BY <3>2 DEF CallSkill
      <4>3. ~CallerDies(c)
        BY <3>2 DEF CallerDies
      <4>. QED
        BY <3>1, <4>1, <4>2, <4>3, Zenon DEF CallerNext
    <3>4. rec' = rec
      BY <3>3, Zenon DEF RetryLoad
    <3>. QED
      BY <3>4
  <2>4. CASE SweepStep
    <3>1. rec' = rec
      <4>1. ~SweepRetire /\ ~SweepClaim /\ ~SweepSuppress /\ ~SweepReport /\ ~ScheduleNext /\ ~Exhaust
        BY <2>2 DEF SweepRetire, SweepClaim, SweepSuppress, SweepReport, ScheduleNext, Exhaust
      <4>2. SweepRead \/ SweepRefuse \/ SweepPreVerify \/ Tell
            \/ \E outcome \in Outcomes : SweepCall(outcome)
        BY <2>4, <4>1, Zenon DEF SweepStep
      <4>. QED
        BY <4>2, Zenon DEF SweepRead, SweepRefuse, SweepPreVerify, Tell, SweepCall
    <3>. QED
      BY <3>1
  <2>5. CASE PruneUnlink
    <3>1. rec' = Gone
      BY <2>5, Zenon DEF PruneUnlink
    <3>. QED
      BY <3>1 DEF Gone
  <2>6. CASE SweepDies \/ PruneRead \/ LateCommit
    <3>1. rec' = rec
      BY <2>6, Zenon DEF SweepDies, PruneRead, LateCommit
    <3>. QED
      BY <3>1
  <2>7. CASE Time
    <3>1. \/ rec' = rec
          \/ rec' = [rec EXCEPT !.due = TRUE]
          \/ rec' = [rec EXCEPT !.lease = "lapsed"]
      BY <2>7, Zenon DEF Time, RetryFallsDue, LeaseLapses, Ages, Elapse
    <3>. QED
      BY <2>1, <3>1, Elapses
  <2>. QED
    BY <2>3, <2>4, <2>5, <2>6, <2>7, Zenon DEF Next
<1>. QED
  BY <1>1, Invariance, PTL DEF Spec, CompletedIsFinal

-----------------------------------------------------------------------------
(* The launch of a Verify job, whose record this queue dispatches. That        *)
(* nothing writes "prepared" (GoalInv) and that only a claim of a prepared job *)
(* leads to a spawn (LaunchInv) is needed for one spawn; that a handler        *)
(* returns only past the launch (ReportInv), and where a marking goes on       *)
(* (ThenInv), for no job to be stranded.                                       *)

\* Where a marking goes on: the sweep after a reconciliation, the report of
\* the handler, or the end of an exhausted record.
ThenInv ==
    pc["sidecar"] \in {"mark", "marking"} => then \in {"sweep", "report", "exhaust"}

\* What a step that was read is about to write: never "prepared".
GoalInv ==
    /\ \A a \in Actors : pc[a] = "finish" => goal[a] # "prepared"
    /\ pc["worker"] = "writing" => goal["worker"] # "prepared"
    /\ pc["sidecar"] = "receipted" => goal["sidecar"] # "prepared"

\* A job nobody claimed has no worker, nor has one that is about to be given one.
LaunchInv ==
    /\ job.status = "prepared" => spawned = 0 /\ pc["worker"] = "none"
    /\ pc["sidecar"] = "spawn" => spawned = 0 /\ pc["worker"] = "none"

\* Past the claim, and where the handler returns, the job was claimed.
ReportInv ==
    pc["sidecar"] \in {"spawn", "receipt", "receipted", "report"} => job.status # "prepared"

JobIInv == /\ JobTypeOK /\ ThenInv /\ GoalInv /\ LaunchInv /\ ReportInv
        /\ SpawnedOnce /\ NoStrandedJob

LEMMA JobInitHolds == JobInit => JobIInv
<1>. SUFFICES ASSUME JobInit PROVE JobIInv
  OBVIOUS
<1>. USE DEF JobInit, Actors
<1>1. JobTypeOK
  <2>1. job \in [status : Statuses, lease : Leases, output : BOOLEAN,
                 owner : Actors \union {"nobody"}, projection : Leases]
    BY DEF Statuses, Leases
  <2>2. record \in [status : {"none", "failed", "running", "completed"}, queued : BOOLEAN,
                 attempt : Nat, due : BOOLEAN, lease : Leases]
    BY DEF Leases
  <2>3. pc \in [Actors -> SidecarSteps \union WorkerSteps \union ProjectSteps]
    BY DEF SidecarSteps, WorkerSteps
  <2>4. pc["sidecar"] \notin WorkerSteps /\ pc["worker"] \notin SidecarSteps
    BY DEF SidecarSteps, WorkerSteps
  <2>5. then \in SidecarSteps /\ goal \in [Actors -> Statuses]
    BY DEF SidecarSteps, Statuses
  <2>6. expired \in BOOLEAN /\ spawned \in Nat /\ faults \in 0 .. MaxFaults
    <3>1. 0 \in Nat /\ 0 \in 0 .. MaxFaults
      BY LaunchAssumption
    <3>. QED
      BY <3>1, Zenon
  <2>. QED
    BY <2>1, <2>2, <2>3, <2>4, <2>5, <2>6, Zenon DEF JobTypeOK
<1>2. ThenInv /\ GoalInv /\ LaunchInv /\ ReportInv /\ SpawnedOnce /\ NoStrandedJob
  BY DEF ThenInv, GoalInv, LaunchInv, ReportInv, SpawnedOnce, NoStrandedJob
<1>. QED
  BY <1>1, <1>2 DEF JobIInv

-----------------------------------------------------------------------------
(* The types.                                                              *)

Jobs == [status : Statuses, lease : Leases, output : BOOLEAN,
         owner : Actors \union {"nobody"}, projection : Leases]

Records == [status : {"none", "failed", "running", "completed"}, queued : BOOLEAN,
            attempt : Nat, due : BOOLEAN, lease : Leases]

Steps == SidecarSteps \union WorkerSteps \union ProjectSteps

\* What is written into the row of a job is a job.
LEMMA WrittenIsJob ==
  ASSUME job \in Jobs, NEW s \in Statuses
  PROVE  Written(s) \in Jobs /\ Written(s).status = s
<1>. DEFINE lease == IF s = "launching" THEN job.lease ELSE "none"
            owner == IF s = "submitted" THEN job.owner ELSE "nobody"
            projection == IF s = "submitted" THEN job.projection ELSE "none"
<1>1. lease \in Leases /\ owner \in Actors \union {"nobody"} /\ projection \in Leases
  BY DEF Jobs, Leases
<1>2. Written(s) = [job EXCEPT !.status = s, !.lease = lease, !.owner = owner,
                              !.projection = projection]
  BY DEF Written
<1>. HIDE DEF lease, owner, projection
<1>. QED
  BY <1>1, <1>2 DEF Jobs

\* The outputs, leases, owners and projections a job is given leave its status alone.
LEMMA JobUpdates ==
  ASSUME NEW j \in Jobs, NEW a \in Actors, NEW l \in Leases, NEW b \in BOOLEAN
  PROVE  /\ [j EXCEPT !.output = b] \in Jobs /\ [j EXCEPT !.output = b].status = j.status
         /\ [j EXCEPT !.owner = a, !.projection = l] \in Jobs
         /\ [j EXCEPT !.owner = a, !.projection = l].status = j.status
         /\ [j EXCEPT !.projection = l] \in Jobs
         /\ [j EXCEPT !.projection = l].status = j.status
         /\ [j EXCEPT !.lease = l] \in Jobs
         /\ [j EXCEPT !.lease = l].status = j.status
  BY DEF Jobs

LEMMA JobClaimed ==
  ASSUME job \in Jobs
  PROVE  /\ [job EXCEPT !.status = "launching", !.lease = "live"] \in Jobs
         /\ [job EXCEPT !.status = "launching", !.lease = "live"].status = "launching"
  BY DEF Jobs, Leases, Statuses

\* A record that is claimed, ended, failed, put off or enqueued is a record.
LEMMA RecordUpdates ==
  ASSUME NEW r \in Records
  PROVE  /\ [r EXCEPT !.status = "running", !.lease = "live", !.attempt = @ + 1] \in Records
         /\ [r EXCEPT !.status = "running", !.lease = "live", !.attempt = @ + 1].status
               = "running"
         /\ [r EXCEPT !.status = "completed", !.lease = "none", !.queued = FALSE] \in Records
         /\ [r EXCEPT !.status = "failed", !.lease = "none"] \in Records
         /\ [r EXCEPT !.status = "failed", !.lease = "none"].status = "failed"
         /\ [r EXCEPT !.status = "failed", !.queued = TRUE, !.due = TRUE] \in Records
         /\ [r EXCEPT !.status = "failed", !.queued = TRUE, !.due = TRUE].status = "failed"
         /\ [r EXCEPT !.due = TRUE] \in Records /\ [r EXCEPT !.due = FALSE] \in Records
         /\ [r EXCEPT !.due = TRUE].status = r.status
         /\ [r EXCEPT !.due = FALSE].status = r.status
         /\ [r EXCEPT !.queued = FALSE] \in Records
         /\ [r EXCEPT !.queued = FALSE].status = r.status
         /\ \A l \in Leases : /\ [r EXCEPT !.lease = l] \in Records
                              /\ [r EXCEPT !.lease = l].status = r.status
<1>1. r.attempt + 1 \in Nat
  BY DEF Records
<1>. QED
  BY <1>1 DEF Records, Leases

\* No step makes a prepared job of another.
LEMMA JobSteps ==
  ASSUME JobTypeOK, GoalInv, JobNext
  PROVE  /\ job' \in Jobs
         /\ job'.status = "prepared" => job.status = "prepared"
<1>1. job \in Jobs
  BY DEF JobTypeOK, Jobs
<1>3. CASE MarkWrite
  <2>1. "unavailable" \in Statuses
    BY DEF Statuses, Settled, Final
  <2>. QED
    BY <1>1, <1>3, <2>1, WrittenIsJob DEF MarkWrite
<1>4. CASE ClaimLaunch
  BY <1>1, <1>4, JobClaimed DEF ClaimLaunch
<1>5. CASE ReceiptWrite
  <2>1. goal["sidecar"] \in Statuses /\ goal["sidecar"] # "prepared"
    BY <1>5 DEF ReceiptWrite, JobTypeOK, GoalInv, Actors
  <2>. QED
    BY <1>1, <1>5, <2>1, WrittenIsJob DEF ReceiptWrite
<1>6. CASE WorkerWrite
  <2>1. goal["worker"] \in Statuses /\ goal["worker"] # "prepared"
    BY <1>6 DEF WorkerWrite, JobTypeOK, GoalInv, Actors
  <2>2. PICK b \in BOOLEAN : job' = [Written(goal["worker"]) EXCEPT !.output = b]
    <3>1. (Written(goal["worker"]).output \/ goal["worker"] = "submitted") \in BOOLEAN
      OBVIOUS
    <3>. QED
      BY <1>6, <3>1 DEF WorkerWrite
  <2>3. Written(goal["worker"]) \in Jobs /\ Written(goal["worker"]).status = goal["worker"]
    BY <1>1, <2>1, WrittenIsJob
  <2>4. job' \in Jobs /\ job'.status = goal["worker"]
    BY <2>2, <2>3, JobUpdates DEF Actors, Leases
  <2>. QED
    BY <2>1, <2>4
<1>7. ASSUME NEW a \in Actors, ClaimProjection(a) PROVE job' \in Jobs /\ job'.status = job.status
  <2>1. job' = job \/ job' = [job EXCEPT !.owner = a, !.projection = "live"]
    BY <1>7, Zenon DEF ClaimProjection
  <2>2. CASE job' = [job EXCEPT !.owner = a, !.projection = "live"]
    <3>1. "live" \in Leases
      BY DEF Leases
    <3>. QED
      BY <1>1, <2>2, <3>1, JobUpdates
  <2>. QED
    BY <1>1, <2>1, <2>2
<1>8. ASSUME NEW a \in Actors, FinishWrite(a)
      PROVE  job' \in Jobs /\ job'.status # "prepared"
  <2>1. goal[a] \in Statuses /\ goal[a] # "prepared"
    BY <1>8 DEF FinishWrite, JobTypeOK, GoalInv
  <2>. QED
    BY <1>1, <1>8, <2>1, WrittenIsJob DEF FinishWrite
<1>9. CASE LaunchLeaseLapses
  <2>1. PICK l \in Leases : job' = [job EXCEPT !.lease = l]
    BY <1>1, <1>9 DEF LaunchLeaseLapses, Jobs, Leases
  <2>. QED
    BY <1>1, <2>1, JobUpdates DEF Actors
<1>10. CASE ProjectionLapses
  BY <1>1, <1>10, JobUpdates DEF ProjectionLapses, Leases, Actors
<1>11. CASE /\ ~(MarkWrite \/ ClaimLaunch \/ ReceiptWrite \/ WorkerWrite)
            /\ ~(LaunchLeaseLapses \/ ProjectionLapses)
            /\ \A a \in Actors : ~(ClaimProjection(a) \/ FinishWrite(a))
  <2>1. UNCHANGED job
    BY <1>11, Zenon DEF JobNext, LaunchJob, SidecarStep, Faults, JobTime, Project, Actors,
       Reconcile, MarkRead, Sweep, Dispatch, Spawn, ReceiptRead, ReportDone, ReportError,
       RescheduleLaunch, ExhaustJob, ExhaustRecord, HandlerRaises, HookRaises, SidecarDies,
       WorkerRead, WorkerExits, FinishRead, Expire, LaunchFallsDue
  <2>. QED
    BY <1>1, <2>1
<1>. QED
  BY <1>3, <1>4, <1>5, <1>6, <1>7, <1>8, <1>9, <1>10, <1>11

LEMMA RecordSteps ==
  ASSUME JobTypeOK, JobNext
  PROVE  /\ record' \in Records
         /\ record'.status = "completed" => record.status = "completed" \/ ReportDone
<1>1. record \in Records
  BY DEF JobTypeOK, Records
<1>2. Enqueued \in Records /\ (Enqueued = record \/ Enqueued.status = "failed")
  BY <1>1, RecordUpdates DEF Enqueued, Leases
<1>3. CASE LaunchJob \/ Reconcile
  BY <1>1, <1>2, <1>3 DEF LaunchJob, Reconcile
<1>4. CASE Sweep
  <2>1. \/ record' = record
        \/ record' = [record EXCEPT !.status = "running", !.lease = "live", !.attempt = @ + 1]
    BY <1>4, Zenon DEF Sweep
  <2>2. record' \in Records /\ (record'.status = record.status \/ record'.status = "running")
    <3>1. CASE record' = record
      BY <1>1, <3>1
    <3>2. CASE record' = [record EXCEPT !.status = "running", !.lease = "live", !.attempt = @ + 1]
      BY <1>1, <3>2, RecordUpdates
    <3>. QED
      BY <2>1, <3>1, <3>2
  <2>. QED
    BY <2>2
<1>5. CASE ReportDone
  BY <1>1, <1>5, RecordUpdates DEF ReportDone, Leases
<1>6. CASE ReportError
  BY <1>1, <1>6, RecordUpdates DEF ReportError, Leases
<1>7. CASE RescheduleLaunch \/ LaunchFallsDue
  <2>1. record' = [record EXCEPT !.due = FALSE] \/ record' = [record EXCEPT !.due = TRUE]
    BY <1>7, Zenon DEF RescheduleLaunch, LaunchFallsDue
  <2>2. record' \in Records /\ (record'.status = record.status \/ record'.status = "running")
    <3>1. CASE record' = [record EXCEPT !.due = FALSE]
      BY <1>1, <3>1, RecordUpdates
    <3>2. CASE record' = [record EXCEPT !.due = TRUE]
      BY <1>1, <3>2, RecordUpdates
    <3>. QED
      BY <2>1, <3>1, <3>2
  <2>. QED
    BY <2>2
<1>8. CASE ExhaustRecord
  BY <1>1, <1>8, RecordUpdates DEF ExhaustRecord, Leases
<1>9. CASE LaunchLeaseLapses
  <2>1. PICK l \in Leases : record' = [record EXCEPT !.lease = l]
    BY <1>1, <1>9 DEF LaunchLeaseLapses, Records, Leases
  <2>. QED
    BY <1>1, <2>1, RecordUpdates
<1>10. CASE ~(\/ LaunchJob \/ Reconcile \/ Sweep \/ ReportDone \/ ReportError
              \/ RescheduleLaunch \/ LaunchFallsDue \/ ExhaustRecord \/ LaunchLeaseLapses)
  <2>1. UNCHANGED record
    BY <1>10, Zenon DEF JobNext, SidecarStep, Faults, JobTime, Project,
       MarkRead, MarkWrite, Dispatch, ClaimLaunch, Spawn, ReceiptRead, ReceiptWrite,
       ExhaustJob, HandlerRaises, HookRaises, SidecarDies, WorkerRead, WorkerWrite,
       WorkerExits, ClaimProjection, FinishRead, FinishWrite, Expire, ProjectionLapses
  <2>. QED
    BY <1>1, <2>1
<1>. QED
  BY <1>3, <1>4, <1>5, <1>6, <1>7, <1>8, <1>9, <1>10

-----------------------------------------------------------------------------
(* The steps of the two actors.                                            *)

JobPlaces ==
    /\ pc \in [Actors -> SidecarSteps \union WorkerSteps \union ProjectSteps]
    /\ pc["sidecar"] \notin WorkerSteps /\ pc["worker"] \notin SidecarSteps
    /\ then \in SidecarSteps
    /\ goal \in [Actors -> Statuses]
    /\ expired \in BOOLEAN
    /\ spawned \in Nat /\ faults \in 0 .. MaxFaults

LEMMA PlaceSteps == JobTypeOK /\ ThenInv /\ JobNext => JobPlaces'
<1>. SUFFICES ASSUME JobTypeOK, ThenInv, JobNext PROVE JobPlaces'
  OBVIOUS
<1>0. JobPlaces
  BY Zenon DEF JobTypeOK, JobPlaces
<1>. USE <1>0 DEF JobPlaces, Goto, Actors, SidecarSteps, WorkerSteps, ProjectSteps
<1>1. CASE LaunchJob \/ JobTime
  BY <1>1 DEF LaunchJob, JobTime, Expire, LaunchFallsDue, LaunchLeaseLapses, ProjectionLapses
<1>2. CASE Reconcile
  BY <1>2 DEF Reconcile, Mark
<1>3. CASE MarkRead
  BY <1>3 DEF MarkRead, ThenInv
<1>4. CASE MarkWrite
  BY <1>4 DEF MarkWrite, ThenInv
<1>5. CASE Sweep
  BY <1>5 DEF Sweep
<1>6. CASE Dispatch
  BY <1>6 DEF Dispatch, Mark
<1>7. CASE ClaimLaunch
  BY <1>7 DEF ClaimLaunch
<1>8. CASE Spawn
  BY <1>8 DEF Spawn
<1>9. CASE ReceiptRead
  BY <1>9 DEF ReceiptRead, Statuses, JobTypeOK
<1>10. CASE ReceiptWrite \/ ReportDone \/ ReportError \/ RescheduleLaunch \/ ExhaustRecord
  BY <1>10 DEF ReceiptWrite, ReportDone, ReportError, RescheduleLaunch, ExhaustRecord
<1>11. CASE ExhaustJob
  BY <1>11 DEF ExhaustJob, Mark
<1>12. CASE HandlerRaises \/ HookRaises \/ SidecarDies
  <2>1. faults' \in 0 .. MaxFaults
    BY <1>12, LaunchAssumption DEF HandlerRaises, HookRaises, SidecarDies
  <2>2. pc' = [pc EXCEPT !["sidecar"] = "error"] \/ pc' = [pc EXCEPT !["sidecar"] = "idle"]
        \/ (pc' = [pc EXCEPT !["sidecar"] = then] /\ then \in {"sweep", "report", "exhaust"})
    BY <1>12, Zenon DEF HandlerRaises, HookRaises, SidecarDies, ThenInv
  <2>3. UNCHANGED <<then, goal, expired, spawned>>
    BY <1>12 DEF HandlerRaises, HookRaises, SidecarDies
  <2>. QED
    BY <2>1, <2>2, <2>3
<1>13. CASE WorkerRead
  BY <1>13 DEF WorkerRead, Statuses, Settled, Final
<1>14. CASE WorkerWrite \/ WorkerExits
  BY <1>14 DEF WorkerWrite, WorkerExits
<1>15. ASSUME NEW a \in Actors, Project(a) PROVE JobPlaces'
  BY <1>15 DEF Project, ClaimProjection, FinishRead, FinishWrite, After, Statuses, Settled, Final
<1>. QED
  BY <1>1, <1>2, <1>3, <1>4, <1>5, <1>6, <1>7, <1>8, <1>9, <1>10, <1>11, <1>12, <1>13,
     <1>14, <1>15 DEF JobNext, SidecarStep, Faults

\* The claim is of a prepared job, and leaves it launching.
LEMMA ClaimStep ==
  ASSUME JobTypeOK, ClaimLaunch, pc'["sidecar"] = "spawn"
  PROVE  job.status = "prepared" /\ job'.status # "prepared"
<1>1. job \in Jobs /\ pc \in [Actors -> SidecarSteps \union WorkerSteps \union ProjectSteps]
  BY Zenon DEF JobTypeOK, Jobs
<1>2. pc'["sidecar"] = "error" \/ job.status = "prepared"
  BY <1>1 DEF ClaimLaunch, Goto, Actors
<1>3. job' = [job EXCEPT !.status = "launching", !.lease = "live"]
  BY <1>1, <1>2 DEF ClaimLaunch, Goto, Actors
<1>. QED
  BY <1>1, <1>2, <1>3, JobClaimed

\* What is left to prove of a step, once its types and what it makes of the two
\* rows are known.
Order == ThenInv /\ GoalInv /\ LaunchInv /\ ReportInv /\ SpawnedOnce /\ NoStrandedJob

LEMMA OrderSteps == JobIInv /\ JobNext => Order'
<1>. SUFFICES ASSUME JobIInv, JobNext PROVE Order'
  OBVIOUS
<1>0. pc \in [Actors -> SidecarSteps \union WorkerSteps \union ProjectSteps]
      /\ pc["sidecar"] \notin WorkerSteps /\ pc["worker"] \notin SidecarSteps
      /\ goal \in [Actors -> Statuses] /\ spawned \in Nat
  BY Zenon DEF JobIInv, JobTypeOK
<1>j. job'.status = "prepared" => job.status = "prepared"
  BY JobSteps DEF JobIInv
<1>r. record'.status = "completed" => record.status = "completed" \/ ReportDone
  BY RecordSteps DEF JobIInv
<1>i. Order
  BY DEF JobIInv, Order
<1>. USE <1>0, <1>j, <1>r, <1>i DEF Order, ThenInv, GoalInv, LaunchInv, ReportInv,
         SpawnedOnce, NoStrandedJob, Goto, Actors, ReportDone
<1>1. CASE LaunchJob \/ JobTime
  BY <1>1 DEF LaunchJob, JobTime, Expire, LaunchFallsDue, LaunchLeaseLapses, ProjectionLapses
<1>2. CASE Reconcile
  BY <1>2 DEF Reconcile, Mark
<1>3. CASE MarkRead
  BY <1>3 DEF MarkRead, Settled, Final
<1>4. CASE MarkWrite
  BY <1>4 DEF MarkWrite, Written
<1>5. CASE Sweep
  BY <1>5 DEF Sweep
<1>6. CASE Dispatch
  BY <1>6 DEF Dispatch, Mark, Settled, Final
<1>7. CASE ClaimLaunch
  BY <1>7, ClaimStep DEF ClaimLaunch, JobIInv
<1>8. CASE Spawn
  BY <1>8 DEF Spawn
<1>9. CASE ReceiptRead
  BY <1>9 DEF ReceiptRead
<1>10. CASE ReceiptWrite
  BY <1>10 DEF ReceiptWrite
<1>11. CASE ReportDone
  BY <1>11
<1>12. CASE ReportError \/ RescheduleLaunch \/ ExhaustRecord
  BY <1>12 DEF ReportError, RescheduleLaunch, ExhaustRecord
<1>13. CASE ExhaustJob
  BY <1>13 DEF ExhaustJob, Mark
<1>14. CASE HandlerRaises \/ SidecarDies
  BY <1>14 DEF HandlerRaises, SidecarDies
<1>15. CASE HookRaises
  BY <1>15 DEF HookRaises
<1>16. CASE WorkerRead
  BY <1>16 DEF WorkerRead
<1>17. CASE WorkerWrite \/ WorkerExits
  BY <1>17 DEF WorkerWrite, WorkerExits
<1>18. ASSUME NEW a \in Actors, ClaimProjection(a) PROVE Order'
  BY <1>18 DEF ClaimProjection, After
<1>19. ASSUME NEW a \in Actors, FinishRead(a) PROVE Order'
  BY <1>19 DEF FinishRead, After
<1>20. ASSUME NEW a \in Actors, FinishWrite(a) PROVE Order'
  BY <1>20 DEF FinishWrite, After
<1>. QED
  BY <1>1, <1>2, <1>3, <1>4, <1>5, <1>6, <1>7, <1>8, <1>9, <1>10, <1>11, <1>12, <1>13,
     <1>14, <1>15, <1>16, <1>17, <1>18, <1>19, <1>20, Zenon
  DEF JobNext, SidecarStep, Faults, Project

LEMMA JobStepHolds == JobIInv /\ [JobNext]_jobVars => JobIInv'
<1>. SUFFICES ASSUME JobIInv, [JobNext]_jobVars PROVE JobIInv'
  OBVIOUS
<1>1. CASE JobNext
  <2>1. job' \in Jobs /\ record' \in Records /\ JobPlaces'
    BY <1>1, JobSteps, RecordSteps, PlaceSteps DEF JobIInv
  <2>2. JobTypeOK'
    BY <2>1, Zenon DEF JobTypeOK, Jobs, Records, JobPlaces
  <2>. QED
    BY <1>1, <2>2, OrderSteps DEF JobIInv, Order
<1>2. CASE UNCHANGED jobVars
  BY <1>2 DEF jobVars, JobIInv, JobTypeOK, ThenInv, GoalInv, LaunchInv, ReportInv, SpawnedOnce,
     NoStrandedJob
<1>. QED
  BY <1>1, <1>2

\* The inductive invariant holds in every reachable state.
LEMMA JobInvariance == JobSpec => []JobIInv
<1>1. JobInit => JobIInv
  BY JobInitHolds
<1>2. JobIInv /\ [JobNext]_jobVars => JobIInv'
  BY JobStepHolds
<1>. QED
  BY <1>1, <1>2, PTL DEF JobSpec

\* The row of a job, the record of its launch and the steps of the sidecar and of
\* the worker keep their types, whatever update_job overwrites.
THEOREM JobTypeCorrect == JobSpec => []JobTypeOK
<1>1. JobIInv => JobTypeOK
  BY DEF JobIInv
<1>. QED
  BY <1>1, JobInvariance, PTL

\* However often its launch is dispatched, recovered or retried, and wherever the
\* sidecar dies, a job is spawned at most once.
THEOREM LaunchedOnce == JobSpec => []SpawnedOnce
<1>1. JobIInv => SpawnedOnce
  BY DEF JobIInv
<1>. QED
  BY <1>1, JobInvariance, PTL

\* A launch record that left the queue as completed has its job past "prepared".
THEOREM NoneStranded == JobSpec => []NoStrandedJob
<1>1. JobIInv => NoStrandedJob
  BY DEF JobIInv
<1>. QED
  BY <1>1, JobInvariance, PTL

=============================================================================
