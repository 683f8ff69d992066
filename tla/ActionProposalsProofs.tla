----------------------- MODULE ActionProposalsProofs -----------------------
(***************************************************************************)
(* Proofs about ActionProposals, for every set of proposals, tabs, sweepers*)
(* and poisoned proposals, every batch size, number of versions and of     *)
(* faults. IInv is inductive: that a worker past the start of an execution *)
(* carries the version of the intent (CarriedInv) is needed for the task   *)
(* to be of what was approved, and what the intent and the last result say *)
(* of the cached state (LogInv) for the state to follow the log. Nothing   *)
(* here depends on which proposals a sweep takes or in which order: their  *)
(* sequences are left out of the types.                                    *)
(***************************************************************************)
EXTENDS ActionProposals, TLAPS

States == {"none", "awaiting_confirmation", "executing", "awaiting_redirect", "done",
           "dismissed"}

\* TypeOK, without the sequences of proposals.
Types ==
    /\ version \in [Proposals -> {0} \cup Versions]
    /\ intent \in [Proposals -> {0} \cup Versions]
    /\ agreed \in [Proposals -> {0} \cup Versions]
    /\ finish \in [Proposals -> {"none", "failed", "success"}]
    /\ state \in [Proposals -> States]
    /\ task \in [Proposals -> {0} \cup Versions]
    /\ shown \in [Tabs -> {Nothing} \cup [p : Proposals, v : Versions]]
    /\ faults \in 0 .. MaxFaults

Handling(w) == Head(worker[w].batch)

\* Every worker is at a place, with a batch and a version.
WorkerInv ==
    /\ DOMAIN worker = Workers
    /\ \A w \in Workers :
         worker[w] = [pc |-> worker[w].pc, batch |-> worker[w].batch,
                      params |-> worker[w].params]

\* What a log can say of a proposal: before its capture, while it is undecided
\* or rejected, and once an intent froze the version on the screen.
LogInv ==
    \A p \in Proposals :
        /\ intent[p] = agreed[p]
        /\ version[p] = 0 <=> state[p] = "none"
        /\ intent[p] = 0 =>
              /\ finish[p] = "none" /\ p \notin realized /\ task[p] = 0
              /\ state[p] \in {"none", "awaiting_confirmation", "dismissed"}
        /\ intent[p] # 0 =>
              /\ state[p] = CASE p \in realized -> "done"
                              [] p \notin realized /\ finish[p] = "failed" -> "awaiting_redirect"
                              [] p \notin realized /\ finish[p] # "failed" -> "executing"
              /\ task[p] \in {0, intent[p]}
        /\ p \in realized => task[p] # 0

\* A worker past the start of an execution carries the version of the intent,
\* and one whose call was confirmed has its task.
CarriedInv ==
    \A w \in Workers :
      worker[w].pc \in {"dispatch", "confirmed", "failed"} /\ Handling(w) \in Proposals =>
        /\ worker[w].params = intent[Handling(w)] /\ intent[Handling(w)] # 0
        /\ worker[w].pc = "confirmed" => task[Handling(w)] # 0

IInv == Types /\ WorkerInv /\ LogInv /\ CarriedInv

\* What was decided stays decided: an intent, a task and a realization are never
\* taken back, replaced or made of another version.
DecisionsAreFinal ==
    [][\A p \in Proposals :
          /\ intent[p] # 0 => intent'[p] = intent[p]
          /\ task[p] # 0 => task'[p] = task[p]
          /\ p \in realized => p \in realized']_vars

LEMMA InitHolds == Init => IInv
<1>. SUFFICES ASSUME Init PROVE IInv
  OBVIOUS
<1>. USE ProposalAssumption DEF Init
<1>1. Types
  BY DEF Types, States
<1>2. WorkerInv /\ CarriedInv
  BY DEF WorkerInv, CarriedInv, Rest
<1>3. LogInv
  BY DEF LogInv
<1>. QED
  BY <1>1, <1>2, <1>3 DEF IInv

\* What the status of a proposal says of its log.
LEMMA StatusMeans ==
  ASSUME NEW p \in Proposals
  PROVE  /\ Status(p) = "realized" <=> p \in realized
         /\ Status(p) = "ready" => intent[p] = 0 /\ p \notin realized
                                  /\ state[p] = "awaiting_confirmation"
         /\ Status(p) = "rejected" => intent[p] = 0 /\ state[p] = "dismissed"
         /\ Status(p) = "unavailable" => intent[p] = 0
         /\ Status(p) \in {"executing", "needs_attention"} => intent[p] # 0 /\ p \notin realized
  BY DEF Status

\* Where a worker goes on, and what it then carries.
LEMMA Advances ==
  ASSUME WorkerInv, NEW w \in Workers, Advance(w)
  PROVE  /\ WorkerInv'
         /\ \A x \in Workers : worker'[x] = worker[x] \/ worker'[x].pc \in {"rest", "start"}
  BY DEF Advance, WorkerInv, Rest

\* A worker whose step leaves it at its place or brings it to rest or to a start,
\* and leaves the intents and the tasks alone, carries what it should.
LEMMA CarriesOn ==
  ASSUME CarriedInv,
         \A x \in Workers : worker'[x] = worker[x] \/ worker'[x].pc \in {"rest", "start"},
         \A p \in Proposals : intent[p] # 0 => intent'[p] = intent[p],
         \A p \in Proposals : task[p] # 0 => task'[p] # 0
  PROVE  CarriedInv'
  BY DEF CarriedInv, Handling

\* What a step does not undo.
Kept ==
    \A p \in Proposals :
        /\ intent[p] # 0 => intent'[p] = intent[p]
        /\ task[p] # 0 => task'[p] = task[p]
        /\ p \in realized => p \in realized'

-----------------------------------------------------------------------------
(* Capture and review.                                                     *)

LEMMA CreateStep ==
  ASSUME IInv, NEW p \in Proposals, Create(p) PROVE IInv' /\ Kept
<1>. USE ProposalAssumption DEF IInv
<1>1. Types'
  BY DEF Create, Types, States, Versions
<1>2. WorkerInv' /\ CarriedInv'
  BY DEF Create, WorkerInv, CarriedInv, Handling
<1>3. LogInv'
  BY DEF Create, LogInv, Types
<1>. QED
  BY <1>1, <1>2, <1>3 DEF Create, Kept

LEMMA ShowStep ==
  ASSUME IInv, NEW t \in Tabs, NEW p \in Proposals, Show(t, p) PROVE IInv' /\ Kept
<1>. USE DEF IInv, Show, log
<1>1. Types'
  <2>1. [p |-> p, v |-> version[p]] \in [p : Proposals, v : Versions]
    BY DEF Types
  <2>. QED
    BY <2>1 DEF Types
<1>2. WorkerInv' /\ CarriedInv'
  BY DEF WorkerInv, CarriedInv, Handling
<1>3. LogInv'
  BY DEF LogInv
<1>. QED
  BY <1>1, <1>2, <1>3 DEF Kept

\* A tab that shows something shows a proposal.
LEMMA ShownProposal ==
  ASSUME Types, NEW t \in Tabs, Reviewed(t)
  PROVE  /\ shown[t].p \in Proposals /\ shown[t].v \in Versions
         /\ version[shown[t].p] = shown[t].v
  BY DEF Types, Reviewed

LEMMA ReviseStep ==
  ASSUME IInv, NEW t \in Tabs, Revise(t) PROVE IInv' /\ Kept
<1>. DEFINE p == shown[t].p
<1>1. p \in Proposals /\ version[p] \in Versions
  BY ShownProposal DEF Revise, IInv
<1>. HIDE DEF p
<1>2. /\ version' = [version EXCEPT ![p] = @ + 1] /\ version[p] < MaxVersions
      /\ UNCHANGED <<intent, finish, realized, state, order, task, shown, worker, agreed, faults>>
  BY DEF Revise, p
<1>. USE ProposalAssumption DEF IInv
<1>3. Types'
  BY <1>1, <1>2 DEF Types, Versions
<1>4. WorkerInv' /\ CarriedInv'
  BY <1>2 DEF WorkerInv, CarriedInv, Handling
<1>5. LogInv'
  BY <1>1, <1>2 DEF LogInv, Types, Versions
<1>. QED
  BY <1>2, <1>3, <1>4, <1>5 DEF Kept

LEMMA RejectStep ==
  ASSUME IInv, NEW t \in Tabs, Reject(t) PROVE IInv' /\ Kept
<1>. DEFINE p == shown[t].p
<1>1. p \in Proposals /\ version[p] \in Versions
  BY ShownProposal DEF Reject, IInv
<1>. HIDE DEF p
<1>2. /\ state' = [state EXCEPT ![p] = "dismissed"] /\ Status(p) = "ready"
      /\ UNCHANGED <<version, intent, finish, realized, order, task, shown, worker, agreed, faults>>
  BY DEF Reject, p
<1>. USE ProposalAssumption DEF IInv
<1>3. Types'
  BY <1>1, <1>2 DEF Types, States
<1>4. WorkerInv' /\ CarriedInv'
  BY <1>2 DEF WorkerInv, CarriedInv, Handling
<1>5. LogInv'
  BY <1>1, <1>2, StatusMeans DEF LogInv, Types, Versions
<1>. QED
  BY <1>2, <1>3, <1>4, <1>5 DEF Kept

LEMMA AcceptStep ==
  ASSUME IInv, NEW t \in Tabs, Accept(t) PROVE IInv' /\ Kept
<1>. DEFINE p == shown[t].p
<1>1. p \in Proposals /\ version[p] \in Versions /\ version[p] = shown[t].v
  BY ShownProposal DEF Accept, IInv
<1>2. t \in Workers
  BY DEF Workers
<1>. HIDE DEF p
<1>3. /\ \/ /\ Status(p) = "ready"
            /\ intent' = [intent EXCEPT ![p] = version[p]]
            /\ agreed' = [agreed EXCEPT ![p] = version[p]]
            /\ state' = [state EXCEPT ![p] = "executing"]
         \/ UNCHANGED <<intent, agreed, state>>
      /\ worker' = [worker EXCEPT ![t] = [Rest EXCEPT !.pc = "start", !.batch = <<p>>]]
      /\ UNCHANGED <<version, finish, realized, task, shown, faults>>
  BY <1>1 DEF Accept, p
<1>. USE ProposalAssumption DEF IInv
<1>4. Types'
  BY <1>1, <1>3 DEF Types, States
<1>5. LogInv'
  BY <1>1, <1>3, StatusMeans DEF LogInv, Types, Versions
<1>6. Kept
  BY <1>1, <1>3, StatusMeans DEF Kept, Types
<1>7. WorkerInv' /\ \A x \in Workers : worker'[x] = worker[x] \/ worker'[x].pc = "start"
  BY <1>2, <1>3 DEF WorkerInv, Rest
<1>8. CarriedInv'
  BY <1>3, <1>6, <1>7, CarriesOn DEF Kept
<1>. QED
  BY <1>4, <1>5, <1>6, <1>7, <1>8

-----------------------------------------------------------------------------
(* Recovery.                                                               *)

LEMMA SweepStep ==
  ASSUME IInv, NEW s \in Sweepers, Sweep(s) PROVE IInv' /\ Kept
<1>1. s \in Workers
  BY DEF Workers
<1>2. PICK b : worker' = [worker EXCEPT ![s] = [Rest EXCEPT !.pc = "start", !.batch = b]]
  BY DEF Sweep
<1>3. UNCHANGED <<version, intent, finish, realized, state, task, shown, agreed, faults>>
  BY DEF Sweep
<1>. USE DEF IInv
<1>4. Types' /\ LogInv' /\ Kept
  BY <1>3 DEF Types, LogInv, Kept
<1>5. WorkerInv' /\ \A x \in Workers : worker'[x] = worker[x] \/ worker'[x].pc = "start"
  BY <1>1, <1>2 DEF WorkerInv, Rest
<1>6. CarriedInv'
  BY <1>3, <1>5, CarriesOn
<1>. QED
  BY <1>4, <1>5, <1>6

\* A worker that moves on with its batch moves alone.
LEMMA MovedOn ==
  ASSUME WorkerInv, NEW w \in Workers, NEW place,
         worker' = [worker EXCEPT ![w].pc = place]
  PROVE  /\ WorkerInv'
         /\ worker'[w].pc = place /\ worker'[w].params = worker[w].params
         /\ Handling(w)' = Handling(w)
         /\ \A x \in Workers \ {w} : worker'[x] = worker[x]
<1>. DEFINE W(x) == IF x = w THEN [pc |-> place, batch |-> worker[w].batch,
                                  params |-> worker[w].params]
                   ELSE worker[x]
<1>1. DOMAIN worker' = Workers /\ \A x \in Workers : worker'[x] = W(x)
  BY DEF WorkerInv
<1>. QED
  BY <1>1 DEF WorkerInv, Handling

LEMMA MovedWith ==
  ASSUME WorkerInv, NEW w \in Workers, NEW place, NEW carried,
         worker' = [worker EXCEPT ![w].pc = place, ![w].params = carried]
  PROVE  /\ WorkerInv'
         /\ worker'[w].pc = place /\ worker'[w].params = carried /\ Handling(w)' = Handling(w)
         /\ \A x \in Workers \ {w} : worker'[x] = worker[x]
<1>. DEFINE moved == [worker EXCEPT ![w].pc = place]
            now == [pc |-> place, batch |-> worker[w].batch, params |-> carried]
<1>1. /\ moved[w] = [pc |-> place, batch |-> worker[w].batch, params |-> worker[w].params]
      /\ DOMAIN moved = Workers /\ \A x \in Workers \ {w} : moved[x] = worker[x]
  BY DEF WorkerInv
<1>2. worker' = [moved EXCEPT ![w].params = carried]
  OBVIOUS
<1>. HIDE DEF moved
<1>3. worker'[w] = [moved[w] EXCEPT !.params = carried]
  BY <1>1, <1>2
<1>4. worker'[w] = now
  BY <1>1, <1>3
<1>5. DOMAIN worker' = Workers /\ \A x \in Workers \ {w} : worker'[x] = worker[x]
  BY <1>1, <1>2
<1>. QED
  BY <1>4, <1>5 DEF WorkerInv, Handling

LEMMA StartStep ==
  ASSUME IInv, NEW w \in Workers, Start(w) PROVE IInv' /\ Kept
<1>. USE DEF IInv
<1>1. UNCHANGED <<version, intent, finish, realized, state, task, shown, agreed, faults>>
  BY DEF Start, log
<1>2. Types' /\ LogInv' /\ Kept
  BY <1>1 DEF Types, LogInv, Kept
<1>. DEFINE p == Handling(w)
<1>3. CASE /\ Status(p) \in {"executing", "needs_attention"}
           /\ worker' = [worker EXCEPT ![w].pc = "dispatch", ![w].params = intent[p]]
  <2>1. /\ WorkerInv'
        /\ worker'[w].pc = "dispatch" /\ worker'[w].params = intent[p] /\ Handling(w)' = p
        /\ \A x \in Workers \ {w} : worker'[x] = worker[x]
    BY <1>3, MovedWith
  <2>2. p \in Proposals => intent[p] # 0
    BY <1>3, StatusMeans
  <2>3. CarriedInv'
    BY <1>1, <2>1, <2>2 DEF CarriedInv, Handling
  <2>. QED
    BY <1>2, <2>1, <2>3
<1>4. CASE Advance(w)
  BY <1>1, <1>2, <1>4, Advances, CarriesOn
<1>. QED
  BY <1>3, <1>4 DEF Start, Handling

LEMMA DispatchStep ==
  ASSUME IInv, NEW w \in Workers, Dispatch(w) PROVE IInv' /\ Kept
<1>. USE ProposalAssumption DEF IInv
<1>. DEFINE p == Handling(w)
            made == IF task[p] = 0 THEN [task EXCEPT ![p] = worker[w].params] ELSE task
<1>1. /\ worker[w].pc = "dispatch"
      /\ UNCHANGED <<version, intent, finish, realized, state, order, shown, agreed>>
  BY DEF Dispatch, At, log
<1>2. \/ task' = made /\ worker' = [worker EXCEPT ![w].pc = "confirmed"]
      \/ task' \in {task, made} /\ worker' = [worker EXCEPT ![w].pc = "failed"]
  BY DEF Dispatch, Handling
<1>3. faults' \in 0 .. MaxFaults
  BY DEF Dispatch, Types
<1>4. p \in Proposals => worker[w].params = intent[p] /\ intent[p] # 0
  BY <1>1 DEF CarriedInv
<1>5. /\ task' \in [Proposals -> {0} \cup Versions]
      /\ \A q \in Proposals : task[q] # 0 => task'[q] = task[q]
      /\ \A q \in Proposals : task[q] = 0 => task'[q] \in {0, intent[q]}
      /\ task' = made /\ p \in Proposals => task'[p] # 0
  <2>. HIDE DEF p
  <2>1. task' \in {task, made}
    BY <1>2
  <2>. QED
    BY <1>4, <2>1 DEF Types
<1>6. Types' /\ LogInv' /\ Kept
  <2>1. Types'
    BY <1>1, <1>3, <1>5 DEF Types
  <2>2. LogInv'
    BY <1>1, <1>5 DEF LogInv, Types
  <2>. QED
    BY <1>1, <1>5, <2>1, <2>2 DEF Kept
<1>7. CASE task' = made /\ worker' = [worker EXCEPT ![w].pc = "confirmed"]
  <2>. HIDE DEF made
  <2>1. /\ WorkerInv' /\ worker'[w].params = worker[w].params /\ Handling(w)' = p
        /\ \A x \in Workers \ {w} : worker'[x] = worker[x]
    BY <1>7, MovedOn
  <2>2. CarriedInv'
    BY <1>1, <1>4, <1>5, <1>7, <2>1 DEF CarriedInv, Handling
  <2>. QED
    BY <1>6, <2>1, <2>2
<1>8. CASE worker' = [worker EXCEPT ![w].pc = "failed"]
  <2>. HIDE DEF made
  <2>1. /\ WorkerInv' /\ worker'[w].pc = "failed" /\ worker'[w].params = worker[w].params
        /\ Handling(w)' = p
        /\ \A x \in Workers \ {w} : worker'[x] = worker[x]
    BY <1>8, MovedOn
  <2>2. CarriedInv'
    BY <1>1, <1>4, <1>5, <2>1 DEF CarriedInv, Handling
  <2>. QED
    BY <1>6, <2>1, <2>2
<1>. QED
  BY <1>2, <1>7, <1>8

LEMMA RealizeStep ==
  ASSUME IInv, NEW w \in Workers, Realize(w) PROVE IInv' /\ Kept
<1>. USE DEF IInv
<1>. DEFINE p == Handling(w)
<1>1. /\ \/ UNCHANGED log
         \/ /\ finish' = [finish EXCEPT ![p] = "success"]
            /\ realized' = realized \cup {p}
            /\ state' = [state EXCEPT ![p] = "done"]
            /\ UNCHANGED <<version, intent, order>>
      /\ worker[w].pc = "confirmed" /\ Advance(w)
      /\ UNCHANGED <<task, shown, agreed, faults>>
  BY DEF Realize, Handling, At
<1>2. p \in Proposals => intent[p] # 0 /\ task[p] # 0
  BY <1>1 DEF CarriedInv
<1>. HIDE DEF p
<1>3. Types'
  BY <1>1 DEF Types, States, log
<1>4. LogInv'
  BY <1>1, <1>2 DEF LogInv, Types, log
<1>5. Kept
  BY <1>1 DEF Kept, log
<1>. QED
  BY <1>1, <1>3, <1>4, <1>5, Advances, CarriesOn DEF Kept

LEMMA FailStep ==
  ASSUME IInv, NEW w \in Workers, Fail(w) PROVE IInv' /\ Kept
<1>. USE DEF IInv
<1>. DEFINE p == Handling(w)
<1>1. /\ \/ UNCHANGED log
         \/ /\ finish' = [finish EXCEPT ![p] = "failed"]
            /\ state' = [state EXCEPT ![p] = "awaiting_redirect"]
            /\ Status(p) # "realized"
            /\ UNCHANGED <<version, intent, realized, order>>
      /\ worker[w].pc = "failed" /\ Advance(w)
      /\ UNCHANGED <<task, shown, agreed, faults>>
  BY DEF Fail, Handling, At
<1>2. p \in Proposals => intent[p] # 0
  BY <1>1 DEF CarriedInv
<1>. HIDE DEF p
<1>3. Types'
  BY <1>1 DEF Types, States, log
<1>4. LogInv'
  BY <1>1, <1>2, StatusMeans DEF LogInv, Types, log
<1>5. Kept
  BY <1>1 DEF Kept, log
<1>. QED
  BY <1>1, <1>3, <1>4, <1>5, Advances, CarriesOn DEF Kept

LEMMA AbortStep ==
  ASSUME IInv, NEW w \in Workers, Abort(w) PROVE IInv' /\ Kept
<1>. USE DEF IInv
<1>1. faults' \in 0 .. MaxFaults
  BY ProposalAssumption DEF Abort, Types
<1>2. /\ worker' = [worker EXCEPT ![w] = Rest]
      /\ UNCHANGED <<version, intent, finish, realized, state, order, task, shown, agreed>>
  BY DEF Abort, log
<1>3. Types' /\ LogInv' /\ Kept
  BY <1>1, <1>2 DEF Types, LogInv, Kept
<1>4. WorkerInv' /\ \A x \in Workers : worker'[x] = worker[x] \/ worker'[x].pc = "rest"
  BY <1>2 DEF WorkerInv, Rest
<1>. QED
  BY <1>2, <1>3, <1>4, CarriesOn

-----------------------------------------------------------------------------
LEMMA StepHolds == IInv /\ [Next]_vars => IInv' /\ (Kept \/ UNCHANGED vars)
<1>. SUFFICES ASSUME IInv, [Next]_vars PROVE IInv' /\ (Kept \/ UNCHANGED vars)
  OBVIOUS
<1>1. CASE Next
  BY <1>1, CreateStep, ShowStep, ReviseStep, RejectStep, AcceptStep, SweepStep, StartStep,
     DispatchStep, RealizeStep, FailStep, AbortStep, Zenon DEF Next, Reconcile
<1>2. CASE UNCHANGED vars
  BY <1>2 DEF vars, log, IInv, Types, WorkerInv, LogInv, CarriedInv, Handling
<1>. QED
  BY <1>1, <1>2

\* The inductive invariant holds in every reachable state.
LEMMA Invariance == Spec => []IInv
<1>1. Init => IInv
  BY InitHolds
<1>2. IInv /\ [Next]_vars => IInv'
  BY StepHolds
<1>. QED
  BY <1>1, <1>2, PTL DEF Spec

-----------------------------------------------------------------------------
(* Theorems.                                                               *)

\* Whoever carries an accepted proposal out, and however often, its task is made of
\* the version that was on the screen, a realization has its task, and a rejected
\* proposal has none.
THEOREM ApprovedOnly == Spec => []OnlyWhatWasApproved
<1>1. IInv => OnlyWhatWasApproved
  BY StatusMeans DEF IInv, LogInv, OnlyWhatWasApproved, Types
<1>. QED
  BY <1>1, Invariance, PTL

\* The cached state of a proposal never disagrees with its log.
THEOREM CacheFollows == Spec => []StateFollowsTheLog
<1>1. IInv => StateFollowsTheLog
  <2>. SUFFICES ASSUME IInv, NEW p \in Proposals, version[p] # 0
                PROVE  state[p] = CASE Status(p) = "ready" -> "awaiting_confirmation"
                                    [] Status(p) = "rejected" -> "dismissed"
                                    [] Status(p) = "executing" -> "executing"
                                    [] Status(p) = "needs_attention" -> "awaiting_redirect"
                                    [] Status(p) = "realized" -> "done"
                                    [] OTHER -> "none"
    BY DEF StateFollowsTheLog
  <2>1. CASE p \in realized
    BY <2>1 DEF IInv, LogInv, Status
  <2>2. CASE p \notin realized /\ intent[p] # 0
    BY <2>2 DEF IInv, LogInv, Status
  <2>3. CASE p \notin realized /\ intent[p] = 0
    BY <2>3 DEF IInv, LogInv, Status
  <2>. QED
    BY <2>1, <2>2, <2>3
<1>. QED
  BY <1>1, Invariance, PTL

\* No step takes a decision, a task or a realization back.
THEOREM Final == Spec => DecisionsAreFinal
<1>1. IInv /\ [Next]_vars => [Kept]_vars
  BY StepHolds DEF vars
<1>2. [Kept]_vars => [\A p \in Proposals :
          /\ intent[p] # 0 => intent'[p] = intent[p]
          /\ task[p] # 0 => task'[p] = task[p]
          /\ p \in realized => p \in realized']_vars
  BY DEF Kept
<1>. QED
  BY <1>1, <1>2, Invariance, PTL DEF Spec, DecisionsAreFinal
=============================================================================
