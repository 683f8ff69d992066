----------------------- MODULE InferenceBrokerProofs -----------------------
(***************************************************************************)
(* Proofs about InferenceBroker, for every number of callers and every set *)
(* of configurations.  The inductive invariant is IInv: the types, the two *)
(* counters agreeing with the threads they count, and no lost wakeup.  The *)
(* types alone are not inductive: that a release leaves in_flight >= 0     *)
(* needs the counter to be the number of holders.                          *)
(***************************************************************************)
EXTENDS InferenceBroker, FiniteSetTheorems, TLAPS

IInv == TypeOK /\ CountersMatchThreads /\ NoLostWakeup

\* Adding or removing one caller changes a count by at most one.
LEMMA CountOne ==
  ASSUME NEW S \in SUBSET Callers, NEW c \in Callers
  PROVE  /\ Cardinality(S) \in Nat
         /\ c \in S => /\ Cardinality(S) > 0
                       /\ Cardinality(S \cup {c}) = Cardinality(S)
                       /\ Cardinality(S \ {c}) = Cardinality(S) - 1
         /\ c \notin S => /\ Cardinality(S \cup {c}) = Cardinality(S) + 1
                          /\ Cardinality(S \ {c}) = Cardinality(S)
<1>1. IsFiniteSet(S)
  BY FS_Subset, CallersAssumption
<1>2. Cardinality(S) \in Nat
  BY <1>1, FS_CardinalityType
<1>3. c \in S => Cardinality(S) # 0
  BY <1>1, FS_EmptySet
<1>4. Cardinality(S \cup {c}) = IF c \in S THEN Cardinality(S)
                                           ELSE Cardinality(S) + 1
  BY <1>1, FS_AddElement
<1>5. Cardinality(S \ {c}) = IF c \in S THEN Cardinality(S) - 1
                                        ELSE Cardinality(S)
  BY <1>1, FS_RemoveElement
<1>. QED
  BY <1>2, <1>3, <1>4, <1>5

\* Where one thread goes decides how the sets of holders and waiters change.
LEMMA MoveOne ==
  ASSUME TypeOK, NEW c \in Callers, NEW l, Goto(c, l), UNCHANGED prio
  PROVE  /\ Holders' = IF l \in {"running", "finished"} THEN Holders \cup {c}
                                                        ELSE Holders \ {c}
         /\ \A p \in Priority :
              Waiters(p)' = IF l = "waiting" /\ prio[c] = p
                              THEN Waiters(p) \cup {c} ELSE Waiters(p) \ {c}
  BY DEF TypeOK, Goto, Holders, In, Waiters

LEMMA InitHolds == Init => IInv
<1>. SUFFICES ASSUME Init PROVE IInv
  OBVIOUS
<1>1. TypeOK
  BY DEF Init, TypeOK, In, Priority
<1>2. Holders = {} /\ \A p \in Priority : Waiters(p) = {}
  BY DEF Init, Holders, In, Waiters
<1>3. CountersMatchThreads
  BY <1>2, FS_EmptySet DEF CountersMatchThreads, Init
<1>. QED
  BY <1>1, <1>3 DEF IInv, NoLostWakeup, Init

\* The queue half of CountersMatchThreads: joining adds one to the count of
\* the ticket's class, leaving takes one off, anything else is outside.
LEMMA QueueStep ==
  ASSUME TypeOK, CountersMatchThreads,
         NEW c \in Callers, NEW l, Goto(c, l), UNCHANGED prio,
         \/ /\ pc[c] # "waiting" /\ l = "waiting"
            /\ waiting' = [waiting EXCEPT ![prio[c]] = @ + 1]
         \/ /\ pc[c] = "waiting" /\ l # "waiting"
            /\ waiting' = [waiting EXCEPT ![prio[c]] = @ - 1]
         \/ /\ pc[c] # "waiting" /\ l # "waiting"
            /\ waiting' = waiting
  PROVE  /\ waiting' \in [Priority -> Nat]
         /\ \A p \in Priority : waiting'[p] = Cardinality(Waiters(p)')
<1>1. ASSUME NEW p \in Priority
      PROVE  waiting'[p] = Cardinality(Waiters(p)') /\ waiting'[p] \in Nat
  <2>1. /\ waiting[p] = Cardinality(Waiters(p))
        /\ waiting[p] \in Nat
        /\ Waiters(p) \in SUBSET Callers
        /\ c \in Waiters(p) <=> pc[c] = "waiting" /\ prio[c] = p
    BY DEF CountersMatchThreads, TypeOK, Waiters
  <2>2. Waiters(p)' = IF l = "waiting" /\ prio[c] = p
                        THEN Waiters(p) \cup {c} ELSE Waiters(p) \ {c}
    BY MoveOne
  <2>3. CASE prio[c] # p
    <3>1. c \notin Waiters(p) /\ waiting'[p] = waiting[p]
      BY <2>1, <2>3 DEF TypeOK
    <3>. QED
      BY <2>1, <2>2, <2>3, <3>1, CountOne
  <2>4. CASE prio[c] = p
    <3>1. waiting'[p] = IF l = "waiting" THEN waiting[p] + 1
                        ELSE IF pc[c] = "waiting" THEN waiting[p] - 1
                        ELSE waiting[p]
      BY <2>4 DEF TypeOK
    <3>2. Waiters(p)' = IF l = "waiting" THEN Waiters(p) \cup {c} ELSE Waiters(p) \ {c}
      BY <2>2, <2>4
    <3>3. c \in Waiters(p) <=> pc[c] = "waiting"
      BY <2>1, <2>4
    <3>4. CASE pc[c] # "waiting" /\ l = "waiting"
      <4>1. Cardinality(Waiters(p) \cup {c}) = Cardinality(Waiters(p)) + 1
        BY <2>1, <3>3, <3>4, CountOne
      <4>. QED
        BY <2>1, <3>1, <3>2, <3>4, <4>1
    <3>5. CASE pc[c] = "waiting" /\ l # "waiting"
      <4>1. /\ Cardinality(Waiters(p) \ {c}) = Cardinality(Waiters(p)) - 1
            /\ Cardinality(Waiters(p)) > 0
        BY <2>1, <3>3, <3>5, CountOne
      <4>. QED
        BY <2>1, <3>1, <3>2, <3>5, <4>1
    <3>6. CASE pc[c] # "waiting" /\ l # "waiting"
      BY <2>1, <3>1, <3>2, <3>3, <3>6, CountOne
    <3>. QED
      BY <3>4, <3>5, <3>6
  <2>. QED
    BY <2>3, <2>4
<1>2. waiting' = [p \in Priority |-> waiting'[p]]
  BY DEF TypeOK
<1>. QED
  BY <1>1, <1>2

\* The slot half: in_flight follows the threads into and out of the slot.
LEMMA SlotStep ==
  ASSUME TypeOK, CountersMatchThreads,
         NEW c \in Callers, NEW l, Goto(c, l), UNCHANGED prio,
         LET holds == pc[c] \in {"running", "finished"}
             will  == l \in {"running", "finished"}
         IN  \/ ~holds /\ will /\ in_flight' = in_flight + 1
             \/ holds /\ ~will /\ in_flight' = in_flight - 1
             \/ (holds <=> will) /\ in_flight' = in_flight
  PROVE  in_flight' \in Nat /\ in_flight' = Cardinality(Holders')
<1>1. /\ in_flight = Cardinality(Holders)
      /\ Holders \in SUBSET Callers
      /\ c \in Holders <=> pc[c] \in {"running", "finished"}
  BY DEF CountersMatchThreads, Holders, In
<1>2. Holders' = IF l \in {"running", "finished"} THEN Holders \cup {c}
                                                  ELSE Holders \ {c}
  BY MoveOne
<1>. QED
  BY <1>1, <1>2, CountOne

\* The types and the counters are inductive together.
LEMMA CountersStep == TypeOK /\ CountersMatchThreads /\ [Next]_vars
                        => TypeOK' /\ CountersMatchThreads'
<1>. SUFFICES ASSUME TypeOK, CountersMatchThreads, [Next]_vars
              PROVE  TypeOK' /\ CountersMatchThreads'
  OBVIOUS
<1>1. ASSUME NEW c \in Callers, NEW p \in Priority, Submit(c, p)
      PROVE  TypeOK' /\ CountersMatchThreads'
  <2>1. Holders' = Holders /\ \A q \in Priority : Waiters(q)' = Waiters(q)
    BY <1>1 DEF TypeOK, Submit, Goto, Holders, In, Waiters
  <2>2. CountersMatchThreads'
    BY <1>1, <2>1 DEF CountersMatchThreads, Submit
  <2>. QED
    BY <1>1, <2>2 DEF TypeOK, Submit, Goto, In
<1>2. ASSUME NEW c \in Callers, Expire(c)
      PROVE  TypeOK' /\ CountersMatchThreads'
  BY <1>2 DEF TypeOK, CountersMatchThreads, Expire, Holders, In, Waiters
<1>3. ASSUME NEW c \in Callers, Enter(c) \/ AdmitWaiter(c) \/ TimeOut(c)
      PROVE  TypeOK' /\ CountersMatchThreads'
  <2>. PICK l \in {"idle", "unslotted", "waiting", "running"} : Goto(c, l)
    BY <1>3 DEF Enter, QueueFull, AdmitAtOnce, GiveUpAtOnce, BeginWait,
                AdmitWaiter, TimeOut, Refuse, Goto
  <2>1. /\ pc[c] \in {"entering", "waiting"}
        /\ pc' = [pc EXCEPT ![c] = l]
        /\ UNCHANGED <<cfg, prio, expired>>
    BY <1>3 DEF Enter, QueueFull, AdmitAtOnce, GiveUpAtOnce, BeginWait,
                AdmitWaiter, TimeOut, Awake, Goto
  <2>2. \/ /\ pc[c] # "waiting" /\ l = "waiting"
           /\ waiting' = [waiting EXCEPT ![prio[c]] = @ + 1]
        \/ /\ pc[c] = "waiting" /\ l # "waiting"
           /\ waiting' = [waiting EXCEPT ![prio[c]] = @ - 1]
        \/ /\ pc[c] # "waiting" /\ l # "waiting"
           /\ waiting' = waiting
    <3>1. pc'[c] = l
      BY <2>1 DEF TypeOK
    <3>. QED
      BY <1>3, <3>1 DEF Enter, QueueFull, AdmitAtOnce, GiveUpAtOnce, BeginWait,
                AdmitWaiter, TimeOut, Awake, Refuse, Goto, LeaveQueue, TypeOK
  <2>3. IF l = "running" THEN in_flight' = in_flight + 1 ELSE in_flight' = in_flight
    <3>1. pc'[c] = l
      BY <2>1 DEF TypeOK
    <3>. QED
      BY <1>3, <3>1 DEF Enter, QueueFull, AdmitAtOnce, GiveUpAtOnce, BeginWait,
                AdmitWaiter, TimeOut, Awake, Refuse, Goto, TypeOK
  <2>4. /\ waiting' \in [Priority -> Nat]
        /\ \A p \in Priority : waiting'[p] = Cardinality(Waiters(p)')
    BY <2>1, <2>2, QueueStep
  <2>5. in_flight' \in Nat /\ in_flight' = Cardinality(Holders')
    BY <2>1, <2>3, SlotStep
  <2>6. asleep' \subseteq In({"waiting"})'
    <3>1. \/ asleep' = {}
          \/ asleep' = asleep /\ pc[c] = "entering"
          \/ asleep' = asleep \cup {c} /\ pc'[c] = "waiting"
      BY <1>3 DEF Enter, QueueFull, AdmitAtOnce, GiveUpAtOnce, BeginWait, Goto,
                  AdmitWaiter, TimeOut, NotifyAll, LeaveQueue, TypeOK
    <3>. QED
      BY <2>1, <3>1 DEF TypeOK, In
  <2>. QED
    BY <2>1, <2>4, <2>5, <2>6 DEF TypeOK, CountersMatchThreads
<1>4. ASSUME NEW c \in Callers, WaitAgain(c)
      PROVE  TypeOK' /\ CountersMatchThreads'
  BY <1>4 DEF TypeOK, CountersMatchThreads, WaitAgain, Awake, Holders, In, Waiters
<1>5. ASSUME NEW c \in Callers, EndBody(c) \/ Release(c) \/ EndUnslotted(c)
      PROVE  TypeOK' /\ CountersMatchThreads'
  <2>1. PICK l \in {"finished", "idle"} :
          /\ Goto(c, l)
          /\ UNCHANGED <<cfg, prio, waiting, expired>>
          /\ pc[c] \notin {"waiting", "entering"}
          /\ \/ pc[c] = "running" /\ l = "finished" /\ in_flight' = in_flight
             \/ pc[c] = "finished" /\ l = "idle" /\ in_flight' = in_flight - 1
             \/ pc[c] = "unslotted" /\ l = "idle" /\ in_flight' = in_flight
    BY <1>5 DEF EndBody, Release, EndUnslotted
  <2>2. /\ waiting' \in [Priority -> Nat]
        /\ \A p \in Priority : waiting'[p] = Cardinality(Waiters(p)')
    BY <2>1, QueueStep
  <2>3. in_flight' \in Nat /\ in_flight' = Cardinality(Holders')
    BY <2>1, SlotStep
  <2>4. asleep' \subseteq In({"waiting"})'
    BY <1>5, <2>1 DEF EndBody, Release, EndUnslotted, NotifyAll, Goto, TypeOK, In
  <2>. QED
    BY <2>1, <2>2, <2>3, <2>4 DEF TypeOK, CountersMatchThreads, Goto
<1>6. ASSUME NEW k \in Configs, Reconfigure(k)
      PROVE  TypeOK' /\ CountersMatchThreads'
  BY <1>6 DEF TypeOK, CountersMatchThreads, Reconfigure, NotifyAll, Holders, In, Waiters
<1>7. CASE UNCHANGED vars
  BY <1>7 DEF TypeOK, CountersMatchThreads, vars, Holders, In, Waiters
<1>. QED
  BY <1>1, <1>2, <1>3, <1>4, <1>5, <1>6, <1>7 DEF Next, Resume

\* Everything that can make a sleeping thread admissible wakes them all, and
\* what puts a thread to sleep has just seen that it is not.
LEMMA WakeupStep == TypeOK /\ NoLostWakeup /\ [Next]_vars => NoLostWakeup'
<1>. SUFFICES ASSUME TypeOK, NoLostWakeup, [Next]_vars
              PROVE  NoLostWakeup'
  OBVIOUS
<1>1. ASSUME asleep' = {} PROVE NoLostWakeup'
  BY <1>1 DEF NoLostWakeup
<1>2. ASSUME NEW c \in Callers, NEW p \in Priority, Submit(c, p)
      PROVE  NoLostWakeup'
  BY <1>2 DEF NoLostWakeup, TypeOK, In, Submit, CanAdmit
<1>3. ASSUME UNCHANGED <<cfg, in_flight, waiting, prio, asleep>>
      PROVE  NoLostWakeup'
  BY <1>3 DEF NoLostWakeup, CanAdmit
<1>4. ASSUME NEW c \in Callers, BeginWait(c)
      PROVE  NoLostWakeup'
  <2>1. \A p \in Priority : CanAdmit(p)' => CanAdmit(p)
    BY <1>4 DEF BeginWait, CanAdmit, TypeOK, Priority
  <2>. QED
    BY <1>4, <2>1 DEF BeginWait, NoLostWakeup, TypeOK, In
<1>5. ASSUME NEW c \in Callers, WaitAgain(c)
      PROVE  NoLostWakeup'
  BY <1>5 DEF WaitAgain, NoLostWakeup, CanAdmit
<1>6. ASSUME NEW c \in Callers, Enter(c) \/ Resume(c)
      PROVE  NoLostWakeup'
  BY <1>1, <1>3, <1>4, <1>5, <1>6
     DEF Enter, QueueFull, AdmitAtOnce, GiveUpAtOnce, Resume, AdmitWaiter,
         TimeOut, LeaveQueue, NotifyAll
<1>7. ASSUME NEW c \in Callers,
             Expire(c) \/ EndBody(c) \/ Release(c) \/ EndUnslotted(c)
      PROVE  NoLostWakeup'
  BY <1>1, <1>3, <1>7 DEF Expire, EndBody, Release, EndUnslotted, NotifyAll
<1>8. ASSUME NEW k \in Configs, Reconfigure(k)
      PROVE  NoLostWakeup'
  BY <1>1, <1>8 DEF Reconfigure, NotifyAll
<1>. QED
  BY <1>2, <1>3, <1>6, <1>7, <1>8 DEF Next, vars

\* The broker's state is always well typed, its counters are the numbers of
\* threads they stand for, and no thread sleeps through its chance.
THEOREM Invariance == Spec => []IInv
<1>1. IInv /\ [Next]_vars => IInv'
  BY CountersStep, WakeupStep DEF IInv
<1>. QED
  BY InitHolds, <1>1, PTL DEF Spec

\* The types of the variables: no counter goes below zero (broker.py:364, 371).
THEOREM TypeCorrect == Spec => []TypeOK
  BY Invariance, PTL DEF IInv

\* No path through admit() and slot() leaks a slot or a waiting ticket.
THEOREM NothingLeaks == Spec => []CountersMatchThreads
  BY Invariance, PTL DEF IInv

\* A thread that nobody woke could not have been admitted.
THEOREM NoWakeupIsLost == Spec => []NoLostWakeup
  BY Invariance, PTL DEF IInv

----------------------------------------------------------------------------
(* What the steps do, from the invariant. *)

\* A class the predicate finds empty has nobody waiting in it.
LEMMA AdmittedIsMostUrgent ==
  ASSUME IInv, NEW p \in Priority, CanAdmit(p)
  PROVE  \A d \in Callers : pc[d] = "waiting" => prio[d] >= p
<1>1. SUFFICES ASSUME NEW d \in Callers, pc[d] = "waiting", prio[d] < p
               PROVE  FALSE
  BY DEF IInv, TypeOK, Priority
<1>2. prio[d] \in Priority /\ d \in Waiters(prio[d])
  BY <1>1 DEF IInv, TypeOK, Waiters
<1>3. IsFiniteSet(Waiters(prio[d]))
  BY FS_Subset, CallersAssumption DEF Waiters
<1>4. Cardinality(Waiters(prio[d])) = 0
  BY <1>1, <1>2 DEF IInv, CountersMatchThreads, CanAdmit
<1>. QED
  BY <1>2, <1>3, <1>4, FS_EmptySet

\* Only an admission raises in_flight or brings a thread to its body.
LEMMA OnlyAdmissionsAdmit ==
  ASSUME TypeOK, [Next]_vars
  PROVE  /\ in_flight' > in_flight =>
              \E c \in Callers : AdmitAtOnce(c) \/ AdmitWaiter(c)
         /\ \A c \in Callers : pc'[c] = "running" /\ pc[c] # "running" =>
              AdmitAtOnce(c) \/ AdmitWaiter(c)
<1>. USE DEF TypeOK, Goto
<1>1. ASSUME NEW d \in Callers, NEW p \in Priority, Submit(d, p)
      PROVE  /\ ~(in_flight' > in_flight)
             /\ \A c \in Callers : pc'[c] = "running" => pc[c] = "running"
  BY <1>1 DEF Submit
<1>2. ASSUME NEW d \in Callers,
             \/ Expire(d) \/ QueueFull(d) \/ GiveUpAtOnce(d) \/ BeginWait(d)
             \/ TimeOut(d) \/ WaitAgain(d) \/ EndBody(d) \/ Release(d)
             \/ EndUnslotted(d)
      PROVE  /\ ~(in_flight' > in_flight)
             /\ \A c \in Callers : pc'[c] = "running" => pc[c] = "running"
  BY <1>2 DEF Expire, QueueFull, GiveUpAtOnce, BeginWait, TimeOut, WaitAgain,
              EndBody, Release, EndUnslotted, Refuse
<1>3. ASSUME NEW d \in Callers, AdmitAtOnce(d) \/ AdmitWaiter(d)
      PROVE  \A c \in Callers : pc'[c] = "running" /\ pc[c] # "running" => c = d
  BY <1>3 DEF AdmitAtOnce, AdmitWaiter
<1>4. ASSUME (\E k \in Configs : Reconfigure(k)) \/ UNCHANGED vars
      PROVE  /\ ~(in_flight' > in_flight)
             /\ \A c \in Callers : pc'[c] = "running" => pc[c] = "running"
  BY <1>4 DEF Reconfigure, vars
<1>. QED
  BY <1>1, <1>2, <1>3, <1>4 DEF Next, Enter, Resume

\* No admission takes in_flight above the max_concurrent of that moment,
\* whatever reconfigure does in between (broker.py:318, 360).
THEOREM CapacityRespected == Spec => NeverOverAdmit
<1>1. IInv /\ [Next]_vars
        => [in_flight' > in_flight => in_flight' <= cfg'.max_concurrent]_vars
  <2>. SUFFICES ASSUME IInv, [Next]_vars, in_flight' > in_flight
                PROVE  in_flight' <= cfg'.max_concurrent
    OBVIOUS
  <2>1. PICK c \in Callers : AdmitAtOnce(c) \/ AdmitWaiter(c)
    BY OnlyAdmissionsAdmit DEF IInv
  <2>2. cfg.max_concurrent \in Nat
    BY ConfigsAssumption DEF IInv, TypeOK
  <2>. QED
    BY <2>1, <2>2 DEF AdmitAtOnce, AdmitWaiter, CanAdmit, IInv, TypeOK
<1>. QED
  BY Invariance, <1>1, PTL DEF Spec, NeverOverAdmit

\* No thread is admitted while one of a more urgent class waits (broker.py:322).
THEOREM UrgentFirst == Spec => NoPriorityInversion
<1>1. IInv /\ [Next]_vars
        => [\A c \in Callers :
              pc'[c] = "running" /\ pc[c] # "running" =>
                \A d \in Callers : pc[d] = "waiting" => prio[d] >= prio[c]]_vars
  <2>. SUFFICES ASSUME IInv, [Next]_vars, NEW c \in Callers,
                       pc'[c] = "running", pc[c] # "running"
                PROVE  \A d \in Callers : pc[d] = "waiting" => prio[d] >= prio[c]
    OBVIOUS
  <2>1. AdmitAtOnce(c) \/ AdmitWaiter(c)
    BY OnlyAdmissionsAdmit DEF IInv
  <2>2. CanAdmit(prio[c]) /\ prio[c] \in Priority
    BY <2>1 DEF AdmitAtOnce, AdmitWaiter, IInv, TypeOK
  <2>. QED
    BY <2>2, AdmittedIsMostUrgent
<1>. QED
  BY Invariance, <1>1, PTL DEF Spec, NoPriorityInversion

----------------------------------------------------------------------------
(* The refinement of AdmissionGate. *)

Queue == {<<c, prio[c]>> : c \in In({"waiting"})}

\* How the abstract queue and the abstract holders follow one thread's move.
LEMMA GateMove ==
  ASSUME TypeOK, NEW c \in Callers, NEW l, Goto(c, l), UNCHANGED prio
  PROVE  /\ l = "waiting" => Queue' = Queue \cup {<<c, prio[c]>>}
         /\ l # "waiting" => Queue' = Queue \ {<<c, prio[c]>>}
         /\ (\E w \in Queue : w[1] = c) <=> pc[c] = "waiting"
         /\ <<c, prio[c]>> \in Queue <=> pc[c] = "waiting"
         /\ \A w \in Queue : w[1] = c => w[2] = prio[c]
<1>1. \A d \in Callers : pc'[d] = IF d = c THEN l ELSE pc[d]
  BY DEF TypeOK, Goto
<1>2. In({"waiting"})' = IF l = "waiting" THEN In({"waiting"}) \cup {c}
                                          ELSE In({"waiting"}) \ {c}
  BY <1>1 DEF In
<1>3. Queue' = {<<d, prio[d]>> : d \in In({"waiting"})'}
  BY DEF Queue
<1>4. \A d \in Callers : <<d, prio[d]>> \in Queue <=> d \in In({"waiting"})
  BY DEF Queue, In
<1>5. ASSUME l = "waiting" PROVE Queue' = Queue \cup {<<c, prio[c]>>}
  BY <1>2, <1>3, <1>5 DEF Queue
<1>6. ASSUME l # "waiting" PROVE Queue' = Queue \ {<<c, prio[c]>>}
  <2>1. \A d \in In({"waiting"}) : d # c => <<d, prio[d]>> # <<c, prio[c]>>
    OBVIOUS
  <2>2. Queue' = {<<d, prio[d]>> : d \in In({"waiting"}) \ {c}}
    BY <1>2, <1>3, <1>6
  <2>. QED
    BY <2>1, <2>2 DEF Queue
<1>7. /\ (\E w \in Queue : w[1] = c) <=> pc[c] = "waiting"
      /\ <<c, prio[c]>> \in Queue <=> pc[c] = "waiting"
      /\ \A w \in Queue : w[1] = c => w[2] = prio[c]
  <2>1. \A w \in Queue : \E d \in Callers :
          pc[d] = "waiting" /\ w = <<d, prio[d]>>
    BY DEF Queue, In
  <2>2. \A w \in Queue : w[1] = c => pc[c] = "waiting" /\ w = <<c, prio[c]>>
    BY <2>1
  <2>3. pc[c] = "waiting" => <<c, prio[c]>> \in Queue
    BY DEF Queue, In
  <2>. QED
    BY <2>2, <2>3
<1>. QED
  BY <1>5, <1>6, <1>7

LEMMA GateStep == IInv /\ [Next]_vars => [Gate!Next]_(Gate!vars)
<1>. SUFFICES ASSUME IInv, [Next]_vars PROVE [Gate!Next]_(Gate!vars)
  OBVIOUS
<1>. USE DEF Gate!vars
<1>1. TypeOK /\ CountersMatchThreads
  BY DEF IInv
<1>2. ASSUME UNCHANGED <<Queue, Holders, cfg>> PROVE UNCHANGED Gate!vars
  BY <1>2 DEF Queue
<1>3. ASSUME NEW c \in Callers, NEW p \in Priority, Submit(c, p)
      PROVE  UNCHANGED <<Queue, Holders, cfg>>
  <2>1. In({"waiting"})' = In({"waiting"}) /\ Holders' = Holders
    BY <1>1, <1>3 DEF Submit, Goto, TypeOK, In, Holders
  <2>2. \A d \in In({"waiting"}) : prio'[d] = prio[d]
    BY <1>1, <1>3 DEF Submit, TypeOK, In
  <2>. QED
    BY <1>3, <2>1, <2>2 DEF Queue, Submit
<1>4. ASSUME NEW c \in Callers, Expire(c) \/ WaitAgain(c)
      PROVE  UNCHANGED <<Queue, Holders, cfg>>
  BY <1>4 DEF Expire, WaitAgain, Queue, Holders, In
<1>5. ASSUME NEW c \in Callers, AdmitAtOnce(c) \/ AdmitWaiter(c)
      PROVE  \E p \in Priority : Gate!Grant(c, p)
  <2>. PICK p \in Priority : p = prio[c]
    BY <1>1 DEF TypeOK
  <2>1. /\ Goto(c, "running") /\ UNCHANGED <<prio, cfg>> /\ CanAdmit(prio[c])
        /\ pc[c] \in {"entering", "waiting"}
    BY <1>5 DEF AdmitAtOnce, AdmitWaiter, Awake
  <2>2. c \notin Holders /\ Holders' = Holders \cup {c}
    BY <1>1, <2>1, MoveOne DEF Holders, In
  <2>3. Gate!Cardinality(Holders) < cfg.max_concurrent
    <3>1. Gate!Cardinality(Holders) = Cardinality(Holders)
      BY DEF Gate!Cardinality, Cardinality
    <3>. QED
      BY <1>1, <2>1, <3>1 DEF CanAdmit, CountersMatchThreads
  <2>4. \A w \in Queue : w[2] >= prio[c]
    BY <1>1, <2>1, AdmittedIsMostUrgent DEF Queue, In, TypeOK
  <2>5. /\ Queue' = Queue \ {<<c, prio[c]>>}
        /\ \A w \in Queue : w[1] = c => w[2] = prio[c]
    <3>1. PICK m : Goto(c, m) /\ m # "waiting"
      BY <2>1
    <3>2. UNCHANGED prio
      BY <2>1
    <3>3. Queue' = Queue \ {<<c, prio[c]>>}
      BY <1>1, <3>1, <3>2, GateMove
    <3>4. \A w \in Queue : w[1] = c => w[2] = prio[c]
      BY <1>1, <3>1, <3>2, GateMove
    <3>. QED
      BY <3>3, <3>4
  <2>6. Gate!Grant(c, p)
    BY <2>1, <2>2, <2>3, <2>4, <2>5 DEF Gate!Grant, Queue
  <2>. QED
    BY <2>6
<1>6. ASSUME NEW c \in Callers, BeginWait(c)
      PROVE  \E p \in Priority : Gate!Join(c, p)
  <2>. PICK p \in Priority : p = prio[c]
    BY <1>1 DEF TypeOK
  <2>1. Goto(c, "waiting") /\ UNCHANGED <<prio, cfg>> /\ pc[c] = "entering"
    BY <1>6 DEF BeginWait
  <2>2. c \notin Holders /\ Holders' = Holders
    BY <1>1, <2>1, MoveOne DEF Holders, In
  <2>3. Queue' = Queue \cup {<<c, prio[c]>>} /\ ~(\E w \in Queue : w[1] = c)
    BY <1>1, <2>1, GateMove
  <2>4. Gate!Join(c, p)
    BY <2>1, <2>2, <2>3 DEF Gate!Join, Gate!IsQueued, Queue
  <2>. QED
    BY <2>4
<1>7. ASSUME NEW c \in Callers, TimeOut(c)
      PROVE  \E p \in Priority : Gate!Withdraw(c, p)
  <2>. PICK p \in Priority : p = prio[c]
    BY <1>1 DEF TypeOK
  <2>1. PICK l \in {"idle", "unslotted"} : Goto(c, l)
    BY <1>7 DEF TimeOut, Refuse
  <2>2. UNCHANGED <<prio, cfg>> /\ pc[c] = "waiting"
    BY <1>7 DEF TimeOut, Awake
  <2>3. Holders' = Holders
    BY <1>1, <2>1, <2>2, MoveOne DEF Holders, In
  <2>4. Queue' = Queue \ {<<c, prio[c]>>} /\ <<c, prio[c]>> \in Queue
    BY <1>1, <2>1, <2>2, GateMove
  <2>5. Gate!Withdraw(c, p)
    BY <2>2, <2>3, <2>4 DEF Gate!Withdraw, Queue
  <2>. QED
    BY <2>5
<1>8. ASSUME NEW c \in Callers, Release(c)
      PROVE  Gate!Return(c)
  <2>1. Goto(c, "idle") /\ UNCHANGED <<prio, cfg>> /\ pc[c] = "finished"
    BY <1>8 DEF Release
  <2>2. c \in Holders /\ Holders' = Holders \ {c}
    BY <1>1, <2>1, MoveOne DEF Holders, In
  <2>3. Queue' = Queue
    <3>1. PICK m : Goto(c, m) /\ m # "waiting"
      BY <2>1
    <3>2. UNCHANGED prio /\ pc[c] # "waiting"
      BY <2>1
    <3>3. Queue' = Queue \ {<<c, prio[c]>>} /\ <<c, prio[c]>> \notin Queue
      BY <1>1, <3>1, <3>2, GateMove
    <3>. QED
      BY <3>3
  <2>. QED
    BY <2>1, <2>2, <2>3 DEF Gate!Return, Queue
<1>9. ASSUME NEW c \in Callers,
             QueueFull(c) \/ GiveUpAtOnce(c) \/ EndBody(c) \/ EndUnslotted(c)
      PROVE  UNCHANGED <<Queue, Holders, cfg>>
  <2>1. PICK l \in {"idle", "unslotted", "finished"} :
          /\ Goto(c, l) /\ UNCHANGED <<prio, cfg>> /\ pc[c] # "waiting"
          /\ (l = "finished") <=> (pc[c] \in {"running", "finished"})
    BY <1>9 DEF QueueFull, GiveUpAtOnce, EndBody, EndUnslotted, Refuse
  <2>2. Holders' = Holders
    BY <1>1, <2>1, MoveOne DEF Holders, In
  <2>3. Queue' = Queue
    <3>1. PICK m : Goto(c, m) /\ m # "waiting"
      BY <2>1
    <3>2. UNCHANGED prio /\ pc[c] # "waiting"
      BY <2>1
    <3>3. Queue' = Queue \ {<<c, prio[c]>>} /\ <<c, prio[c]>> \notin Queue
      BY <1>1, <3>1, <3>2, GateMove
    <3>. QED
      BY <3>3
  <2>. QED
    BY <2>1, <2>2, <2>3
<1>10. ASSUME NEW k \in Configs, Reconfigure(k)
       PROVE  Gate!Resize(k.max_concurrent)
  BY <1>10 DEF Reconfigure, Gate!Resize, Queue, Holders, In
<1>11. CASE UNCHANGED vars
  BY <1>11 DEF vars, Queue, Holders, In
<1>12. ASSUME NEW c \in Callers, Enter(c) \/ Resume(c)
       PROVE  Gate!Next \/ UNCHANGED Gate!vars
  <2>1. \/ \E p \in Priority :
             Gate!Join(c, p) \/ Gate!Grant(c, p) \/ Gate!Withdraw(c, p)
        \/ UNCHANGED <<Queue, Holders, cfg>>
    BY <1>4, <1>5, <1>6, <1>7, <1>9, <1>12 DEF Enter, Resume
  <2>. QED
    BY <1>2, <2>1 DEF Gate!Next
<1>. QED
  BY <1>2, <1>3, <1>4, <1>8, <1>9, <1>10, <1>11, <1>12 DEF Next, Gate!Next

\* Behind its lock, counters and wakeups the broker is the admission gate.
THEOREM Refinement == Spec => ImplementsGate
<1>1. Init => Gate!Init
  BY DEF Init, Gate!Init, In, Holders
<1>. QED
  BY <1>1, Invariance, GateStep, PTL DEF Spec, ImplementsGate
=============================================================================
