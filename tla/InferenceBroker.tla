-------------------------- MODULE InferenceBroker --------------------------
(***************************************************************************)
(* One profile of the local-inference broker                               *)
(* (work_buddy/inference/broker.py): a slot counter, a count of waiting    *)
(* tickets per priority class, and one condition variable that every       *)
(* caller thread waits on.  The broker keeps one such state per profile    *)
(* name and the profiles share nothing, so one profile is the whole story. *)
(*                                                                         *)
(* A critical section under the condition's lock is one action; a thread   *)
(* can lose the lock only in Condition.wait, which is the wait set asleep. *)
(* Time is abstract: Expire(c) is the moment c's queue-wait deadline       *)
(* passes.  A definition marked "mutant" is the next one with a plausible   *)
(* bug put in; the specification never uses it.                            *)
(***************************************************************************)
EXTENDS Integers, FiniteSets

CONSTANTS Callers,     \* threads that call broker.slot, one call at a time
          BestEffort,  \* those that come through local_embed_slot
          Configs      \* the ProfileConfigs an operator may load

ASSUME CallersAssumption == IsFiniteSet(Callers) /\ BestEffort \subseteq Callers

ASSUME ConfigsAssumption ==
    Configs \subseteq [max_concurrent : Nat, max_queued : Nat]

\* INTERACTIVE, WORKFLOW, BACKGROUND: the smaller, the more urgent.
Priority == 0 .. 2

VARIABLES
    cfg,        \* _ProfileState.cfg
    in_flight,  \* _ProfileState._in_flight
    waiting,    \* _ProfileState._waiting, a count per class
    pc,         \* where each caller's thread is
    prio,       \* the class of each caller's current, or last, ticket
    expired,    \* callers whose queue-wait budget is used up
    asleep      \* callers blocked in Condition.wait that nobody has notified

vars == <<cfg, in_flight, waiting, pc, prio, expired, asleep>>

In(S) == {c \in Callers : pc[c] \in S}
Holders == In({"running", "finished"})
Waiters(p) == {c \in Callers : pc[c] = "waiting" /\ prio[c] = p}

TypeOK == /\ cfg \in Configs
          /\ in_flight \in Nat
          /\ waiting \in [Priority -> Nat]
          /\ pc \in [Callers -> {"idle", "entering", "waiting", "running",
                                 "finished", "unslotted"}]
          /\ prio \in [Callers -> Priority]
          /\ expired \subseteq Callers
          /\ asleep \subseteq In({"waiting"})

Init == /\ cfg \in Configs
        /\ in_flight = 0
        /\ waiting = [p \in Priority |-> 0]
        /\ pc = [c \in Callers |-> "idle"]
        /\ prio = [c \in Callers |-> 1]
        /\ expired = {}
        /\ asleep = {}

----------------------------------------------------------------------------
Goto(c, l) == pc' = [pc EXCEPT ![c] = l]
NotifyAll == asleep' = {}

\* mutant: the classes are not told apart
CanAdmitAnyClass(p) == in_flight < cfg.max_concurrent

CanAdmit(p) == /\ in_flight < cfg.max_concurrent
               /\ \A q \in Priority : q < p => waiting[q] = 0

\* A refused best-effort encode goes ahead without a slot, others give up.
Refuse(c) == Goto(c, IF c \in BestEffort THEN "unslotted" ELSE "idle")

\* slot(): the ticket is made; the budget may be clamped to nothing already.
Submit(c, p) == /\ pc[c] = "idle"
                /\ Goto(c, "entering")
                /\ prio' = [prio EXCEPT ![c] = p]
                /\ expired' \in {expired \ {c}, expired \cup {c}}
                /\ UNCHANGED <<cfg, in_flight, waiting, asleep>>

\* time.monotonic() reaches the deadline of a ticket not yet admitted.
Expire(c) == /\ pc[c] \in {"entering", "waiting"}
             /\ c \notin expired
             /\ expired' = expired \cup {c}
             /\ UNCHANGED <<cfg, in_flight, waiting, pc, prio, asleep>>

----------------------------------------------------------------------------
(* admit(), from taking the lock to its first wait or its return. *)

HasRoom(p) == waiting[p] < cfg.max_queued

QueueFull(c) == /\ pc[c] = "entering"
                /\ ~HasRoom(prio[c])
                /\ Refuse(c)
                /\ UNCHANGED <<cfg, in_flight, waiting, prio, expired, asleep>>

AdmitAtOnce(c) == /\ pc[c] = "entering"
                  /\ HasRoom(prio[c])
                  /\ CanAdmit(prio[c])
                  /\ in_flight' = in_flight + 1
                  /\ Goto(c, "running")
                  /\ NotifyAll
                  /\ UNCHANGED <<cfg, waiting, prio, expired>>

GiveUpAtOnce(c) == /\ pc[c] = "entering"
                   /\ HasRoom(prio[c])
                   /\ ~CanAdmit(prio[c])
                   /\ c \in expired
                   /\ Refuse(c)
                   /\ NotifyAll
                   /\ UNCHANGED <<cfg, in_flight, waiting, prio, expired>>

BeginWait(c) == /\ pc[c] = "entering"
                /\ HasRoom(prio[c])
                /\ ~CanAdmit(prio[c])
                /\ c \notin expired
                /\ Goto(c, "waiting")
                /\ waiting' = [waiting EXCEPT ![prio[c]] = @ + 1]
                /\ asleep' = asleep \cup {c}
                /\ UNCHANGED <<cfg, in_flight, prio, expired>>

----------------------------------------------------------------------------
(* admit(), from the return of a wait to the next wait or its return. *)

\* mutant: the wait has no timeout
AwakeByNotifyOnly(c) == pc[c] = "waiting" /\ c \notin asleep

\* cv.wait(timeout) returns after a notify or when the budget runs out.
Awake(c) == pc[c] = "waiting" /\ (c \notin asleep \/ c \in expired)

\* mutant: the finally clause does not notify
LeaveQueueSilently(c) == /\ waiting' = [waiting EXCEPT ![prio[c]] = @ - 1]
                         /\ UNCHANGED asleep

\* mutant: the ticket stays counted
LeaveQueueCounted(c) == NotifyAll /\ UNCHANGED waiting

LeaveQueue(c) == /\ waiting' = [waiting EXCEPT ![prio[c]] = @ - 1]
                 /\ NotifyAll

\* mutant: "if" instead of "while", the predicate is not re-checked
AdmitUnchecked(c) == /\ Awake(c)
                     /\ in_flight' = in_flight + 1
                     /\ Goto(c, "running")
                     /\ LeaveQueue(c)
                     /\ UNCHANGED <<cfg, prio, expired>>

AdmitWaiter(c) == /\ Awake(c)
                  /\ CanAdmit(prio[c])
                  /\ in_flight' = in_flight + 1
                  /\ Goto(c, "running")
                  /\ LeaveQueue(c)
                  /\ UNCHANGED <<cfg, prio, expired>>

TimeOut(c) == /\ Awake(c)
              /\ ~CanAdmit(prio[c])
              /\ c \in expired
              /\ Refuse(c)
              /\ LeaveQueue(c)
              /\ UNCHANGED <<cfg, in_flight, prio, expired>>

WaitAgain(c) == /\ Awake(c)
                /\ ~CanAdmit(prio[c])
                /\ c \notin expired
                /\ asleep' = asleep \cup {c}
                /\ UNCHANGED <<cfg, in_flight, waiting, pc, prio, expired>>

----------------------------------------------------------------------------
(* The guarded body, the release in slot()'s finally, and the operator. *)

\* The body returns or raises: either way the thread goes on to finally.
EndBody(c) == /\ pc[c] = "running"
              /\ Goto(c, "finished")
              /\ UNCHANGED <<cfg, in_flight, waiting, prio, expired, asleep>>

\* mutant: release without notify_all
ReleaseSilently(c) == /\ pc[c] = "finished"
                      /\ in_flight' = in_flight - 1
                      /\ Goto(c, "idle")
                      /\ UNCHANGED <<cfg, waiting, prio, expired, asleep>>

Release(c) == /\ pc[c] = "finished"
              /\ in_flight' = in_flight - 1
              /\ Goto(c, "idle")
              /\ NotifyAll
              /\ UNCHANGED <<cfg, waiting, prio, expired>>

EndUnslotted(c) == /\ pc[c] = "unslotted"
                   /\ Goto(c, "idle")
                   /\ UNCHANGED <<cfg, in_flight, waiting, prio, expired, asleep>>

Reconfigure(k) == /\ cfg' = k
                  /\ NotifyAll
                  /\ UNCHANGED <<in_flight, waiting, pc, prio, expired>>

----------------------------------------------------------------------------
Enter(c) == QueueFull(c) \/ AdmitAtOnce(c) \/ GiveUpAtOnce(c) \/ BeginWait(c)
Resume(c) == AdmitWaiter(c) \/ TimeOut(c) \/ WaitAgain(c)

Next == \/ \E c \in Callers : \/ \E p \in Priority : Submit(c, p)
                              \/ Expire(c)
                              \/ Enter(c)
                              \/ Resume(c)
                              \/ EndBody(c)
                              \/ Release(c)
                              \/ EndUnslotted(c)
        \/ \E k \in Configs : Reconfigure(k)

Spec == Init /\ [][Next]_vars

\* A runnable thread runs.  Nothing is assumed of the clock (Expire), of how
\* long an inference takes (EndBody) or of callers and operators.
Fairness == \A c \in Callers : /\ WF_vars(Enter(c))
                               /\ WF_vars(Resume(c))
                               /\ WF_vars(Release(c))

FairSpec == Spec /\ Fairness

----------------------------------------------------------------------------
(* Properties *)

\* The two counters the predicate reads agree with the threads they count:
\* no path out of admit() or slot() leaks a slot or a waiting ticket
\* (broker.py:351-366, 519-520).
CountersMatchThreads ==
    /\ in_flight = Cardinality(Holders)
    /\ \A p \in Priority : waiting[p] = Cardinality(Waiters(p))

\* No lost wakeup: a thread left asleep could not have been admitted, so every
\* change that may admit somebody notifies (broker.py:311, 367, 372).
NoLostWakeup == \A c \in asleep : ~CanAdmit(prio[c])

\* A slot is only given while one is free under the configuration of that
\* moment, even after a reconfigure shrank it below the calls in flight.
NeverOverAdmit ==
    [][in_flight' > in_flight => in_flight' <= cfg'.max_concurrent]_vars

\* "no lower-priority ticket admits while a higher-priority ticket is waiting"
\* (broker.py:296-297), about the threads and not the counters.
NoPriorityInversion ==
    [][\A c \in Callers :
         pc'[c] = "running" /\ pc[c] # "running" =>
           \A d \in Callers : pc[d] = "waiting" => prio[d] >= prio[c]]_vars

\* The broker implements the admission gate it promises.
Gate == INSTANCE AdmissionGate
          WITH Capacities <- {k.max_concurrent : k \in Configs},
               capacity <- cfg.max_concurrent,
               queued <- {<<c, prio[c]>> : c \in In({"waiting"})},
               running <- Holders
ImplementsGate == Gate!Init /\ [][Gate!Next]_(Gate!vars)

\* A free slot is not left unused while somebody waits for it: the waiters are
\* woken and one of them takes it, or they are gone.
SlotsAreUsed ==
    In({"waiting"}) # {} /\ in_flight < cfg.max_concurrent
       ~> In({"waiting"}) = {} \/ in_flight >= cfg.max_concurrent

\* "no thread can hang indefinitely" (broker.py:299): a caller whose budget is
\* used up is admitted or refused.
ExpiredCallerLeaves ==
    \A c \in Callers : pc[c] = "waiting" /\ c \in expired ~> pc[c] # "waiting"
=============================================================================
