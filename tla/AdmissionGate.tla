--------------------------- MODULE AdmissionGate ---------------------------
(***************************************************************************)
(* What the local-inference broker promises to its callers, with none of   *)
(* the lock, condition variable and counters that implement it: a bounded  *)
(* number of calls run at a time, a call is granted a slot only while one  *)
(* is free, and never ahead of a queued call of a more urgent class.       *)
(* InferenceBroker.tla refines this module.                                *)
(***************************************************************************)
EXTENDS Naturals, FiniteSets

CONSTANTS Callers,     \* the threads that ask for a slot
          Priority,    \* a smaller number is more urgent
          Capacities   \* the capacities an operator may set

VARIABLES capacity,  \* how many calls may run at a time
          queued,    \* pairs <<caller, class>> of the calls waiting for a slot
          running    \* the callers that hold a slot

vars == <<capacity, queued, running>>

IsQueued(c) == \E w \in queued : w[1] = c

Init == /\ capacity \in Capacities
        /\ queued = {}
        /\ running = {}

\* A call joins the queue of its class.
Join(c, p) == /\ c \notin running
              /\ ~IsQueued(c)
              /\ queued' = queued \cup {<<c, p>>}
              /\ UNCHANGED <<capacity, running>>

\* A call, queued or newly arrived, gets a free slot; nobody more urgent waits.
Grant(c, p) == /\ c \notin running
               /\ Cardinality(running) < capacity
               /\ \A w \in queued : w[2] >= p
               /\ \A w \in queued : w[1] = c => w[2] = p
               /\ queued' = queued \ {<<c, p>>}
               /\ running' = running \cup {c}
               /\ UNCHANGED capacity

\* A queued call gives up.
Withdraw(c, p) == /\ <<c, p>> \in queued
                  /\ queued' = queued \ {<<c, p>>}
                  /\ UNCHANGED <<capacity, running>>

\* A call ends and hands its slot back.
Return(c) == /\ c \in running
             /\ running' = running \ {c}
             /\ UNCHANGED <<capacity, queued>>

\* The operator changes the number of slots; the calls in progress go on.
Resize(n) == /\ capacity' = n
             /\ UNCHANGED <<queued, running>>

Next == \/ \E c \in Callers, p \in Priority : \/ Join(c, p)
                                              \/ Grant(c, p)
                                              \/ Withdraw(c, p)
        \/ \E c \in Callers : Return(c)
        \/ \E n \in Capacities : Resize(n)

Spec == Init /\ [][Next]_vars
=============================================================================
