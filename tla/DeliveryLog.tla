----------------------------- MODULE DeliveryLog -----------------------------
(***************************************************************************)
(* What the event backbone promises to its consumers, with no process that *)
(* may die, no batches, attempts or grants: one log without duplicates,     *)
(* which every consumer reads from its beginning, one event after the other. *)
(* It gets past an event it subscribes to only when that was processed, at   *)
(* least once, or buried. EventBackbone.tla refines this module.             *)
(***************************************************************************)
EXTENDS Integers, Sequences

CONSTANTS Consumers,
          Ids,       \* the events there may be
          Handles    \* Handles[c]: the events consumer c subscribes to

VARIABLES events,     \* the log
          position,   \* per consumer: how many events it is past, or Outside
          processed,  \* pairs <<place, consumer>> of the events it processed
          buried      \* pairs of the events that were given up for it

vars == <<events, position, processed, buried>>

Outside == -1

Init == /\ events = <<>>
        /\ position = [c \in Consumers |-> Outside]
        /\ processed = {}
        /\ buried = {}

Publish(e) == /\ \A n \in 1 .. Len(events) : events[n] # e
              /\ events' = Append(events, e)
              /\ UNCHANGED <<position, processed, buried>>

\* A consumer joins, once and for all; what was published before is for it too.
Join(c) == /\ position[c] = Outside
           /\ position' = [position EXCEPT ![c] = 0]
           /\ UNCHANGED <<events, processed, buried>>

\* The only event a consumer is concerned with.
Place(c) == position[c] + 1
HasNext(c) == position[c] # Outside /\ Place(c) <= Len(events)
Wants(c) == events[Place(c)] \in Handles[c]

Process(c) == /\ HasNext(c) /\ Wants(c)
              /\ processed' = processed \cup {<<Place(c), c>>}
              /\ UNCHANGED <<events, position, buried>>

Bury(c) == /\ HasNext(c) /\ Wants(c)
           /\ buried' = buried \cup {<<Place(c), c>>}
           /\ UNCHANGED <<events, position, processed>>

Advance(c) == /\ HasNext(c)
              /\ Wants(c) => <<Place(c), c>> \in processed \cup buried
              /\ position' = [position EXCEPT ![c] = Place(c)]
              /\ UNCHANGED <<events, processed, buried>>

Next == \/ \E e \in Ids : Publish(e)
        \/ \E c \in Consumers : Join(c) \/ Process(c) \/ Bury(c) \/ Advance(c)

Spec == Init /\ [][Next]_vars
==============================================================================
