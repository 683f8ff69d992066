--------------------------- MODULE DocumentAgent ---------------------------
(***************************************************************************)
(* The conversation of one Co-work document and the detached agent that    *)
(* answers it. The agent holds a lease row by generation; the dashboard    *)
(* claims a generation, spawns its process and fences it, under the lock   *)
(* of the document; the agent's calls reach the database through the       *)
(* gateway, each in one immediate transaction that checks the lease. The   *)
(* user may close the conversation, and post, without the document's lock. *)
(*                                                                         *)
(* The agent is a language model: it may make any call, in any order, with *)
(* any arguments, and a call of its may land after its process is gone.    *)
(***************************************************************************)
EXTENDS Naturals

CONSTANTS
    Targeted,   \* user turns that carry an action snapshot
    Plain,      \* the others
    Replies,    \* message ids the agent may give its replies
    Models,     \* provider and model pairs an agent can be run with
    Nothing,
    MaxGen,     \* generations claimed, at most
    MaxFaults   \* dashboard restarts and failed terminations, at most

Turns == Targeted \union Plain
Gens == 1 .. MaxGen

ASSUME AgentAssumption ==
    /\ MaxGen \in Nat /\ MaxFaults \in Nat
    /\ Nothing \notin Turns \union Replies

VARIABLES
    conv,       \* the conversation: open or closed
    stamp,      \* created_at of each user turn, 0 before it is in the table
    clock,      \* the latest time drawn
    feedback,   \* a turn whose time is drawn and whose insert is to come
    late,       \* turns inserted behind the cursor
    lease,      \* the row of conversation_agent_leases; generation 0 is no row
    procs,      \* the process of each generation
    owned,      \* generations whose process handle this dashboard holds
    waker,      \* the ensure_document_agent that is under way
    cursor,     \* the consumer's cursor
    acked,      \* the generation that acknowledged each turn, 0 for none
    receipts,   \* <<generation, turn>> pairs with a consumption receipt
    reply,      \* the reply each receipt is bound to
    messages,   \* the agent's messages: author and targeted turn
    faults

user == <<stamp, clock, feedback, late>>
agent == <<cursor, acked, receipts, reply, messages>>
driver == <<procs, owned, waker>>
vars == <<conv, user, lease, driver, agent, faults>>

Steps == {"idle", "inspect", "stop", "kill", "claim", "spawn", "activate", "check",
          "discard"}
Leases == [gen : 0 .. MaxGen, model : Models \union {Nothing}, pid : BOOLEAN, fresh : BOOLEAN,
           status : {"none", "starting", "running", "stopped", "spawn_failed"}]

TypeOK ==
    /\ conv \in {"open", "closed"}
    /\ stamp \in [Turns -> Nat] /\ clock \in Nat /\ late \subseteq Turns
    /\ feedback \in [turn : Plain \union {Nothing}, at : Nat]
    /\ lease \in Leases
    /\ procs \in [Gens -> {"none", "live", "dead"}] /\ owned \subseteq Gens
    /\ waker \in [pc : Steps, model : Models \union {Nothing}]
    /\ cursor \in Nat /\ acked \in [Turns -> 0 .. MaxGen]
    /\ receipts \subseteq Gens \X Targeted
    /\ reply \in [Gens \X Targeted -> Replies \union {Nothing}]
    /\ messages \in [Replies -> [from : 0 .. MaxGen, about : Targeted \union {Nothing}]]
    /\ faults \in 0 .. MaxFaults

Idle == [pc |-> "idle", model |-> Nothing]
NoFeedback == [turn |-> Nothing, at |-> 0]

Init ==
    /\ conv = "open"
    /\ stamp = [t \in Turns |-> 0] /\ clock = 0 /\ feedback = NoFeedback /\ late = {}
    /\ lease = [gen |-> 0, model |-> Nothing, pid |-> FALSE, fresh |-> FALSE, status |-> "none"]
    /\ procs = [g \in Gens |-> "none"] /\ owned = {} /\ waker = Idle
    /\ cursor = 0 /\ acked = [t \in Turns |-> 0]
    /\ receipts = {} /\ reply = [r \in Gens \X Targeted |-> Nothing]
    /\ messages = [m \in Replies |-> [from |-> 0, about |-> Nothing]]
    /\ faults = 0

-----------------------------------------------------------------------------
(* User turns.                                                             *)

\* post_user_message: the time is drawn under the write lock.
Post(t) ==
    /\ conv = "open" /\ stamp[t] = 0 /\ feedback.turn # t
    /\ clock' = clock + 1
    /\ stamp' = [stamp EXCEPT ![t] = clock + 1]
    /\ UNCHANGED <<conv, feedback, late, lease, driver, agent, faults>>

\* post_feedback_message lends the insert a connection that has not taken the
\* write lock: the time is drawn in one step, the row written in another.
DrawFeedback(t) ==
    /\ conv = "open" /\ stamp[t] = 0
    /\ feedback = NoFeedback /\ waker = Idle
    /\ clock' = clock + 1
    /\ feedback' = [turn |-> t, at |-> clock + 1]
    /\ UNCHANGED <<conv, stamp, late, lease, driver, agent, faults>>

InsertFeedback ==
    /\ feedback # NoFeedback
    /\ stamp' = [stamp EXCEPT ![feedback.turn] = feedback.at]
    /\ late' = IF feedback.at < cursor THEN late \union {feedback.turn} ELSE late
    /\ feedback' = NoFeedback
    /\ UNCHANGED <<conv, clock, lease, driver, agent, faults>>

Close ==
    /\ conv = "open"
    /\ conv' = "closed"
    /\ lease' = IF lease.status = "none" THEN lease ELSE [lease EXCEPT !.status = "stopped"]
    /\ UNCHANGED <<user, driver, agent, faults>>

-----------------------------------------------------------------------------
(* The driver: ensure_document_agent, under the document's lock.           *)

Goto(step) == waker' = [waker EXCEPT !.pc = step]
Busy(step) == waker.pc = step

\* The bound on generations: one wake claims one at most.
Wake(m) ==
    /\ waker = Idle /\ feedback = NoFeedback
    /\ lease.gen < MaxGen
    /\ waker' = [pc |-> "inspect", model |-> m]
    /\ UNCHANGED <<conv, user, lease, procs, owned, agent, faults>>

\* A change of model stops the lease it finds, and then wakes the agent.
Switch(m) ==
    /\ waker = Idle /\ feedback = NoFeedback /\ conv = "open"
    /\ lease.gen < MaxGen
    /\ lease.status \in {"starting", "running"}
    /\ waker' = [pc |-> "stop", model |-> m]
    /\ UNCHANGED <<conv, user, lease, procs, owned, agent, faults>>

Alive == lease.status = "running" /\ lease.fresh /\ procs[lease.gen] = "live"

\* A process check that fails counts as a stopped agent.
Inspect ==
    /\ Busy("inspect")
    /\ \/ /\ Alive /\ lease.model = waker.model
          /\ waker' = Idle
       \/ /\ \/ lease.status \in {"running", "stopped"}
             \/ lease.status = "starting" /\ ~lease.fresh
          /\ Goto("stop")
       \/ /\ \/ lease.status \in {"none", "spawn_failed"}
             \/ lease.status = "starting" /\ lease.fresh
          /\ Goto("claim")
    /\ UNCHANGED <<conv, user, lease, procs, owned, agent, faults>>

Stop ==
    /\ Busy("stop")
    /\ lease' = [lease EXCEPT !.status = "stopped"]
    /\ Goto("kill")
    /\ UNCHANGED <<conv, user, procs, owned, agent, faults>>

\* terminate_detached_process: only a process whose handle this dashboard holds.
Terminate(g) ==
    IF g \in owned /\ procs[g] = "live"
    THEN \/ procs' = [procs EXCEPT ![g] = "dead"] /\ UNCHANGED faults
         \/ faults < MaxFaults /\ faults' = faults + 1 /\ UNCHANGED procs
    ELSE UNCHANGED <<procs, faults>>

Kill ==
    /\ Busy("kill")
    /\ IF lease.pid THEN Terminate(lease.gen) ELSE UNCHANGED <<procs, faults>>
    /\ Goto("claim")
    /\ UNCHANGED <<conv, user, lease, owned, agent>>

Reusable ==
    /\ lease.status \in {"starting", "running"} /\ lease.fresh
    /\ lease.model = waker.model

\* claim_agent_lease
Claim ==
    /\ Busy("claim")
    /\ \/ conv = "closed" /\ waker' = Idle /\ UNCHANGED lease
       \/ Reusable /\ waker' = Idle /\ UNCHANGED lease
       \/ /\ conv = "open" /\ ~Reusable
          /\ lease' = [gen |-> lease.gen + 1, model |-> waker.model,
                       pid |-> FALSE, fresh |-> TRUE, status |-> "starting"]
          /\ Goto("spawn")
    /\ UNCHANGED <<conv, user, procs, owned, agent, faults>>

Failed == [lease EXCEPT !.status = "spawn_failed", !.pid = FALSE]

Spawns ==
    /\ procs' = [procs EXCEPT ![lease.gen] = "live"]
    /\ owned' = owned \union {lease.gen}
    /\ Goto("activate")
    /\ UNCHANGED <<lease, faults>>

SpawnsNothing ==
    /\ lease' = Failed /\ waker' = Idle
    /\ UNCHANGED <<procs, owned, faults>>

\* A process that does not take its brief is terminated, if it can be, before
\* the spawn reports an error and no pid.
SpawnsUndelivered ==
    /\ lease' = Failed /\ waker' = Idle
    /\ owned' = owned \union {lease.gen}
    /\ \/ procs' = [procs EXCEPT ![lease.gen] = "dead"] /\ UNCHANGED faults
       \/ /\ faults < MaxFaults /\ faults' = faults + 1
          /\ procs' = [procs EXCEPT ![lease.gen] = "live"]

Spawn ==
    /\ Busy("spawn")
    /\ Spawns \/ SpawnsNothing \/ SpawnsUndelivered
    /\ UNCHANGED <<conv, user, agent>>

\* Mutant: the process of a lease that was taken away is left running.
ActivateOnly ==
    /\ Busy("activate")
    /\ lease' = IF lease.status # "starting" THEN lease
                ELSE [lease EXCEPT !.status = "running", !.pid = TRUE, !.fresh = TRUE]
    /\ waker' = IF lease.status # "starting" THEN Idle ELSE [waker EXCEPT !.pc = "check"]
    /\ UNCHANGED <<conv, user, procs, owned, agent, faults>>

Activate ==
    /\ Busy("activate")
    /\ \/ /\ lease.status = "starting"
          /\ lease' = [lease EXCEPT !.status = "running", !.pid = TRUE, !.fresh = TRUE]
          /\ Goto("check")
       \/ /\ lease.status # "starting"
          /\ UNCHANGED lease
          /\ Goto("discard")
    /\ UNCHANGED <<conv, user, procs, owned, agent, faults>>

\* The process is looked at once more; an exception stops the lease.
Check ==
    /\ Busy("check")
    /\ \/ procs[lease.gen] = "live" /\ waker' = Idle /\ UNCHANGED lease
       \/ procs[lease.gen] = "dead" /\ lease' = Failed /\ Goto("discard")
       \/ lease' = [lease EXCEPT !.status = "stopped"] /\ Goto("discard")
    /\ UNCHANGED <<conv, user, procs, owned, agent, faults>>

Discard ==
    /\ Busy("discard")
    /\ Terminate(lease.gen)
    /\ waker' = Idle
    /\ UNCHANGED <<conv, user, lease, owned, agent>>

\* The dashboard dies: its handles and whatever it was doing are gone.
Restart ==
    /\ faults < MaxFaults /\ faults' = faults + 1
    /\ waker' = Idle /\ owned' = {} /\ feedback' = NoFeedback
    /\ UNCHANGED <<conv, stamp, clock, late, lease, procs, agent>>

\* The agent runs out of budget, is killed, or obeys lease_lost.
Exits(g) ==
    /\ procs[g] = "live"
    /\ procs' = [procs EXCEPT ![g] = "dead"]
    /\ UNCHANGED <<conv, user, lease, owned, waker, agent, faults>>

\* The grace of a start, or the time a heartbeat lasts, runs out.
Ages ==
    /\ lease.fresh
    /\ lease' = [lease EXCEPT !.fresh = FALSE]
    /\ UNCHANGED <<conv, user, driver, agent, faults>>

-----------------------------------------------------------------------------
(* The agent's calls, each one transaction under the lease.                *)

\* Mutant: the generation decides, whatever became of its lease.
HoldsGeneration(g) == conv = "open" /\ lease.gen = g

MayAct(g) ==
    /\ conv = "open" /\ lease.gen = g
    /\ \/ lease.status = "running"
       \/ lease.status = "starting" /\ lease.fresh

\* Every call that passes leaves a heartbeat, which only a running lease heeds.
Call(g) ==
    /\ procs[g] # "none"
    /\ MayAct(g)
    /\ lease' = IF lease.status = "running" THEN [lease EXCEPT !.fresh = TRUE] ELSE lease
    /\ UNCHANGED <<conv, user, driver, faults>>

\* Mutant: any turn behind the cursor will do.
IsAhead(t) == stamp[t] > cursor

IsNext(t) ==
    /\ stamp[t] > cursor
    /\ \A u \in Turns : stamp[u] > cursor => stamp[t] <= stamp[u]

\* receive_user_message, and every replayed call: a heartbeat and no more.
Receive(g) == Call(g) /\ UNCHANGED agent

\* cowork_action_snapshot_get: a receipt for the turn that is next.
Fetch(g, t) ==
    /\ Call(g)
    /\ IsNext(t)
    /\ receipts' = receipts \union {<<g, t>>}
    /\ UNCHANGED <<cursor, acked, reply, messages>>

\* A message without a receipt: refused while the next turn is targeted.
Send(g, m) ==
    /\ Call(g)
    /\ \A t \in Targeted : ~IsNext(t)
    /\ messages[m].from = 0
    /\ messages' = [messages EXCEPT ![m] = [from |-> g, about |-> Nothing]]
    /\ UNCHANGED <<cursor, acked, receipts, reply>>

\* conversation_ask does not look at the turns.
Ask(g, m) ==
    /\ Call(g)
    /\ messages[m].from = 0
    /\ messages' = [messages EXCEPT ![m] = [from |-> g, about |-> Nothing]]
    /\ UNCHANGED <<cursor, acked, receipts, reply>>

\* Mutant: a message of that id is taken for the reply.
MayReuse(g, t, m) ==
    /\ <<g, t>> \in receipts
    /\ \/ reply[<<g, t>>] = m
       \/ reply[<<g, t>>] = Nothing /\ IsNext(t)

\* targeted_reply_context: the reply g may give turn t under the id m.
MayReply(g, t, m) ==
    /\ <<g, t>> \in receipts
    /\ \/ reply[<<g, t>>] = m
       \/ reply[<<g, t>>] = Nothing /\ IsNext(t)
    /\ LET old == messages[m] IN
       \/ old.from = 0
       \/ /\ old.about = t
          /\ <<old.from, t>> \in receipts
          /\ reply[<<old.from, t>>] \in {m, Nothing}

\* An earlier generation's reply to the turn is kept and both receipts name it.
SendTargeted(g, t, m) ==
    /\ Call(g)
    /\ MayReply(g, t, m)
    /\ messages' = IF messages[m].from = 0
                   THEN [messages EXCEPT ![m] = [from |-> g, about |-> t]]
                   ELSE messages
    /\ reply' = [r \in Gens \X Targeted |->
                    IF r \in {<<g, t>>, <<messages'[m].from, t>>} THEN m ELSE reply[r]]
    /\ UNCHANGED <<cursor, acked, receipts>>

Ack(g, t) ==
    /\ Call(g)
    /\ IsNext(t)
    /\ t \in Targeted => <<g, t>> \in receipts /\ reply[<<g, t>>] # Nothing
    /\ cursor' = stamp[t]
    /\ acked' = [acked EXCEPT ![t] = g]
    /\ UNCHANGED <<receipts, reply, messages>>

-----------------------------------------------------------------------------
UserStep ==
    \/ \E t \in Turns : Post(t)
    \/ \E t \in Plain : DrawFeedback(t)
    \/ InsertFeedback
    \/ Close

DriverStep ==
    \/ \E m \in Models : Wake(m) \/ Switch(m)
    \/ Inspect \/ Stop \/ Kill \/ Claim \/ Spawn \/ Activate \/ Check \/ Discard
    \/ Restart \/ Ages
    \/ \E g \in Gens : Exits(g)

AgentStep ==
    \E g \in Gens :
        \/ Receive(g)
        \/ \E t \in Targeted : Fetch(g, t)
        \/ \E m \in Replies : Send(g, m) \/ Ask(g, m)
        \/ \E t \in Targeted, m \in Replies : SendTargeted(g, t, m)
        \/ \E t \in Turns : Ack(g, t)

Next == UserStep \/ DriverStep \/ AgentStep

Spec == Init /\ [][Next]_vars

-----------------------------------------------------------------------------
Revoked(g) ==
    \/ g < lease.gen
    \/ g = lease.gen /\ (conv = "closed" \/ lease.status \in {"stopped", "spawn_failed"})

Deeds(g) == [fetched |-> {r \in receipts : r[1] = g},
             sent |-> {m \in Replies : messages[m].from = g},
             acked |-> {t \in Turns : acked[t] = g}]

\* A generation that was fenced, failed, replaced or closed upon never gets its
\* lease back and never fetches, sends or acknowledges again, however late its
\* calls land and whether or not its process could be killed
\* (fence_document_agent, conversation_agent_write_guard).
StaysRevoked ==
    [][\A g \in Gens : Revoked(g) => Revoked(g)' /\ Deeds(g)' = Deeds(g)]_vars

\* A receipt is bound to a message that answers its own turn, and a targeted
\* turn is acknowledged only by a generation whose receipt for it is bound,
\* through restarts that reuse the reply of an earlier generation
\* (targeted_reply_context, ack_user_message).
AckedTurnWasAnswered ==
    /\ \A r \in Gens \X Targeted :
          reply[r] # Nothing => r \in receipts /\ messages[reply[r]].about = r[2]
    /\ \A t \in Targeted : acked[t] # 0 => reply[<<acked[t], t>>] # Nothing

\* The cursor never passes a turn that was not acknowledged. Feedback whose
\* insert lands behind the cursor is left out: it is lost (post_feedback_message).
NothingSkipped ==
    \A t \in Turns : stamp[t] \in 1 .. cursor => acked[t] # 0 \/ t \in late

\* While the dashboard runs and its terminations succeed, no driver is left
\* alive that the lease does not name, so that the next wake finds and stops
\* it, whatever close and the agents do in the middle of ensure_document_agent.
NoStrayDriver ==
    faults = 0 /\ waker = Idle =>
        \A g \in Gens : procs[g] = "live" => lease.gen = g /\ lease.pid
=============================================================================
