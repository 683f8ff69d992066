------------------------ MODULE DocumentAgentProofs ------------------------
(***************************************************************************)
(* Proofs about DocumentAgent, for every set of turns, replies and models, *)
(* every number of generations and of faults. IInv is inductive: that a    *)
(* wake has room for a generation (WakerInv) is needed for the types; that *)
(* the times are distinct (TurnInv), for the cursor to skip nothing; that  *)
(* a message without an author is about nothing (ReplyInv), for a receipt  *)
(* to keep its answer; and whether a driver may be alive at each step of a *)
(* wake (DriverInv), for none to be lost.                                  *)
(***************************************************************************)
EXTENDS DocumentAgent, TLAPS

\* The lease exists once a generation was claimed, and a wake that may still
\* claim one has room for it.
WakerInv ==
    /\ lease.gen = 0 <=> lease.status = "none"
    /\ waker.pc \in {"inspect", "stop", "kill", "claim"} => lease.gen < MaxGen
    /\ waker.pc \in {"stop", "kill", "spawn", "activate", "check", "discard"}
          => lease.gen # 0
    /\ waker.pc = "spawn" => lease.status \in {"starting", "stopped"}

\* Every time that was drawn is drawn once, and an acknowledged turn is
\* behind the cursor.
TurnInv ==
    /\ cursor <= clock
    /\ \A t \in Turns : stamp[t] <= clock
    /\ \A t, u \in Turns : stamp[t] = stamp[u] /\ stamp[t] # 0 => t = u
    /\ \A t \in Turns : acked[t] # 0 => stamp[t] # 0 /\ stamp[t] <= cursor
    /\ feedback.turn = Nothing => feedback.at = 0
    /\ feedback.turn # Nothing =>
          /\ stamp[feedback.turn] = 0
          /\ feedback.at # 0 /\ feedback.at <= clock /\ feedback.at # cursor
          /\ \A t \in Turns : stamp[t] # feedback.at

ReplyInv == \A m \in Replies : messages[m].from = 0 => messages[m].about = Nothing

NoneLive == \A g \in Gens : procs[g] # "live"

DriverInv ==
    faults = 0 =>
        /\ \A g \in Gens : procs[g] = "live" =>
              /\ g = lease.gen /\ g \in owned
              /\ lease.pid \/ waker.pc \in {"activate", "discard"}
        /\ waker.pc \in {"claim", "spawn"} \/ lease.status = "spawn_failed" => NoneLive
        /\ lease.status = "starting" => waker.pc \in {"spawn", "activate"}

IInv == /\ TypeOK /\ WakerInv /\ TurnInv /\ NothingSkipped
        /\ ReplyInv /\ AckedTurnWasAnswered /\ DriverInv

LEMMA InitHolds == Init => IInv
<1>. SUFFICES ASSUME Init PROVE IInv
  OBVIOUS
<1>. USE AgentAssumption DEF Init
<1>1. TypeOK
  BY DEF TypeOK, Leases, Steps, Turns, Gens, Idle, NoFeedback
<1>2. WakerInv /\ TurnInv /\ ReplyInv /\ DriverInv
  BY DEF WakerInv, TurnInv, ReplyInv, DriverInv, NoneLive, Idle, NoFeedback, Turns, Gens
<1>3. NothingSkipped /\ AckedTurnWasAnswered
  BY DEF NothingSkipped, AckedTurnWasAnswered, Turns
<1>. QED
  BY <1>1, <1>2, <1>3 DEF IInv

-----------------------------------------------------------------------------
(* The types.                                                              *)

\* The statuses and pids the lease is given leave it a lease.
LEMMA LeaseUpdates ==
  ASSUME NEW l \in Leases
  PROVE  /\ [l EXCEPT !.status = "stopped"] \in Leases
         /\ [l EXCEPT !.status = "spawn_failed", !.pid = FALSE] \in Leases
         /\ [l EXCEPT !.status = "running", !.pid = TRUE, !.fresh = TRUE] \in Leases
         /\ [l EXCEPT !.fresh = TRUE] \in Leases /\ [l EXCEPT !.fresh = FALSE] \in Leases
  BY DEF Leases

LEMMA FailedLeases ==
  ASSUME NEW l \in Leases, NEW new,
         \/ new = l
         \/ new = [l EXCEPT !.status = "spawn_failed", !.pid = FALSE]
         \/ new = [l EXCEPT !.status = "stopped"]
  PROVE  new.gen = l.gen /\ new.status \in {l.status, "spawn_failed", "stopped"}
  BY DEF Leases

LEMMA UserTypes == TypeOK /\ TurnInv /\ UserStep => TypeOK'
<1>. SUFFICES ASSUME TypeOK, TurnInv, UserStep PROVE TypeOK'
  OBVIOUS
<1>. USE AgentAssumption DEF TypeOK, user, driver, agent, Turns
<1>1. ASSUME NEW t \in Turns, Post(t) PROVE TypeOK'
  BY <1>1 DEF Post
<1>2. ASSUME NEW t \in Plain, DrawFeedback(t) PROVE TypeOK'
  BY <1>2 DEF DrawFeedback
<1>3. CASE InsertFeedback
  <2>1. feedback.turn \in Plain
    BY <1>3 DEF InsertFeedback, TurnInv, NoFeedback
  <2>. QED
    BY <1>3, <2>1 DEF InsertFeedback, NoFeedback
<1>4. CASE Close
  BY <1>4, LeaseUpdates DEF Close
<1>. QED
  BY <1>1, <1>2, <1>3, <1>4 DEF UserStep

LEMMA DriverTypes == TypeOK /\ WakerInv /\ DriverStep => TypeOK'
<1>. SUFFICES ASSUME TypeOK, WakerInv, DriverStep PROVE TypeOK'
  OBVIOUS
<1>. USE AgentAssumption DEF TypeOK, user, driver, agent, Steps, Goto, Busy
<1>1. ASSUME NEW m \in Models, Wake(m) \/ Switch(m) PROVE TypeOK'
  BY <1>1 DEF Wake, Switch
<1>2. CASE Inspect
  BY <1>2 DEF Inspect, Idle
<1>3. CASE Stop
  BY <1>3, LeaseUpdates DEF Stop
<1>4. CASE Kill
  BY <1>4 DEF Kill, Terminate
<1>5. CASE Claim
  <2>1. waker' \in [pc : Steps, model : Models \union {Nothing}]
    BY <1>5 DEF Claim, Idle
  <2>2. lease' \in Leases
    <3>1. lease.gen + 1 \in 0 .. MaxGen
      BY <1>5 DEF Claim, Leases, WakerInv
    <3>2. lease' = lease \/ lease' = [gen |-> lease.gen + 1, model |-> waker.model,
                                     pid |-> FALSE, fresh |-> TRUE, status |-> "starting"]
      BY <1>5 DEF Claim
    <3>3. CASE lease' = lease
      BY <3>3
    <3>4. CASE lease' = [gen |-> lease.gen + 1, model |-> waker.model,
                         pid |-> FALSE, fresh |-> TRUE, status |-> "starting"]
      BY <3>1, <3>4 DEF Leases
    <3>. QED
      BY <3>2, <3>3, <3>4
  <2>. QED
    BY <1>5, <2>1, <2>2 DEF Claim
<1>6. CASE Spawn
  <2>. USE DEF Spawn, Spawns, SpawnsNothing, SpawnsUndelivered
  <2>1. waker' \in [pc : Steps, model : Models \union {Nothing}]
    BY <1>6 DEF Idle
  <2>2. lease' \in Leases
    <3>1. lease' = lease \/ lease' = [lease EXCEPT !.status = "spawn_failed", !.pid = FALSE]
      BY <1>6 DEF Failed
    <3>. QED
      BY <3>1, LeaseUpdates
  <2>3. procs' \in [Gens -> {"none", "live", "dead"}] /\ owned' \subseteq Gens
    <3>1. lease.gen \in Gens
      BY <1>6 DEF Leases, WakerInv, Gens
    <3>. QED
      BY <1>6, <3>1
  <2>4. faults' \in 0 .. MaxFaults
    BY <1>6, AgentAssumption
  <2>. QED
    BY <1>6, <2>1, <2>2, <2>3, <2>4
<1>7. CASE Activate
  <2>1. waker' \in [pc : Steps, model : Models \union {Nothing}]
    BY <1>7 DEF Activate
  <2>2. lease' \in Leases
    <3>1. \/ lease' = lease
          \/ lease' = [lease EXCEPT !.status = "running", !.pid = TRUE, !.fresh = TRUE]
      BY <1>7 DEF Activate
    <3>. QED
      BY <3>1, LeaseUpdates
  <2>. QED
    BY <1>7, <2>1, <2>2 DEF Activate
<1>8. CASE Check
  <2>1. waker' \in [pc : Steps, model : Models \union {Nothing}]
    BY <1>8 DEF Check, Idle
  <2>2. lease' \in Leases
    <3>1. \/ lease' = lease
          \/ lease' = [lease EXCEPT !.status = "spawn_failed", !.pid = FALSE]
          \/ lease' = [lease EXCEPT !.status = "stopped"]
      BY <1>8 DEF Check, Failed
    <3>. QED
      BY <3>1, LeaseUpdates
  <2>. QED
    BY <1>8, <2>1, <2>2 DEF Check
<1>9. CASE Discard
  BY <1>9 DEF Discard, Idle, Terminate
<1>10. CASE Restart
  BY <1>10 DEF Restart, Idle, NoFeedback
<1>11. CASE Ages
  BY <1>11, LeaseUpdates DEF Ages
<1>12. ASSUME NEW g \in Gens, Exits(g) PROVE TypeOK'
  BY <1>12 DEF Exits
<1>. QED
  BY <1>1, <1>2, <1>3, <1>4, <1>5, <1>6, <1>7, <1>8, <1>9, <1>10, <1>11, <1>12
  DEF DriverStep

LEMMA AgentTypes == TypeOK /\ AgentStep => TypeOK'
<1>. SUFFICES ASSUME TypeOK, NEW g \in Gens,
                     \/ Receive(g)
                     \/ \E t \in Targeted : Fetch(g, t)
                     \/ \E m \in Replies : Send(g, m) \/ Ask(g, m)
                     \/ \E t \in Targeted, m \in Replies : SendTargeted(g, t, m)
                     \/ \E t \in Turns : Ack(g, t)
              PROVE  TypeOK'
  BY DEF AgentStep
<1>. USE AgentAssumption DEF TypeOK, user, driver, agent, Turns, Gens
<1>1. ASSUME Call(g),
             cursor' \in Nat, acked' \in [Turns -> 0 .. MaxGen],
             receipts' \subseteq Gens \X Targeted,
             reply' \in [Gens \X Targeted -> Replies \union {Nothing}],
             messages' \in [Replies -> [from : 0 .. MaxGen, about : Targeted \union {Nothing}]]
      PROVE  TypeOK'
  <2>1. lease' \in Leases /\ UNCHANGED <<conv, user, driver, faults>>
    BY <1>1, LeaseUpdates DEF Call
  <2>. QED
    BY <1>1, <2>1
<1>2. CASE Receive(g)
  BY <1>1, <1>2 DEF Receive
<1>3. ASSUME NEW t \in Targeted, Fetch(g, t) PROVE TypeOK'
  <2>1. /\ Call(g) /\ UNCHANGED <<cursor, acked, reply, messages>>
        /\ receipts' = receipts \union {<<g, t>>}
    BY <1>3 DEF Fetch
  <2>2. receipts' \subseteq Gens \X Targeted
    BY <2>1
  <2>. QED
    BY <1>1, <2>1, <2>2
<1>4. ASSUME NEW m \in Replies, Send(g, m) \/ Ask(g, m) PROVE TypeOK'
  <2>1. /\ Call(g) /\ UNCHANGED <<cursor, acked, receipts, reply>>
        /\ messages' = [messages EXCEPT ![m] = [from |-> g, about |-> Nothing]]
    BY <1>4 DEF Send, Ask
  <2>2. messages' \in [Replies -> [from : 0 .. MaxGen, about : Targeted \union {Nothing}]]
    BY <2>1
  <2>. QED
    BY <1>1, <2>1, <2>2
<1>5. ASSUME NEW t \in Targeted, NEW m \in Replies, SendTargeted(g, t, m) PROVE TypeOK'
  <2>1. Call(g) /\ UNCHANGED <<cursor, acked, receipts>>
    BY <1>5 DEF SendTargeted
  <2>2. messages' \in [Replies -> [from : 0 .. MaxGen, about : Targeted \union {Nothing}]]
    BY <1>5 DEF SendTargeted
  <2>3. reply' \in [Gens \X Targeted -> Replies \union {Nothing}]
    BY <1>5 DEF SendTargeted
  <2>. QED
    BY <1>1, <2>1, <2>2, <2>3
<1>6. ASSUME NEW t \in Turns, Ack(g, t) PROVE TypeOK'
  <2>1. Call(g) /\ UNCHANGED <<receipts, reply, messages>>
    BY <1>6 DEF Ack
  <2>2. cursor' \in Nat /\ acked' \in [Turns -> 0 .. MaxGen]
    BY <1>6 DEF Ack
  <2>. QED
    BY <1>1, <2>1, <2>2
<1>. QED
  BY <1>2, <1>3, <1>4, <1>5, <1>6

LEMMA TypesStep == TypeOK /\ WakerInv /\ TurnInv /\ [Next]_vars => TypeOK'
<1>1. TypeOK /\ UNCHANGED vars => TypeOK'
  BY DEF TypeOK, vars, user, driver, agent
<1>. QED
  BY <1>1, UserTypes, DriverTypes, AgentTypes DEF Next

-----------------------------------------------------------------------------
(* The lease and the waker.                                                *)

\* An agent's call leaves the lease but for its heartbeat.
LEMMA CallKeepsLease ==
  ASSUME TypeOK, NEW g \in Gens, Call(g)
  PROVE  /\ MayAct(g)
         /\ UNCHANGED <<conv, user, driver, faults>>
         /\ lease'.gen = lease.gen /\ lease'.status = lease.status /\ lease'.pid = lease.pid
  BY DEF Call, TypeOK, Leases

LEMMA AgentStepIsCall ==
  ASSUME AgentStep
  PROVE  \E g \in Gens : Call(g)
  BY DEF AgentStep, Receive, Fetch, Send, Ask, SendTargeted, Ack

LEMMA WakerStep == TypeOK /\ WakerInv /\ [Next]_vars => WakerInv'
<1>. SUFFICES ASSUME TypeOK, WakerInv, [Next]_vars PROVE WakerInv'
  OBVIOUS
<1>. USE AgentAssumption DEF TypeOK, Leases, Steps, WakerInv, user, driver, agent, Goto, Busy, Idle
<1>1. CASE UserStep
  <2>1. CASE UNCHANGED <<lease, waker>>
    BY <2>1
  <2>2. CASE Close
    <3>1. CASE lease.status = "none"
      BY <2>2, <3>1 DEF Close
    <3>2. CASE lease.status # "none"
      <4>1. lease' = [lease EXCEPT !.status = "stopped"] /\ UNCHANGED waker
        BY <2>2, <3>2 DEF Close
      <4>. QED
        BY <3>2, <4>1
    <3>. QED
      BY <3>1, <3>2
  <2>. QED
    BY <1>1, <2>1, <2>2 DEF UserStep, Post, DrawFeedback, InsertFeedback
<1>2. ASSUME NEW m \in Models, Wake(m) \/ Switch(m) PROVE WakerInv'
  BY <1>2 DEF Wake, Switch
<1>3. CASE Inspect
  BY <1>3 DEF Inspect
<1>4. CASE Stop
  BY <1>4 DEF Stop
<1>5. CASE Kill
  BY <1>5 DEF Kill
<1>6. CASE Claim
  <2>1. CASE UNCHANGED lease /\ waker' = Idle
    BY <2>1
  <2>2. CASE /\ lease' = [gen |-> lease.gen + 1, model |-> waker.model,
                          pid |-> FALSE, fresh |-> TRUE, status |-> "starting"]
             /\ Goto("spawn")
    BY <2>2
  <2>. QED
    BY <1>6, <2>1, <2>2 DEF Claim
<1>7. CASE Spawn
  <2>. USE DEF Spawn, Spawns, SpawnsNothing, SpawnsUndelivered
  <2>1. lease.gen # 0 /\ lease'.gen = lease.gen
    BY <1>7 DEF Failed
  <2>2. lease.status # "none" /\ (lease' = lease \/ lease'.status = "spawn_failed")
    BY <2>1, <1>7 DEF Failed
  <2>3. waker'.pc \in {"activate", "idle"}
    BY <1>7
  <2>. QED
    BY <2>1, <2>2, <2>3
<1>8. CASE Activate
  <2>1. lease.gen # 0 /\ lease.status # "none" /\ waker'.pc \in {"check", "discard"}
    BY <1>8 DEF Activate
  <2>2. lease'.gen = lease.gen /\ lease'.status \in {lease.status, "running"}
    BY <1>8 DEF Activate
  <2>. QED
    BY <2>1, <2>2
<1>9. CASE Check
  <2>1. lease.gen # 0 /\ lease'.gen = lease.gen
    BY <1>9 DEF Check, Failed
  <2>2. lease.status # "none" /\ (lease' = lease \/ lease'.status \in {"spawn_failed", "stopped"})
    BY <2>1, <1>9 DEF Check, Failed
  <2>3. waker'.pc \in {"discard", "idle"}
    BY <1>9 DEF Check
  <2>. QED
    BY <2>1, <2>2, <2>3
<1>10. CASE Discard
  BY <1>10 DEF Discard
<1>11. CASE Restart
  BY <1>11 DEF Restart
<1>12. CASE Ages
  BY <1>12 DEF Ages
<1>13. ASSUME NEW g \in Gens, Exits(g) PROVE WakerInv'
  BY <1>13 DEF Exits
<1>14. CASE AgentStep
  <2>1. UNCHANGED waker /\ lease'.gen = lease.gen /\ lease'.status = lease.status
    BY <1>14, AgentStepIsCall, CallKeepsLease
  <2>. QED
    BY <2>1
<1>15. CASE UNCHANGED vars
  BY <1>15 DEF vars
<1>. QED
  BY <1>1, <1>2, <1>3, <1>4, <1>5, <1>6, <1>7, <1>8, <1>9, <1>10, <1>11, <1>12, <1>13,
     <1>14, <1>15
  DEF Next, DriverStep

-----------------------------------------------------------------------------
(* The cursor.                                                             *)

\* Only Ack moves the cursor.
LEMMA AgentKeepsTurns ==
  ASSUME TypeOK, AgentStep
  PROVE  \/ UNCHANGED <<user, cursor, acked>>
         \/ \E g \in Gens, t \in Turns :
               Ack(g, t) /\ UNCHANGED user
<1>1. UNCHANGED user
  BY AgentStepIsCall, CallKeepsLease
<1>. QED
  BY <1>1 DEF AgentStep, Receive, Fetch, Send, Ask, SendTargeted, agent

LEMMA DriverKeepsTurns ==
  ASSUME DriverStep
  PROVE  /\ UNCHANGED <<stamp, clock, late, cursor, acked>>
         /\ feedback' = feedback \/ feedback' = NoFeedback
  BY DEF DriverStep, Wake, Switch, Inspect, Stop, Kill, Claim, Spawn, Spawns,
         SpawnsNothing, SpawnsUndelivered, Activate, Check, Discard, Restart, Ages, Exits,
         user, agent

\* No other turn is ahead of the cursor and as early as the next one.
LEMMA NextIsUnique ==
  ASSUME TypeOK, TurnInv, NEW t \in Turns, IsNext(t),
         NEW u \in Turns, stamp[u] > cursor, stamp[u] <= stamp[t]
  PROVE  u = t
<1>1. cursor \in Nat /\ stamp[t] \in Nat /\ stamp[u] \in Nat
  BY DEF TypeOK
<1>2. stamp[t] > cursor /\ stamp[t] <= stamp[u]
  BY DEF IsNext
<1>3. stamp[u] = stamp[t] /\ stamp[t] # 0
  BY <1>1, <1>2
<1>. QED
  BY <1>3 DEF TurnInv

\* A turn that is inserted behind the cursor is late.
LEMMA InsertKeepsTurns ==
  ASSUME TypeOK, TurnInv, NothingSkipped, InsertFeedback
  PROVE  TurnInv' /\ NothingSkipped'
<1>1. /\ feedback.turn \in Plain /\ feedback.turn # Nothing
      /\ feedback.at \in Nat /\ cursor \in Nat /\ feedback.at # 0
      /\ feedback.at # cursor /\ feedback.at <= clock
      /\ \A t \in Turns : stamp[t] # feedback.at /\ stamp[t] \in Nat
  BY DEF InsertFeedback, TypeOK, TurnInv, NoFeedback
<1>2. /\ \A t \in Turns : stamp'[t] = IF t = feedback.turn THEN feedback.at ELSE stamp[t]
      /\ feedback'.turn = Nothing /\ feedback'.at = 0
      /\ late' = IF feedback.at < cursor THEN late \union {feedback.turn} ELSE late
      /\ UNCHANGED <<clock, cursor, acked>>
  BY <1>1 DEF InsertFeedback, TypeOK, NoFeedback, agent
<1>3. TurnInv'
  BY <1>1, <1>2 DEF TurnInv, Turns
<1>4. ASSUME NEW t \in Turns, stamp'[t] \in 1 .. cursor'
      PROVE  acked'[t] # 0 \/ t \in late'
  <2>1. CASE t = feedback.turn
    <3>1. feedback.at <= cursor
      BY <1>1, <1>2, <1>4, <2>1
    <3>2. feedback.at < cursor
      BY <1>1, <3>1
    <3>. QED
      BY <1>2, <2>1, <3>2
  <2>2. CASE t # feedback.turn
    BY <1>2, <1>4, <2>2 DEF NothingSkipped
  <2>. QED
    BY <2>1, <2>2
<1>. QED
  BY <1>3, <1>4 DEF NothingSkipped

LEMMA TurnStep ==
  ASSUME TypeOK, TurnInv, NothingSkipped, [Next]_vars
  PROVE  TurnInv' /\ NothingSkipped'
<1>. USE AgentAssumption DEF TypeOK, TurnInv, NothingSkipped, Turns, NoFeedback
<1>1. ASSUME NEW t \in Turns, Post(t) PROVE TurnInv' /\ NothingSkipped'
  <2>1. /\ \A u \in Turns : stamp'[u] = IF u = t THEN clock + 1 ELSE stamp[u]
        /\ clock' = clock + 1
        /\ UNCHANGED <<feedback, late, cursor, acked>>
        /\ stamp[t] = 0 /\ feedback.turn # t
    BY <1>1 DEF Post, agent
  <2>2. TurnInv'
    BY <2>1
  <2>3. NothingSkipped'
    BY <2>1
  <2>. QED
    BY <2>2, <2>3
<1>2. ASSUME NEW t \in Plain, DrawFeedback(t) PROVE TurnInv' /\ NothingSkipped'
  <2>1. /\ feedback'.turn = t /\ feedback'.at = clock + 1 /\ clock' = clock + 1
        /\ UNCHANGED <<stamp, late, cursor, acked>>
        /\ stamp[t] = 0
    BY <1>2 DEF DrawFeedback, agent
  <2>. QED
    BY <2>1
<1>3. CASE InsertFeedback
  BY <1>3, InsertKeepsTurns
<1>4. ASSUME NEW g \in Gens, NEW t \in Turns, Ack(g, t), UNCHANGED user
      PROVE  TurnInv' /\ NothingSkipped'
  <2>1. /\ IsNext(t) /\ cursor' = stamp[t] /\ g # 0
        /\ \A u \in Turns : acked'[u] = IF u = t THEN g ELSE acked[u]
        /\ UNCHANGED <<stamp, clock, feedback, late>>
    BY <1>4 DEF Ack, user, Gens
  <2>2. /\ cursor < stamp[t] /\ stamp[t] <= clock
        /\ \A u \in Turns : stamp[u] > cursor /\ stamp[u] <= stamp[t] => u = t
    BY <2>1, NextIsUnique DEF IsNext
  <2>3. TurnInv'
    BY <2>1, <2>2
  <2>4. NothingSkipped'
    <3>. SUFFICES ASSUME NEW u \in Turns, stamp[u] # 0, stamp[u] <= stamp[t]
                  PROVE  acked'[u] # 0 \/ u \in late
      BY <2>1
    <3>1. CASE stamp[u] <= cursor
      BY <2>1, <3>1
    <3>2. CASE stamp[u] > cursor
      BY <2>1, <2>2, <3>2
    <3>. QED
      BY <3>1, <3>2
  <2>. QED
    BY <2>3, <2>4
<1>5. ASSUME UNCHANGED <<stamp, clock, late, cursor, acked>>,
             feedback' = feedback \/ feedback' = NoFeedback
      PROVE  TurnInv' /\ NothingSkipped'
  BY <1>5
<1>6. CASE Close
  BY <1>5, <1>6 DEF Close, user, agent
<1>7. CASE DriverStep
  BY <1>5, <1>7, DriverKeepsTurns
<1>8. CASE AgentStep
  BY <1>4, <1>5, <1>8, AgentKeepsTurns DEF user
<1>9. CASE UNCHANGED vars
  BY <1>5, <1>9 DEF vars, user, agent
<1>. QED
  BY <1>1, <1>2, <1>3, <1>6, <1>7, <1>8, <1>9 DEF Next, UserStep

-----------------------------------------------------------------------------
(* Receipts and replies.                                                   *)

LEMMA OnlyCallsSpeak ==
  ASSUME UserStep \/ DriverStep \/ UNCHANGED vars
  PROVE  UNCHANGED <<acked, receipts, reply, messages>>
<1>1. CASE UserStep
  BY <1>1 DEF UserStep, Post, DrawFeedback, InsertFeedback, Close, agent
<1>2. CASE DriverStep
  BY <1>2 DEF DriverStep, Wake, Switch, Inspect, Stop, Kill, Claim, Spawn, Spawns,
         SpawnsNothing, SpawnsUndelivered, Activate, Check, Discard, Restart, Ages, Exits, agent
<1>3. CASE UNCHANGED vars
  BY <1>3 DEF vars, agent
<1>. QED
  BY <1>1, <1>2, <1>3

\* A reply binds the receipts it names to a message about their turn, and
\* unbinds none.
LEMMA ReplyBinds ==
  ASSUME TypeOK, ReplyInv, AckedTurnWasAnswered,
         NEW g \in Gens, NEW t \in Targeted, NEW m \in Replies, SendTargeted(g, t, m)
  PROVE  ReplyInv' /\ AckedTurnWasAnswered'
<1>. USE AgentAssumption DEF Gens
<1>1. /\ UNCHANGED <<cursor, acked, receipts>>
      /\ MayReply(g, t, m)
      /\ messages' = IF messages[m].from = 0
                     THEN [messages EXCEPT ![m] = [from |-> g, about |-> t]] ELSE messages
      /\ reply' = [r \in Gens \X Targeted |->
                     IF r \in {<<g, t>>, <<messages'[m].from, t>>} THEN m ELSE reply[r]]
  BY DEF SendTargeted
<1>2. /\ messages'[m].about = t /\ messages'[m].from # 0
      /\ <<g, t>> \in receipts /\ <<messages'[m].from, t>> \in receipts
      /\ \A n \in Replies : n # m => messages'[n] = messages[n]
      /\ messages[m].from # 0 => messages'[m] = messages[m]
  <2>1. <<g, t>> \in receipts
    BY <1>1 DEF MayReply
  <2>2. CASE messages[m].from = 0
    <3>1. messages' = [messages EXCEPT ![m] = [from |-> g, about |-> t]]
      BY <1>1, <2>2
    <3>. QED
      BY <2>1, <2>2, <3>1 DEF TypeOK
  <2>3. CASE messages[m].from # 0
    <3>1. messages' = messages
      BY <1>1, <2>3
    <3>2. messages[m].about = t /\ <<messages[m].from, t>> \in receipts
      BY <1>1, <2>3 DEF MayReply
    <3>. QED
      BY <2>1, <2>3, <3>1, <3>2
  <2>. QED
    BY <2>2, <2>3
<1>3. ReplyInv'
  BY <1>2 DEF ReplyInv
<1>4. ASSUME NEW r \in Gens \X Targeted, reply'[r] # Nothing
      PROVE  r \in receipts' /\ messages'[reply'[r]].about = r[2]
  <2>1. CASE r \in {<<g, t>>, <<messages'[m].from, t>>}
    BY <1>1, <1>2, <2>1
  <2>2. CASE r \notin {<<g, t>>, <<messages'[m].from, t>>}
    <3>1. reply'[r] = reply[r] /\ reply[r] # Nothing /\ reply[r] \in Replies
      BY <1>1, <1>4, <2>2 DEF TypeOK
    <3>2. r \in receipts /\ messages[reply[r]].about = r[2] /\ r[2] \in Targeted
      BY <3>1 DEF AckedTurnWasAnswered
    <3>3. messages[reply[r]].about # Nothing
      BY <3>2 DEF Turns
    <3>4. messages[reply[r]].from # 0
      BY <3>1, <3>3 DEF ReplyInv
    <3>5. messages'[reply[r]] = messages[reply[r]]
      BY <1>2, <3>1, <3>4
    <3>. QED
      BY <1>1, <3>1, <3>2, <3>5
  <2>. QED
    BY <2>1, <2>2
<1>5. ASSUME NEW u \in Targeted, acked'[u] # 0
      PROVE  reply'[<<acked'[u], u>>] # Nothing
  <2>1. acked'[u] = acked[u] /\ acked[u] \in Gens /\ reply[<<acked[u], u>>] # Nothing
    BY <1>1, <1>5 DEF AckedTurnWasAnswered, TypeOK, Turns
  <2>2. m # Nothing /\ <<acked[u], u>> \in Gens \X Targeted
    BY <2>1 DEF Turns
  <2>. QED
    BY <1>1, <2>1, <2>2
<1>. QED
  BY <1>3, <1>4, <1>5 DEF AckedTurnWasAnswered

LEMMA ReplyStep ==
  ASSUME TypeOK, ReplyInv, AckedTurnWasAnswered, [Next]_vars
  PROVE  ReplyInv' /\ AckedTurnWasAnswered'
<1>1. ASSUME UNCHANGED <<acked, reply, messages>>, receipts \subseteq receipts'
      PROVE  ReplyInv' /\ AckedTurnWasAnswered'
  BY <1>1 DEF ReplyInv, AckedTurnWasAnswered
<1>2. CASE UserStep \/ DriverStep \/ UNCHANGED vars
  BY <1>1, <1>2, OnlyCallsSpeak
<1>3. ASSUME NEW g \in Gens, Receive(g) PROVE ReplyInv' /\ AckedTurnWasAnswered'
  BY <1>1, <1>3 DEF Receive, agent
<1>4. ASSUME NEW g \in Gens, NEW t \in Targeted, Fetch(g, t)
      PROVE  ReplyInv' /\ AckedTurnWasAnswered'
  BY <1>1, <1>4 DEF Fetch
<1>5. ASSUME NEW g \in Gens, NEW m \in Replies, Send(g, m) \/ Ask(g, m)
      PROVE  ReplyInv' /\ AckedTurnWasAnswered'
  <2>1. /\ messages[m].from = 0
        /\ messages' = [messages EXCEPT ![m] = [from |-> g, about |-> Nothing]]
        /\ UNCHANGED <<acked, receipts, reply>>
    BY <1>5 DEF Send, Ask
  <2>2. /\ \A n \in Replies : messages'[n].about = messages[n].about
        /\ messages'[m].from = g /\ messages'[m].about = Nothing
        /\ \A n \in Replies : n # m => messages'[n] = messages[n]
    BY <2>1 DEF TypeOK, ReplyInv
  <2>3. ReplyInv'
    BY <2>2 DEF ReplyInv
  <2>4. \A r \in Gens \X Targeted : reply[r] # Nothing => reply[r] \in Replies
    BY DEF TypeOK
  <2>. QED
    BY <2>1, <2>2, <2>3, <2>4 DEF AckedTurnWasAnswered
<1>6. ASSUME NEW g \in Gens, NEW t \in Turns, Ack(g, t)
      PROVE  ReplyInv' /\ AckedTurnWasAnswered'
  <2>1. /\ t \in Targeted => reply[<<g, t>>] # Nothing
        /\ \A u \in Turns : acked'[u] = IF u = t THEN g ELSE acked[u]
        /\ UNCHANGED <<receipts, reply, messages>>
    BY <1>6 DEF Ack, TypeOK
  <2>. QED
    BY <2>1 DEF ReplyInv, AckedTurnWasAnswered, Turns
<1>. QED
  BY <1>2, <1>3, <1>4, <1>5, <1>6, ReplyBinds DEF Next, AgentStep

-----------------------------------------------------------------------------
(* The drivers.                                                            *)

LEMMA DriversStep ==
  ASSUME TypeOK, WakerInv, DriverInv, [Next]_vars
  PROVE  DriverInv'
<1>. SUFFICES ASSUME faults' = 0 PROVE DriverInv'
  BY DEF DriverInv
<1>. USE AgentAssumption DEF TypeOK, Leases, Steps, WakerInv, DriverInv, NoneLive,
         user, agent, driver, Goto, Busy, Idle
<1>1. CASE UserStep
  <2>1. UNCHANGED <<driver, faults>> /\ lease'.gen = lease.gen /\ lease'.pid = lease.pid
    BY <1>1 DEF UserStep, Post, DrawFeedback, InsertFeedback, Close
  <2>2. lease'.status \in {lease.status, "stopped"}
    BY <1>1 DEF UserStep, Post, DrawFeedback, InsertFeedback, Close
  <2>. QED
    BY <2>1, <2>2
<1>2. ASSUME NEW m \in Models, Wake(m) \/ Switch(m) PROVE DriverInv'
  BY <1>2 DEF Wake, Switch
<1>3. CASE Inspect
  BY <1>3 DEF Inspect, Gens
<1>4. CASE Stop
  BY <1>4 DEF Stop
<1>5. CASE Kill
  BY <1>5 DEF Kill, Terminate
<1>6. CASE Claim
  BY <1>6 DEF Claim
<1>7. CASE Spawn
  <2>0. faults = 0
    BY <1>7 DEF Spawn, Spawns, SpawnsNothing, SpawnsUndelivered
  <2>1. /\ NoneLive /\ faults = 0 /\ lease.gen \in Gens
        /\ lease.status \in {"starting", "stopped"}
    BY <1>7, <2>0 DEF Spawn, Gens
  <2>2. CASE /\ procs' = [procs EXCEPT ![lease.gen] = "live"]
             /\ owned' = owned \union {lease.gen}
             /\ Goto("activate")
             /\ UNCHANGED lease
    <3>1. /\ \A g \in Gens : procs'[g] = "live" => g = lease.gen
          /\ lease.gen \in owned'
          /\ lease.status # "spawn_failed"
      BY <2>1, <2>2
    <3>. QED
      BY <2>2, <3>1
  <2>3. CASE lease' = Failed /\ waker' = Idle /\ UNCHANGED <<procs, owned>>
    BY <2>1, <2>3 DEF Failed
  <2>4. CASE /\ lease' = Failed /\ waker' = Idle
             /\ procs' = [procs EXCEPT ![lease.gen] = "dead"]
    <3>1. \A g \in Gens : procs'[g] # "live"
      BY <2>1, <2>4
    <3>. QED
      BY <2>1, <2>4, <3>1 DEF Failed
  <2>. QED
    BY <1>7, <2>1, <2>2, <2>3, <2>4 DEF Spawn, Spawns, SpawnsNothing, SpawnsUndelivered
<1>8. CASE Activate
  <2>1. waker.pc = "activate" /\ UNCHANGED <<procs, owned, faults>>
    BY <1>8 DEF Activate
  <2>2. CASE /\ lease' = [lease EXCEPT !.status = "running", !.pid = TRUE, !.fresh = TRUE]
             /\ Goto("check")
    BY <2>1, <2>2
  <2>3. CASE lease.status # "starting" /\ UNCHANGED lease /\ Goto("discard")
    BY <2>1, <2>3
  <2>. QED
    BY <1>8, <2>2, <2>3 DEF Activate
<1>9. CASE Check
  <2>1. waker.pc = "check" /\ UNCHANGED <<procs, owned, faults>> /\ lease'.gen = lease.gen
    BY <1>9 DEF Check, Failed
  <2>2. CASE UNCHANGED lease /\ waker' = Idle
    BY <1>9, <2>1, <2>2
  <2>3. CASE procs[lease.gen] = "dead" /\ lease' = Failed /\ Goto("discard")
    BY <1>9, <2>1, <2>3 DEF Failed
  <2>4. CASE lease' = [lease EXCEPT !.status = "stopped"] /\ Goto("discard")
    BY <1>9, <2>1, <2>4
  <2>. QED
    BY <1>9, <2>2, <2>3, <2>4 DEF Check
<1>10. CASE Discard
  BY <1>10 DEF Discard, Terminate
<1>11. CASE Restart
  BY <1>11 DEF Restart
<1>12. CASE Ages
  BY <1>12 DEF Ages
<1>13. ASSUME NEW g \in Gens, Exits(g) PROVE DriverInv'
  BY <1>13 DEF Exits
<1>14. CASE AgentStep
  <2>1. /\ UNCHANGED <<driver, faults>>
        /\ lease'.gen = lease.gen /\ lease'.status = lease.status /\ lease'.pid = lease.pid
    BY <1>14, AgentStepIsCall, CallKeepsLease
  <2>. QED
    BY <2>1
<1>15. CASE UNCHANGED vars
  BY <1>15 DEF vars
<1>. QED
  BY <1>1, <1>2, <1>3, <1>4, <1>5, <1>6, <1>7, <1>8, <1>9, <1>10, <1>11, <1>12, <1>13,
     <1>14, <1>15
  DEF Next, DriverStep

-----------------------------------------------------------------------------
(* The fence.                                                              *)

\* What a generation has lost it never gets back.
LEMMA RevokedStays ==
  ASSUME TypeOK, WakerInv, [Next]_vars, NEW g \in Gens, Revoked(g)
  PROVE  Revoked(g)'
<1>. USE AgentAssumption DEF TypeOK, Leases, WakerInv, Revoked, Gens, driver, Goto, Busy
<1>1. ASSUME lease'.gen = lease.gen, conv = "closed" => conv' = "closed",
             lease.status \in {"stopped", "spawn_failed"}
                => lease'.status \in {"stopped", "spawn_failed"}
      PROVE  Revoked(g)'
  BY <1>1
<1>2. CASE UserStep
  <2>1. CASE UNCHANGED <<conv, lease>>
    BY <1>1, <2>1
  <2>2. CASE Close
    BY <1>1, <2>2 DEF Close
  <2>. QED
    BY <1>2, <2>1, <2>2 DEF UserStep, Post, DrawFeedback, InsertFeedback
<1>3. CASE UNCHANGED <<conv, lease>>
  BY <1>1, <1>3
<1>4. CASE Stop
  BY <1>1, <1>4 DEF Stop
<1>5. CASE Claim
  <2>1. CASE lease'.gen = lease.gen + 1
    BY <2>1
  <2>2. CASE UNCHANGED <<conv, lease>>
    BY <1>1, <2>2
  <2>. QED
    BY <1>5, <2>1, <2>2 DEF Claim
<1>6. CASE Spawn \/ Check
  <2>1. /\ UNCHANGED conv
        /\ \/ lease' = lease
           \/ lease' = [lease EXCEPT !.status = "spawn_failed", !.pid = FALSE]
           \/ lease' = [lease EXCEPT !.status = "stopped"]
    BY <1>6 DEF Spawn, Spawns, SpawnsNothing, SpawnsUndelivered, Check, Failed
  <2>2. /\ lease'.gen = lease.gen
        /\ lease'.status \in {lease.status, "spawn_failed", "stopped"}
    BY <2>1, FailedLeases
  <2>. QED
    BY <1>1, <2>1, <2>2
<1>7. CASE Activate
  BY <1>1, <1>7 DEF Activate
<1>8. CASE Ages
  BY <1>1, <1>8 DEF Ages
<1>9. CASE AgentStep
  BY <1>1, <1>9, AgentStepIsCall, CallKeepsLease
<1>10. CASE DriverStep
  BY <1>3, <1>4, <1>5, <1>6, <1>7, <1>8, <1>10
  DEF DriverStep, Wake, Switch, Inspect, Kill, Discard, Restart, Exits
<1>11. CASE UNCHANGED vars
  BY <1>3, <1>11 DEF vars
<1>. QED
  BY <1>2, <1>9, <1>10, <1>11 DEF Next

\* A generation that may act is not revoked, and its deeds are its own.
LEMMA RevokedIsIdle ==
  ASSUME TypeOK, TurnInv, [Next]_vars, NEW g \in Gens, Revoked(g)
  PROVE  Deeds(g)' = Deeds(g)
<1>1. ASSUME UNCHANGED <<acked, receipts, messages>> PROVE Deeds(g)' = Deeds(g)
  BY <1>1 DEF Deeds
<1>2. CASE UserStep \/ DriverStep \/ UNCHANGED vars
  BY <1>1, <1>2, OnlyCallsSpeak
<1>3. ASSUME NEW h \in Gens, Call(h) PROVE h # g /\ h # 0 /\ g # 0
  <2>1. MayAct(h)
    BY <1>3, CallKeepsLease
  <2>. QED
    BY <2>1 DEF MayAct, Revoked, TypeOK, Leases, Gens
<1>4. ASSUME NEW h \in Gens, Receive(h) PROVE Deeds(g)' = Deeds(g)
  BY <1>1, <1>4 DEF Receive, agent
<1>5. ASSUME NEW h \in Gens, NEW t \in Targeted, Fetch(h, t) PROVE Deeds(g)' = Deeds(g)
  <2>1. /\ h # g /\ receipts' = receipts \union {<<h, t>>}
        /\ UNCHANGED <<acked, messages>>
    BY <1>3, <1>5 DEF Fetch
  <2>2. {r \in receipts' : r[1] = g} = {r \in receipts : r[1] = g}
    BY <2>1
  <2>. QED
    BY <2>1, <2>2 DEF Deeds
<1>6. ASSUME NEW h \in Gens, NEW m \in Replies,
             \/ Send(h, m) \/ Ask(h, m)
             \/ \E t \in Targeted : SendTargeted(h, t, m)
      PROVE  Deeds(g)' = Deeds(g)
  <2>1. /\ h # g /\ g # 0
        /\ UNCHANGED <<acked, receipts>>
        /\ \/ UNCHANGED messages
           \/ messages[m].from = 0 /\ \E about \in Targeted \union {Nothing} :
                 messages' = [messages EXCEPT ![m] = [from |-> h, about |-> about]]
    BY <1>3, <1>6 DEF Send, Ask, SendTargeted
  <2>2. {n \in Replies : messages'[n].from = g} = {n \in Replies : messages[n].from = g}
    BY <2>1 DEF TypeOK
  <2>. QED
    BY <2>1, <2>2 DEF Deeds
<1>7. ASSUME NEW h \in Gens, NEW t \in Turns, Ack(h, t) PROVE Deeds(g)' = Deeds(g)
  <2>1. /\ h # g /\ g # 0 /\ stamp[t] > cursor
        /\ acked' = [acked EXCEPT ![t] = h]
        /\ UNCHANGED <<receipts, messages>>
    BY <1>3, <1>7 DEF Ack, IsNext
  <2>2. acked[t] = 0
    BY <2>1 DEF TurnInv, TypeOK
  <2>3. {u \in Turns : acked'[u] = g} = {u \in Turns : acked[u] = g}
    BY <2>1, <2>2 DEF TypeOK
  <2>. QED
    BY <2>1, <2>3 DEF Deeds
<1>. QED
  BY <1>2, <1>4, <1>5, <1>6, <1>7 DEF Next, AgentStep

-----------------------------------------------------------------------------
(* The theorems.                                                           *)

\* The inductive invariant holds in every state.
THEOREM Invariance == Spec => []IInv
<1>1. Init => IInv
  BY InitHolds
<1>2. IInv /\ [Next]_vars => IInv'
  BY TypesStep, WakerStep, TurnStep, ReplyStep, DriversStep DEF IInv
<1>. QED
  BY <1>1, <1>2, PTL DEF Spec

\* The types of the lease, the inbox and the receipts hold in every state.
THEOREM TypeCorrect == Spec => []TypeOK
<1>1. IInv => TypeOK
  BY DEF IInv
<1>. QED
  BY <1>1, Invariance, PTL

\* A targeted turn is acknowledged only by a generation whose receipt is bound
\* to a message that answers it (ack_user_message, targeted_reply_context).
THEOREM TurnsAreAnswered == Spec => []AckedTurnWasAnswered
<1>1. IInv => AckedTurnWasAnswered
  BY DEF IInv
<1>. QED
  BY <1>1, Invariance, PTL

\* The consumer's cursor passes no turn that was not acknowledged, but for
\* feedback inserted behind it (ack_user_message, post_feedback_message).
THEOREM CursorSkipsNothing == Spec => []NothingSkipped
<1>1. IInv => NothingSkipped
  BY DEF IInv
<1>. QED
  BY <1>1, Invariance, PTL

\* While the dashboard runs and its terminations succeed, the lease names every
\* driver that is alive between two wakes (ensure_document_agent).
THEOREM NoDriverIsLost == Spec => []NoStrayDriver
<1>1. IInv => NoStrayDriver
  <2>. SUFFICES ASSUME IInv, faults = 0, waker = Idle,
                       NEW g \in Gens, procs[g] = "live"
                PROVE  lease.gen = g /\ lease.pid
    BY DEF NoStrayDriver
  <2>1. waker.pc = "idle"
    BY DEF Idle
  <2>. QED
    BY <2>1 DEF IInv, DriverInv
<1>. QED
  BY <1>1, Invariance, PTL

\* A generation that was fenced, failed, replaced or closed upon stays so and
\* never fetches, sends or acknowledges again (conversation_agent_write_guard).
THEOREM FenceHolds == Spec => StaysRevoked
<1>1. IInv /\ [Next]_vars
         => [\A g \in Gens : Revoked(g) => Revoked(g)' /\ Deeds(g)' = Deeds(g)]_vars
  BY RevokedStays, RevokedIsIdle DEF IInv
<1>. QED
  BY <1>1, Invariance, PTL DEF Spec, StaysRevoked
=============================================================================
