------------------------- MODULE ThreadEngineProofs -------------------------
(***************************************************************************)
(* Proofs about ThreadEngine, for any users, routes and numbers of requests *)
(* and deaths.  Beside types, the shape of jobs and the fact that nothing   *)
(* lands between an event and the write of its row (LastInv), IInv says:    *)
(* somebody is on duty for every state that is the machine's turn           *)
(* (DutyInv); a lock that is behind the log is owed by somebody who will    *)
(* write it (OwedInv); and a run has the thread to itself (RunInv): who is  *)
(* appending a transition decided it from the row as it still reads, or is  *)
(* dismissing the thread.                                                   *)
(***************************************************************************)
EXTENDS ThreadEngine, TLAPS

InferEnds == {"inference_done", "inference_failed"}
RunEnds == {"execution_done", "execution_failed"}
CleanEnds == {"cleanup_succeeded", "cleanup_failed"}

Appending == {"pin", "decide", "check", "insert", "cache"}

\* Nobody holds an event of the future, and an inference has its target.
Holds(p) ==
    /\ job[p].at <= head
    /\ pc[p] \in {"claimed", "infer"} => job[p].target \in TargetSet

HoldsInv == \A p \in Processes : Holds(p)

Free(what) == mishaps \cap what = {}

(* An idle process has no job; a transition being appended is of the table;   *)
(* a handler reports with a transition that is pinned.                        *)
Fits(p) ==
    /\ pc[p] \in {"idle", "dead"} => job[p] = NoJob
    /\ pc[p] \in {"check", "insert", "cache"} /\ job[p].kind = "transition" =>
          \E s \in States : <<s, job[p].trigger, job[p].to>> \in TransitionTable
    /\ /\ pc[p] \in {"decide", "check", "insert", "cache"}
       /\ \/ job[p].kind \in {"started", "finished", "cleanup"}
          \/ job[p].kind = "transition" /\ job[p].trigger \in RunEnds \cup CleanEnds
       => job[p].pinned
    /\ pc[p] = "decide" => job[p].kind = "transition"
    /\ pc[p] \in {"claimed", "infer"} => job[p].kind = "transition"
    /\ pc[p] = "skill" => job[p].kind = "started"
    /\ pc[p] \in {"enqueue", "execute", "clean"} =>
          job[p].kind \in {"transition", "audit"} /\ Handler(job[p].to) = pc[p]
    /\ job[p].kind = "finished" => job[p].trigger \in RunEnds
    /\ job[p].kind = "cleanup" => job[p].trigger \in CleanEnds
    /\ pc[p] = "pin" => job[p].kind # "audit"
    /\ pc[p] = "cache" => job[p].kind \notin {"cleanup", "later", "promoting"}

JobInv == \A p \in Processes : Fits(p)

-----------------------------------------------------------------------------
(* Duty: who moves the thread on from a state of the machine.                *)

Queueing(p) ==
    pc[p] \in {"enqueue", "claimed"} \/ (job[p].kind = "audit" /\ job[p].to = "awaiting_inference")

Answering(p) ==
    \/ pc[p] = "infer"
    \/ /\ job[p].kind = "transition" /\ job[p].trigger \in InferEnds /\ job[p].pinned
       /\ pc[p] \in Appending

(* From the row's write on: the audit, the handler, the skill, the report.   *)
Started(p) ==
    \/ pc[p] \in {"execute", "skill"}
    \/ job[p].kind \in {"started", "finished"}
    \/ job[p].kind = "audit" /\ job[p].to = "executing"
    \/ job[p].kind = "transition" /\ job[p].trigger \in RunEnds /\ pc[p] \in Appending

Cleaning(p) ==
    \/ pc[p] = "clean" \/ job[p].kind = "cleanup"
    \/ job[p].kind = "audit" /\ job[p].to = "cleaning_up"
    \/ job[p].kind = "transition" /\ job[p].trigger \in CleanEnds /\ pc[p] \in Appending

DutyInv ==
    /\ state = "awaiting_inference" /\ Free({"rejected", "death"}) =>
          pending # <<>> \/ \E p \in Processes : Queueing(p)
    /\ state \in InferringStates /\ Free({"refused", "death"}) =>
          \E p \in Processes : Answering(p)
    /\ state = "executing" /\ Free({"refused", "no_proposal", "death"}) =>
          \E p \in Processes : Started(p)
    /\ state = "cleaning_up" /\ Free({"refused", "death"}) =>
          \E p \in Processes : Cleaning(p)

-----------------------------------------------------------------------------
(* The lock: who brings it up to the log.                                     *)

(* Nothing lands between an event and the write of its row.                   *)
LastInv ==
    Free({"overlap"}) =>
        /\ \A p \in Processes : pc[p] = "cache" => job[p].at = head
        /\ \A p, q \in Processes : pc[p] = "cache" /\ pc[q] = "cache" => p = q

Owes(p) ==
    \/ pc[p] \in {"cache", "promote"}
    \/ pc[p] = "pin" /\ job[p].kind \notin UserEvents
    \/ /\ pc[p] \in {"decide", "check", "insert"}
       /\ job[p].pinned /\ job[p].kind \notin UserEvents \cup {"audit"}

OwedInv ==
    Free({"refused", "deferred", "overlap", "death"}) =>
        lock \in {0, head} \/ \E p \in Processes : Owes(p)

-----------------------------------------------------------------------------
(* The run.                                                                   *)

Clean == Free({"overlap", "unchecked", "torn_read", "stale_claim", "stale_promotion"})

(* A transition that will land, unless another event does first.              *)
Viable(p) ==
    /\ job[p].kind = "transition"
    /\ \/ pc[p] \in {"check", "insert"} /\ job[p].at = head
       \/ pc[p] = "cache"

Dismisses(p) == job[p].to = "dismissed"

(* A write of the row leaves the table only to dismiss; a transition that     *)
(* will land was decided from the state as it is.                              *)
Steady(p) ==
    /\ pc[p] = "insert" => job[p].at \in {0, head}
    /\ pc[p] = "cache" /\ job[p].kind = "transition" /\ lock = head => Dismisses(p)
    /\ Viable(p) => \/ Dismisses(p) \/ state = "dismissed"
                    \/ <<state, job[p].trigger, job[p].to>> \in TransitionTable
    /\ Started(p) => state \in {"executing", "dismissed"}

Apart(p, q) ==
    /\ pc[p] = "cache" /\ job[p].kind = "transition" /\ Viable(q) =>
          Dismisses(p) \/ Dismisses(q)
    /\ Started(p) /\ Viable(q) => Dismisses(q)
    /\ ~(Started(p) /\ Started(q))

RunInv ==
    Clean =>
      /\ \A p \in Processes : Steady(p)
      /\ \A p, q \in Processes : p # q => Apart(p, q)

IInv == TypeOK /\ HoldsInv /\ JobInv /\ DutyInv /\ LastInv /\ OwedInv /\ RunInv

-----------------------------------------------------------------------------
(* Steps.                                                                    *)

Places == {"idle", "pin", "decide", "check", "insert", "cache", "promote", "enqueue",
           "execute", "skill", "clean", "claimed", "infer", "dead"}

LEMMA Mover ==
  ASSUME TypeOK, NEW p \in Processes, NEW k \in Places, NEW new \in Jobs, Become(p, k, new)
  PROVE  /\ pc' \in [Processes -> Places] /\ job' \in [Processes -> Jobs]
         /\ pc'[p] = k /\ job'[p] = new
         /\ \A q \in Processes \ {p} : pc'[q] = pc[q] /\ job'[q] = job[q]
  BY DEF TypeOK, Become, Places

LEMMA NoJobIsJob == NoJob \in Jobs
  BY DEF NoJob, Call, Jobs, Triggers, UserTriggers, States, Terminal, NonTerminal

\* Where the rows of the table lead.
LEMMA Table ==
  ASSUME NEW s, NEW t, NEW to, <<s, t, to>> \in TransitionTable
  PROVE  /\ s \in NonTerminal /\ t \in Triggers /\ to \in States \ InferringStates
         /\ t \in RunEnds => to \in {"done", "awaiting_review", "awaiting_redirect"}
         /\ t \in CleanEnds => to \in {"done_cleanup_successful", "done_cleanup_unsuccessful"}
         /\ to = "executing" => s \in {"inferring_action", "awaiting_confirmation"}
         /\ s = "awaiting_inference" => to = "dismissed"
         /\ s = "executing" /\ t \notin RunEnds => to = "dismissed"
  BY DEF TransitionTable, NonTerminal, Terminal, States, CleanableStates, Confirmations,
     Clarifications, InferringStates, Inferring, TargetSet, Triggers, UserTriggers,
     RunEnds, CleanEnds

LEMMA LookedUp ==
  ASSUME NEW s, NEW t, NEW to \in Lookup(s, t)
  PROVE  <<s, t, to>> \in TransitionTable
<1>1. PICK r \in TransitionTable : r[1] = s /\ r[2] = t /\ r[3] = to
  BY DEF Lookup
<1>2. TransitionTable \subseteq States \X Triggers \X States
  BY DEF TransitionTable, NonTerminal, Terminal, States, CleanableStates, Confirmations,
     Clarifications, InferringStates, Inferring, TargetSet, Triggers, UserTriggers
<1>. QED
  BY <1>1, <1>2

LEMMA CallIsJob ==
  ASSUME NEW trigger \in Triggers, NEW target \in TargetSet \cup {"next"},
         NEW pinned \in BOOLEAN, NEW nested \in BOOLEAN
  PROVE  Call(trigger, target, pinned, nested) \in Jobs
  BY DEF Call, Jobs, States, Terminal

Serve(u) ==
    \/ RedirectAction(u) \/ Later(u) \/ EditAndAccept(u) \/ PickAction(u) \/ NoteEvent(u)
    \/ \E t \in UserTriggers : Request(u, t)

Step(p) ==
    \/ p \in Users /\ Serve(p)
    \/ Decide(p) \/ Refuse(p) \/ Write(p) \/ Handle(p) \/ Die(p)
    \/ p = Poller /\ Poll

LEMMA EveryStep == Next => \E p \in Processes : Step(p)
  BY DEF Next, Step, Serve, Processes

LEMMA NotesAreMishaps ==
  ASSUME mishaps \subseteq Mishaps, NEW what \in Mishaps, NEW happens,
         Note(Mishap(what, happens))
  PROVE  mishaps' \subseteq Mishaps
  BY DEF Note, Mishap

\* What every step by p keeps to.
Moves(p) ==
    /\ pc' \in [Processes -> Places] /\ job' \in [Processes -> Jobs]
    /\ \A q \in Processes \ {p} : pc'[q] = pc[q] /\ job'[q] = job[q]

LEMMA ServeTypes ==
  ASSUME TypeOK, NEW u \in Users, Serve(u)
  PROVE  TypeOK' /\ Moves(u)
<1>. u \in Processes
  BY DEF Processes
<1>. USE DEF Places
<1>0. "redirected" \in Triggers /\ UserTriggers \subseteq Triggers /\ TargetSet = {"intent", "context", "action"}
  BY DEF Triggers, UserTriggers, TargetSet
<1>1. CASE RedirectAction(u)
  <2>1. Call("redirected", "action", TRUE, FALSE) \in Jobs
    BY <1>0, CallIsJob
  <2>2. Moves(u)
    BY <1>1, <2>1, Mover DEF RedirectAction, Moves
  <2>3. mishaps' \subseteq Mishaps
    BY <1>1, NotesAreMishaps DEF RedirectAction, Mishaps, TypeOK
  <2>4. lock' \in 0..head' /\ head' \in Nat
    BY <1>1 DEF RedirectAction, row, TypeOK
  <2>. QED
    BY <1>1, <2>2, <2>3, <2>4, ThreadAssumption DEF RedirectAction, Arrives, row, TypeOK, Moves
<1>2. CASE Later(u)
  <2>1. [NoJob EXCEPT !.kind = "later"] \in Jobs
    BY NoJobIsJob DEF Jobs, UserEvents
  <2>2. Moves(u)
    BY <1>2, <2>1, Mover DEF Later, Moves
  <2>. QED
    BY <1>2, <2>2, ThreadAssumption DEF Later, Arrives, row, log, TypeOK, Moves
<1>3. \A kind \in UserEvents : [NoJob EXCEPT !.kind = kind, !.at = lock] \in Jobs
  <2>1. lock \in Nat
    BY DEF TypeOK
  <2>. QED
    BY <2>1, NoJobIsJob DEF Jobs
<1>4. CASE EditAndAccept(u)
  <2>1. Moves(u)
    BY <1>4, <1>3, Mover DEF EditAndAccept, Record, UserEvents, Moves
  <2>. QED
    BY <1>4, <2>1, ThreadAssumption DEF EditAndAccept, Arrives, row, log, TypeOK, Moves
<1>5. CASE PickAction(u)
  <2>1. Moves(u)
    BY <1>5, <1>3, Mover DEF PickAction, Record, UserEvents, Moves
  <2>. QED
    BY <1>5, <2>1, ThreadAssumption DEF PickAction, Arrives, row, log, TypeOK, Moves
<1>6. CASE NoteEvent(u)
  <2>1. Moves(u)
    BY <1>6, <1>3, Mover DEF NoteEvent, Record, UserEvents, Moves
  <2>. QED
    BY <1>6, <2>1, ThreadAssumption DEF NoteEvent, Arrives, row, log, TypeOK, Moves
<1>7. ASSUME NEW t \in UserTriggers, Request(u, t) PROVE TypeOK' /\ Moves(u)
  <2>1. Call(t, "next", FALSE, FALSE) \in Jobs
    BY <1>0, CallIsJob
  <2>2. Moves(u)
    BY <1>7, <2>1, Mover DEF Request, Moves
  <2>. QED
    BY <1>7, <2>2, ThreadAssumption DEF Request, Arrives, row, log, TypeOK, Moves
<1>. QED
  BY <1>1, <1>2, <1>4, <1>5, <1>6, <1>7 DEF Serve

LEMMA EngineTypes ==
  ASSUME TypeOK, HoldsInv, NEW p \in Processes,
         Decide(p) \/ Refuse(p) \/ Write(p) \/ Handle(p) \/ Die(p)
  PROVE  TypeOK' /\ Moves(p)
<1>. USE DEF Places
<1>0. /\ job[p] \in Jobs /\ job[p].at \in 0..head /\ head \in Nat /\ head + 1 \in Nat /\ lock \in Nat /\ lock \in 0..head
      /\ lock \in 0..(head + 1) /\ head \in 0..head
  BY DEF TypeOK, HoldsInv, Holds, Jobs
<1>1. \A j \in Jobs, k \in Places : Become(p, k, j) => Moves(p)
  BY Mover DEF Moves
<1>2. Finish(p) => Moves(p)
  BY <1>1, NoJobIsJob DEF Finish
<1>3. Report(p) => Moves(p)
  BY <1>0, <1>1 DEF Report, Jobs
<1>4. Enter(p) => Moves(p)
  BY <1>0, <1>1, <1>2 DEF Enter, Handler, Jobs
<1>5. CASE Decide(p)
  <2>1. PICK to \in Lookup(state, job[p].trigger) :
          Become(p, "check", [job[p] EXCEPT !.to = to, !.at = IF job[p].pinned THEN @ ELSE lock])
    BY <1>5 DEF Decide
  <2>2. to \in States
    BY <2>1, LookedUp, Table
  <2>3. Moves(p)
    BY <1>0, <1>1, <2>1, <2>2 DEF Jobs
  <2>4. mishaps' \subseteq Mishaps
    BY <1>5, NotesAreMishaps DEF Decide, Mishaps, TypeOK
  <2>. QED
    BY <1>5, <2>3, <2>4 DEF Decide, row, log, counts, TypeOK, Moves
<1>6. CASE Refuse(p)
  <2>1. mishaps' \subseteq Mishaps
    BY <1>6, NotesAreMishaps DEF Refuse, Mishaps, TypeOK
  <2>. QED
    BY <1>6, <1>2, <2>1 DEF Refuse, row, log, counts, TypeOK, Moves
<1>7. CASE Pin(p)
  <2>1. Moves(p)
    BY <1>7, <1>0, <1>1 DEF Pin, Jobs
  <2>. QED
    BY <1>7, <2>1 DEF Pin, row, log, counts, TypeOK, Moves
<1>8. CASE Check(p)
  <2>1. Moves(p)
    BY <1>8, <1>0, <1>1 DEF Check
  <2>. QED
    BY <1>8, <2>1 DEF Check, row, log, counts, TypeOK, Moves
<1>9. CASE Conflict(p)
  <2>1. Enter(p) \/ Report(p) \/ Become(p, "dead", NoJob) \/ Finish(p)
    BY <1>9 DEF Conflict
  <2>2. Moves(p)
    BY <1>1, <1>2, <1>3, <1>4, <2>1, NoJobIsJob
  <2>3. mishaps' \subseteq Mishaps
    BY <1>9, NotesAreMishaps DEF Conflict, Mishaps, TypeOK
  <2>. QED
    BY <1>9, <2>2, <2>3 DEF Conflict, row, log, counts, TypeOK, Moves
<1>10. CASE Insert(p)
  <2>1. Report(p) \/ Finish(p) \/ Become(p, "promote", job[p])
          \/ Become(p, "cache", [job[p] EXCEPT !.at = head + 1])
    BY <1>10 DEF Insert
  <2>2. Moves(p)
    BY <1>0, <1>1, <1>2, <1>3, <2>1 DEF Jobs
  <2>3. mishaps' \subseteq Mishaps
    BY <1>10 DEF Insert, Note, Mishap, Mishaps, TypeOK
  <2>4. head' = head + 1 /\ proposal' \in BOOLEAN
    BY <1>10 DEF Insert, TypeOK
  <2>. QED
    BY <1>0, <1>10, <2>2, <2>3, <2>4 DEF Insert, row, counts, TypeOK, Moves
<1>11. CASE Promote(p)
  <2>1. Moves(p)
    BY <1>11, <1>0, <1>1 DEF Promote, Jobs, UserEvents
  <2>2. mishaps' \subseteq Mishaps
    BY <1>11, NotesAreMishaps DEF Promote, Mishaps, TypeOK
  <2>3. state' \in States /\ lock' \in 0..head
    BY <1>0, <1>11 DEF Promote, States, NonTerminal, CleanableStates
  <2>. QED
    BY <1>11, <2>1, <2>2, <2>3 DEF Promote, log, counts, TypeOK, Moves
<1>12. CASE Cache(p)
  <2>1. /\ Call("execute", "next", FALSE, FALSE) \in Jobs
        /\ [job[p] EXCEPT !.kind = "audit"] \in Jobs
    <3>1. "execute" \in Triggers
      BY DEF Triggers, UserTriggers
    <3>. QED
      BY <1>0, <3>1, CallIsJob DEF Jobs
  <2>2. Moves(p)
    BY <1>0, <1>1, <1>2, <1>3, <1>4, <1>12, <2>1 DEF Cache, AfterCache
  <2>3. state' \in States /\ lock' \in 0..head
    BY <1>0, <1>12 DEF Cache, LockTarget, TypeOK, Jobs
  <2>. QED
    BY <1>12, <2>2, <2>3 DEF Cache, log, counts, TypeOK, Moves
<1>13. CASE Enqueue(p)
  <2>1. Moves(p)
    BY <1>2, <1>13 DEF Enqueue
  <2>2. pending' \in Seq(TargetSet)
    <3>1. NextTarget \in TargetSet
      BY DEF NextTarget, TargetSet
    <3>2. (IF job[p].target = "next" THEN NextTarget ELSE job[p].target) \in TargetSet
      BY <1>0, <3>1 DEF Jobs
    <3>. QED
      BY <1>13, <3>2 DEF Enqueue, TypeOK
  <2>. QED
    BY <1>13, <2>1, <2>2 DEF Enqueue, row, log, counts, TypeOK, Moves
<1>14. CASE Reject(p)
  <2>1. Call("inference_failed", "next", FALSE, TRUE) \in Jobs
    BY CallIsJob DEF Triggers
  <2>2. Moves(p)
    BY <1>1, <1>14, <2>1 DEF Reject
  <2>. QED
    BY <1>14, <2>2 DEF Reject, Note, Mishaps, row, log, counts, TypeOK, Moves
<1>15. CASE StartRun(p)
  <2>1. Moves(p)
    BY <1>0, <1>1, <1>15 DEF StartRun, Jobs
  <2>. QED
    BY <1>15, <2>1 DEF StartRun, row, log, counts, TypeOK, Moves
<1>16. CASE FailToStart(p)
  <2>. QED
    BY <1>2, <1>16 DEF FailToStart, Note, Mishaps, row, log, counts, TypeOK, Moves
<1>17. CASE RunSkill(p)
  <2>1. PICK outcome \in {"execution_done", "execution_failed"} :
          Become(p, "pin", [job[p] EXCEPT !.kind = "finished", !.trigger = outcome])
    BY <1>17 DEF RunSkill
  <2>2. Moves(p)
    BY <1>0, <1>1, <2>1 DEF Jobs, Triggers
  <2>. QED
    BY <1>17, <2>2 DEF RunSkill, row, log, counts, TypeOK, Moves
<1>18. CASE CleanUp(p)
  <2>1. PICK outcome \in {"cleanup_succeeded", "cleanup_failed"} :
          Become(p, "pin", [job[p] EXCEPT !.kind = "cleanup", !.trigger = outcome])
    BY <1>18 DEF CleanUp
  <2>2. Moves(p)
    BY <1>0, <1>1, <2>1 DEF Jobs, Triggers
  <2>. QED
    BY <1>18, <2>2 DEF CleanUp, row, log, counts, TypeOK, Moves
<1>19. CASE Die(p)
  <2>1. deaths' \in 0..MaxDeaths
    BY <1>19, ThreadAssumption DEF Die, TypeOK
  <2>. QED
    BY <1>2, <1>19, <2>1 DEF Die, Note, Mishaps, row, log, TypeOK, Moves
<1>. QED
  BY <1>5, <1>6, <1>7, <1>8, <1>9, <1>10, <1>11, <1>12, <1>13, <1>14, <1>15, <1>16,
     <1>17, <1>18, <1>19 DEF Write, Handle

LEMMA PollTypes ==
  ASSUME TypeOK, HoldsInv, Poll
  PROVE  TypeOK' /\ Moves(Poller)
<1>. USE DEF Places
<1>. Poller \in Processes
  BY DEF Processes
<1>0. job[Poller] \in Jobs /\ {"inference_done", "inference_failed"} \subseteq Triggers
  BY DEF TypeOK, Triggers
<1>1. \A j \in Jobs, k \in Places : Become(Poller, k, j) => Moves(Poller)
  BY Mover DEF Moves
<1>2. CASE Dequeue
  <2>1. Head(pending) \in TargetSet /\ Tail(pending) \in Seq(TargetSet)
    BY <1>2 DEF Dequeue, TypeOK
  <2>2. Call("inference_done", Head(pending), FALSE, FALSE) \in Jobs
    BY <1>0, <2>1, CallIsJob
  <2>3. Moves(Poller)
    BY <1>1, <1>2, <2>2 DEF Dequeue
  <2>. QED
    BY <1>2, <2>1, <2>3 DEF Dequeue, row, log, counts, TypeOK, Moves
<1>3. CASE SetInferring
  <2>1. state' \in States
    <3>1. job[Poller].target \in TargetSet
      BY <1>3 DEF SetInferring, HoldsInv, Holds
    <3>2. state' \in InferringStates
      BY <1>3, <3>1, Zenon DEF SetInferring, InferringStates
    <3>. QED
      BY <3>2 DEF States, NonTerminal
  <2>2. Moves(Poller)
    BY <1>0, <1>1, <1>3 DEF SetInferring
  <2>3. mishaps' \subseteq Mishaps
    BY <1>3, NotesAreMishaps DEF SetInferring, Mishaps, TypeOK
  <2>. QED
    BY <1>3, <2>1, <2>2, <2>3 DEF SetInferring, log, counts, TypeOK, Moves
<1>4. CASE Infer
  <2>1. Call("inference_done", "next", TRUE, FALSE) \in Jobs
    BY <1>0, CallIsJob
  <2>2. Moves(Poller)
    BY <1>1, <1>4, <2>1 DEF Infer
  <2>3. mishaps' \subseteq Mishaps
    BY <1>4, NotesAreMishaps DEF Infer, Mishaps, TypeOK
  <2>4. inferred' \subseteq TargetSet /\ proposal' \in BOOLEAN
    BY <1>4 DEF Infer, HoldsInv, Holds, TypeOK
  <2>5. head' \in Nat /\ lock' \in 0..head'
    BY <1>4 DEF Infer, row, TypeOK
  <2>. QED
    BY <1>4, <2>2, <2>3, <2>4, <2>5 DEF Infer, row, counts, TypeOK, Moves
<1>5. CASE InferenceFails
  <2>1. Call("inference_failed", "next", TRUE, FALSE) \in Jobs
    BY <1>0, CallIsJob
  <2>2. Moves(Poller)
    BY <1>1, <1>5, <2>1 DEF InferenceFails
  <2>. QED
    BY <1>5, <2>2 DEF InferenceFails, row, log, counts, TypeOK, Moves
<1>. QED
  BY <1>2, <1>3, <1>4, <1>5 DEF Poll

-----------------------------------------------------------------------------
(* The jobs.                                                                  *)

LEMMA OthersFit ==
  ASSUME TypeOK, HoldsInv, JobInv, NEW p \in Processes, Moves(p), head' >= head, head' \in Nat,
         Holds(p)', Fits(p)'
  PROVE  HoldsInv' /\ JobInv'
<1>. SUFFICES ASSUME NEW q \in Processes PROVE Holds(q)' /\ Fits(q)'
  BY DEF HoldsInv, JobInv
<1>1. CASE q = p
  BY <1>1
<1>2. CASE q # p
  <2>1. pc'[q] = pc[q] /\ job'[q] = job[q] /\ job[q].at \in Nat /\ head \in Nat
    BY <1>2 DEF Moves, TypeOK, Jobs
  <2>2. Holds(q)'
    BY <2>1 DEF HoldsInv, Holds
  <2>3. Fits(q)'
    BY <2>1 DEF JobInv, Fits
  <2>. QED
    BY <2>2, <2>3
<1>. QED
  BY <1>1, <1>2

LEMMA Becomes ==
  ASSUME TypeOK, NEW p \in Processes, NEW k, NEW new, Become(p, k, new)
  PROVE  pc'[p] = k /\ job'[p] = new
  BY DEF TypeOK, Become

LEMMA IdleFits ==
  ASSUME TypeOK, NEW p \in Processes, Finish(p), head' \in Nat
  PROVE  Holds(p)' /\ Fits(p)'
  BY Becomes DEF Finish, Holds, Fits, NoJob, Call

LEMMA Recorded ==
  ASSUME TypeOK, NEW u \in Processes, NEW kind \in UserEvents, Record(u, kind), head' = head
  PROVE  Holds(u)' /\ Fits(u)'
<1>1. lock \in Nat /\ head \in Nat /\ lock <= head
  BY DEF TypeOK
<1>2. pc'[u] = "check" /\ job'[u] = [NoJob EXCEPT !.kind = kind, !.at = lock]
  BY Becomes DEF Record
<1>3. job'[u].at = lock /\ job'[u].kind = kind
  BY <1>2 DEF NoJob, Call
<1>. QED
  BY <1>1, <1>2, <1>3 DEF Holds, Fits, UserEvents

LEMMA PinsJob ==
  ASSUME TypeOK, NEW p \in Processes, Pin(p)
  PROVE  /\ job'[p].kind = job[p].kind /\ job'[p].trigger = job[p].trigger
         /\ job'[p].to = job[p].to /\ job'[p].pinned /\ job'[p].at = head
<1>1. job'[p] = [job[p] EXCEPT !.at = head, !.pinned = TRUE] /\ job[p] \in Jobs
  BY Becomes DEF Pin, TypeOK
<1>. QED
  BY <1>1 DEF Jobs

LEMMA Reports ==
  ASSUME TypeOK, NEW p \in Processes, Report(p), Holds(p), head' \in Nat, head' >= head
  PROVE  Holds(p)' /\ Fits(p)'
<1>1. pc'[p] = "pin" /\ job'[p] = [job[p] EXCEPT !.kind = "transition"]
  BY Becomes DEF Report
<1>2. job[p] \in Jobs /\ job[p].at \in Nat /\ head \in Nat
  BY DEF TypeOK, Jobs
<1>3. job'[p].kind = "transition" /\ job'[p].at = job[p].at
  BY <1>1, <1>2 DEF Jobs
<1>. QED
  BY <1>1, <1>2, <1>3 DEF Holds, Fits

\* A handler that is registered is called, and otherwise the process is done.
LEMMA Enters ==
  ASSUME TypeOK, NEW p \in Processes, Enter(p), Holds(p), head' \in Nat, head' >= head,
         job[p].kind \in {"transition", "audit"}
  PROVE  Holds(p)' /\ Fits(p)'
<1>1. CASE Handler(job[p].to) = "idle"
  BY <1>1, IdleFits DEF Enter
<1>2. CASE Handler(job[p].to) # "idle"
  <2>1. /\ pc'[p] = Handler(job[p].to) /\ pc'[p] \in {"enqueue", "execute", "clean"}
        /\ job'[p] = [job[p] EXCEPT !.nested = TRUE]
    <3>1. Become(p, Handler(job[p].to), [job[p] EXCEPT !.nested = TRUE])
      BY <1>2 DEF Enter
    <3>2. Handler(job[p].to) \in {"enqueue", "execute", "clean"}
      BY <1>2 DEF Handler
    <3>. QED
      BY <3>1, <3>2, Becomes
  <2>2. job[p] \in Jobs /\ job[p].at \in Nat /\ head \in Nat
    BY DEF TypeOK, Jobs
  <2>3. job'[p].at = job[p].at /\ job'[p].kind = job[p].kind /\ job'[p].to = job[p].to
    BY <2>1, <2>2 DEF Jobs
  <2>. QED
    BY <2>1, <2>2, <2>3 DEF Holds, Fits
<1>. QED
  BY <1>1, <1>2

LEMMA ServeFits ==
  ASSUME TypeOK, TypeOK', NEW u \in Processes, Serve(u)
  PROVE  Holds(u)' /\ Fits(u)' /\ head' >= head
<1>. USE Becomes DEF Holds, Fits, NoJob, Call, RunEnds, CleanEnds
<1>0. head \in Nat /\ head' \in Nat /\ lock \in Nat /\ lock <= head
  BY DEF TypeOK
<1>1. CASE RedirectAction(u)
  BY <1>0, <1>1 DEF RedirectAction
<1>2. CASE Later(u)
  BY <1>0, <1>2 DEF Later, log
<1>3. CASE EditAndAccept(u)
  <2>1. PICK kind \in UserEvents : Record(u, kind)
    BY <1>3 DEF EditAndAccept, UserEvents
  <2>. QED
    BY <1>0, <1>3, <2>1, Recorded DEF EditAndAccept, log
<1>4. CASE PickAction(u)
  <2>1. PICK kind \in UserEvents : Record(u, kind)
    BY <1>4 DEF PickAction, UserEvents
  <2>. QED
    BY <1>0, <1>4, <2>1, Recorded DEF PickAction, log
<1>5. CASE NoteEvent(u)
  <2>1. PICK kind \in UserEvents : Record(u, kind)
    BY <1>5 DEF NoteEvent, UserEvents
  <2>. QED
    BY <1>0, <1>5, <2>1, Recorded DEF NoteEvent, log
<1>6. ASSUME NEW t \in UserTriggers, Request(u, t)
      PROVE  Holds(u)' /\ Fits(u)' /\ head' >= head
  BY <1>0, <1>6 DEF Request, log, UserTriggers
<1>. QED
  BY <1>1, <1>2, <1>3, <1>4, <1>5, <1>6 DEF Serve

LEMMA EngineFits ==
  ASSUME TypeOK, TypeOK', NEW p \in Processes, Holds(p), Fits(p),
         Decide(p) \/ Refuse(p) \/ Write(p) \/ Handle(p) \/ Die(p)
  PROVE  Holds(p)' /\ Fits(p)' /\ head' >= head
<1>. USE Becomes DEF Holds, Fits, RunEnds, CleanEnds
<1>0. /\ head \in Nat /\ head' \in Nat /\ lock \in Nat /\ lock <= head
      /\ job[p] \in Jobs /\ job[p].at \in Nat
  BY DEF TypeOK, Jobs
<1>5. CASE Decide(p)
  <2>1. PICK to \in Lookup(state, job[p].trigger) :
          Become(p, "check", [job[p] EXCEPT !.to = to, !.at = IF job[p].pinned THEN @ ELSE lock])
    BY <1>5 DEF Decide
  <2>2. <<state, job[p].trigger, to>> \in TransitionTable /\ state \in States
    BY <2>1, LookedUp DEF TypeOK
  <2>3. pc'[p] = "check" /\ job'[p] = [job[p] EXCEPT !.to = to,
                                        !.at = IF job[p].pinned THEN @ ELSE lock]
    BY <2>1
  <2>4. /\ job'[p].to = to /\ job'[p].trigger = job[p].trigger
        /\ job'[p].kind = job[p].kind /\ job'[p].pinned = job[p].pinned
        /\ job'[p].at \in {job[p].at, lock}
    BY <1>0, <2>3 DEF Jobs
  <2>5. head' = head /\ pc[p] = "decide"
    BY <1>5 DEF Decide, log
  <2>. QED
    BY <1>0, <2>2, <2>3, <2>4, <2>5
<1>6. CASE Refuse(p)
  BY <1>0, <1>6, IdleFits DEF Refuse, log
<1>7. CASE Pin(p)
  <2>1. /\ pc[p] = "pin" /\ head' = head
        /\ pc'[p] = IF job[p].kind = "transition" THEN "decide" ELSE "check"
    BY <1>7 DEF Pin, log
  <2>2. /\ job'[p].kind = job[p].kind /\ job'[p].trigger = job[p].trigger
        /\ job'[p].at = head /\ job'[p].pinned
    BY <1>7, PinsJob
  <2>. QED
    BY <1>0, <2>1, <2>2
<1>8. CASE Check(p)
  BY <1>0, <1>8 DEF Check, log
<1>9. CASE Conflict(p)
  <2>1. head' = head
    BY <1>9 DEF Conflict, log
  <2>2. \/ Enter(p) /\ job[p].kind = "audit"
        \/ Report(p) \/ Become(p, "dead", NoJob) \/ Finish(p)
    BY <1>9 DEF Conflict
  <2>3. CASE Become(p, "dead", NoJob)
    BY <1>0, <2>1, <2>3 DEF NoJob, Call
  <2>. HIDE DEF Holds, Fits
  <2>. QED
    BY <1>0, <2>1, <2>2, <2>3, IdleFits, Reports, Enters
<1>10. CASE Insert(p)
  <2>1. head' = head + 1
    BY <1>10 DEF Insert
  <2>2. \/ Report(p) \/ Finish(p) \/ Become(p, "promote", job[p])
        \/ /\ Become(p, "cache", [job[p] EXCEPT !.at = head + 1])
           /\ job[p].kind \notin {"cleanup", "later", "promoting"}
    BY <1>10 DEF Insert
  <2>3. CASE Become(p, "cache", [job[p] EXCEPT !.at = head + 1])
    <3>1. pc'[p] = "cache" /\ pc[p] = "insert"
      BY <1>10, <2>3 DEF Insert
    <3>2. /\ job'[p].kind = job[p].kind /\ job'[p].trigger = job[p].trigger
          /\ job'[p].to = job[p].to /\ job'[p].pinned = job[p].pinned /\ job'[p].at = head + 1
      BY <1>0, <2>3 DEF Jobs
    <3>3. job[p].kind \notin {"cleanup", "later", "promoting"}
      BY <1>10, <3>1 DEF Insert, Report, Finish
    <3>. QED
      BY <1>0, <2>1, <3>1, <3>2, <3>3
  <2>4. CASE Become(p, "promote", job[p])
    BY <1>0, <2>1, <2>4
  <2>. QED
    BY <1>0, <2>1, <2>2, <2>3, <2>4, IdleFits, Reports
<1>11. CASE Promote(p)
  BY <1>0, <1>11 DEF Promote, log, Jobs
<1>12. CASE Cache(p)
  <2>1. head' = head
    BY <1>12 DEF Cache, log
  <2>2. \/ job[p].kind = "started" /\ Become(p, "skill", job[p])
        \/ Become(p, "decide", Call("execute", "next", FALSE, FALSE))
        \/ Become(p, "check", [job[p] EXCEPT !.kind = "audit"])
        \/ Report(p) \/ Finish(p)
        \/ Enter(p) /\ job[p].kind \in {"transition", "audit"}
    BY <1>0, <1>12 DEF Cache, AfterCache, Jobs, UserEvents
  <2>3. CASE Become(p, "decide", Call("execute", "next", FALSE, FALSE))
    BY <1>0, <2>1, <2>3 DEF Call
  <2>4. CASE Become(p, "check", [job[p] EXCEPT !.kind = "audit"])
    <3>1. pc'[p] = "check" /\ job'[p].kind = "audit" /\ job'[p].at = job[p].at
      BY <1>0, <2>4 DEF Jobs
    <3>. QED
      BY <1>0, <2>1, <3>1
  <2>5. CASE job[p].kind = "started" /\ Become(p, "skill", job[p])
    BY <1>0, <2>1, <2>5
  <2>. HIDE DEF Holds, Fits
  <2>6. Report(p) \/ Finish(p) \/ (Enter(p) /\ job[p].kind \in {"transition", "audit"})
          => Holds(p)' /\ Fits(p)'
    BY <1>0, <2>1, IdleFits, Reports, Enters
  <2>7. head' >= head
    BY <1>0, <2>1
  <2>. QED
    BY <2>2, <2>3, <2>4, <2>5, <2>6, <2>7, Zenon
<1>13. CASE Enqueue(p)
  BY <1>0, <1>13, IdleFits DEF Enqueue, log
<1>14. CASE Reject(p)
  BY <1>0, <1>14 DEF Reject, log, Call
<1>15. CASE StartRun(p)
  BY <1>0, <1>15 DEF StartRun, log, Jobs
<1>16. CASE FailToStart(p)
  BY <1>0, <1>16, IdleFits DEF FailToStart, log
<1>17. CASE RunSkill(p)
  <2>1. pc'[p] = "pin" /\ pc[p] = "skill" /\ head' = head
    BY <1>17 DEF RunSkill, log
  <2>2. job'[p].kind = "finished" /\ job'[p].at = job[p].at /\ job'[p].trigger \in RunEnds
    <3>1. PICK outcome \in RunEnds :
            job'[p] = [job[p] EXCEPT !.kind = "finished", !.trigger = outcome]
      BY <1>17 DEF RunSkill
    <3>. QED
      BY <1>0, <3>1 DEF Jobs
  <2>. QED
    BY <1>0, <2>1, <2>2
<1>18. CASE CleanUp(p)
  <2>1. pc'[p] = "pin" /\ pc[p] = "clean" /\ head' = head
    BY <1>18 DEF CleanUp, log
  <2>2. job'[p].kind = "cleanup" /\ job'[p].at = job[p].at /\ job'[p].trigger \in CleanEnds
    <3>1. PICK outcome \in CleanEnds :
            job'[p] = [job[p] EXCEPT !.kind = "cleanup", !.trigger = outcome]
      BY <1>18 DEF CleanUp
    <3>. QED
      BY <1>0, <3>1 DEF Jobs
  <2>. QED
    BY <1>0, <2>1, <2>2
<1>19. CASE Die(p)
  BY <1>0, <1>19, IdleFits DEF Die, log
<1>. QED
  BY <1>5, <1>6, <1>7, <1>8, <1>9, <1>10, <1>11, <1>12, <1>13, <1>14, <1>15, <1>16,
     <1>17, <1>18, <1>19 DEF Write, Handle

LEMMA PollFits ==
  ASSUME TypeOK, TypeOK', Holds(Poller), Fits(Poller), Poll
  PROVE  Holds(Poller)' /\ Fits(Poller)' /\ head' >= head
<1>. Poller \in Processes
  BY DEF Processes
<1>. USE Becomes DEF Holds, Fits, RunEnds, CleanEnds, Call
<1>0. head \in Nat /\ head' \in Nat /\ (pending # <<>> => Head(pending) \in TargetSet)
  BY DEF TypeOK
<1>1. CASE Dequeue
  BY <1>0, <1>1 DEF Dequeue, log
<1>2. CASE SetInferring
  BY <1>0, <1>2 DEF SetInferring, log
<1>3. CASE Infer
  BY <1>0, <1>3 DEF Infer
<1>4. CASE InferenceFails
  BY <1>0, <1>4 DEF InferenceFails, log
<1>. QED
  BY <1>1, <1>2, <1>3, <1>4 DEF Poll

\* Types, places and jobs of a step.
LEMMA StepFits ==
  ASSUME TypeOK, HoldsInv, JobInv, NEW p \in Processes, Step(p)
  PROVE  /\ TypeOK' /\ Moves(p) /\ Holds(p)' /\ Fits(p)' /\ head' >= head
         /\ HoldsInv' /\ JobInv'
<1>1. TypeOK' /\ Moves(p)
  BY ServeTypes, EngineTypes, PollTypes DEF Step
<1>2. Holds(p)' /\ Fits(p)' /\ head' >= head
  BY <1>1, ServeFits, EngineFits, PollFits DEF Step, HoldsInv, JobInv
<1>3. head' \in Nat
  BY <1>1 DEF TypeOK
<1>. QED
  BY <1>1, <1>2, <1>3, OthersFit

LEMMA NotesStay ==
  ASSUME NEW p \in Processes, Step(p)
  PROVE  mishaps \subseteq mishaps'
  BY DEF Step, Serve, RedirectAction, Later, EditAndAccept, PickAction, NoteEvent, Request, Decide,
     Refuse, Write, Handle, Die, Poll, Pin, Check, Conflict, Insert, Promote, Cache, Enqueue, Reject,
     StartRun, FailToStart, RunSkill, CleanUp, Dequeue, SetInferring, Infer, InferenceFails, Note

LEMMA StillFree ==
  ASSUME mishaps \subseteq mishaps', NEW what, Free(what)'
  PROVE  Free(what)
  BY DEF Free

-----------------------------------------------------------------------------
(* A thread is never left in a state of the machine by itself.                *)

\* The step by p leaves nobody's duty undone.
HandsOver(p) ==
    /\ state' = "awaiting_inference" /\ Free({"rejected", "death"})' =>
          \/ pending' # <<>> \/ Queueing(p)'
          \/ state = "awaiting_inference" /\ pending' = pending /\ ~Queueing(p)
    /\ state' \in InferringStates /\ Free({"refused", "death"})' =>
          Answering(p)' \/ (state \in InferringStates /\ ~Answering(p))
    /\ state' = "executing" /\ Free({"refused", "no_proposal", "death"})' =>
          Started(p)' \/ (state = "executing" /\ ~Started(p))
    /\ state' = "cleaning_up" /\ Free({"refused", "death"})' =>
          Cleaning(p)' \/ (state = "cleaning_up" /\ ~Cleaning(p))

LEMMA DutyStays ==
  ASSUME DutyInv, NEW p \in Processes, Moves(p), mishaps \subseteq mishaps', HandsOver(p)
  PROVE  DutyInv'
<1>0. \A q \in Processes : q # p =>
        /\ Queueing(q) = Queueing(q)' /\ Answering(q) = Answering(q)'
        /\ Started(q) = Started(q)' /\ Cleaning(q) = Cleaning(q)'
  BY DEF Moves, Queueing, Answering, Started, Cleaning
<1>1. ASSUME state' = "awaiting_inference", Free({"rejected", "death"})'
      PROVE  pending' # <<>> \/ \E q \in Processes : Queueing(q)'
  BY <1>0, <1>1, StillFree DEF DutyInv, HandsOver
<1>2. ASSUME state' \in InferringStates, Free({"refused", "death"})'
      PROVE  \E q \in Processes : Answering(q)'
  BY <1>0, <1>2, StillFree DEF DutyInv, HandsOver
<1>3. ASSUME state' = "executing", Free({"refused", "no_proposal", "death"})'
      PROVE  \E q \in Processes : Started(q)'
  BY <1>0, <1>3, StillFree DEF DutyInv, HandsOver
<1>4. ASSUME state' = "cleaning_up", Free({"refused", "death"})'
      PROVE  \E q \in Processes : Cleaning(q)'
  BY <1>0, <1>4, StillFree DEF DutyInv, HandsOver
<1>. QED
  BY <1>1, <1>2, <1>3, <1>4 DEF DutyInv

LEMMA NoDuty ==
  ASSUME NEW p, job[p] = NoJob, pc[p] \notin {"enqueue", "claimed", "infer", "execute", "skill", "clean"}
  PROVE  ~Queueing(p) /\ ~Answering(p) /\ ~Started(p) /\ ~Cleaning(p)
  BY DEF NoJob, Call, Queueing, Answering, Started, Cleaning, RunEnds, CleanEnds, InferEnds, Appending

LEMMA ServeHandsOver ==
  ASSUME TypeOK, NEW u \in Processes, Fits(u), Serve(u)
  PROVE  HandsOver(u)
<1>1. pc[u] = "idle"
  BY DEF Serve, RedirectAction, Later, EditAndAccept, PickAction, NoteEvent, Request, Arrives
<1>2. state' = state /\ pending' = pending
  BY DEF Serve, RedirectAction, Later, EditAndAccept, PickAction, NoteEvent, Request, row
<1>3. job[u] = NoJob
  BY <1>1 DEF Fits
<1>. QED
  BY <1>1, <1>2, <1>3, NoDuty DEF HandsOver

\* What is noted is no longer excluded.
LEMMA Noted ==
  ASSUME NEW what, NEW set, what \in set, what \in mishaps'
  PROVE  ~Free(set)'
  BY DEF Free

\* What a decision makes of the job, and what it was made from.
LEMMA DecidesJob ==
  ASSUME TypeOK, NEW p \in Processes, Decide(p)
  PROVE  /\ pc[p] = "decide" /\ pc'[p] = "check"
         /\ job'[p].kind = job[p].kind /\ job'[p].trigger = job[p].trigger
         /\ job'[p].pinned = job[p].pinned
         /\ job'[p].at = IF job[p].pinned THEN job[p].at ELSE lock
         /\ <<state, job'[p].trigger, job'[p].to>> \in TransitionTable
<1>1. PICK to \in Lookup(state, job[p].trigger) :
        Become(p, "check", [job[p] EXCEPT !.to = to, !.at = IF job[p].pinned THEN @ ELSE lock])
  BY DEF Decide
<1>2. pc'[p] = "check" /\ job'[p] = [job[p] EXCEPT !.to = to,
                                    !.at = IF job[p].pinned THEN @ ELSE lock]
  BY <1>1, Becomes
<1>3. <<state, job[p].trigger, to>> \in TransitionTable
  BY <1>1, LookedUp
<1>4. job[p] \in Jobs /\ pc[p] = "decide"
  BY DEF TypeOK, Decide
<1>. QED
  BY <1>2, <1>3, <1>4 DEF Jobs

LEMMA EnqueueLeavesEntry ==
  ASSUME TypeOK, NEW p \in Processes, Enqueue(p)
  PROVE  pending' # <<>>
<1>1. PICK t : pending' = Append(pending, t)
  BY DEF Enqueue
<1>. QED
  BY <1>1 DEF TypeOK

LEMMA EngineHandsOver ==
  ASSUME TypeOK, TypeOK', NEW p \in Processes, Fits(p), Fits(p)',
         Decide(p) \/ Refuse(p) \/ Write(p) \/ Handle(p) \/ Die(p)
  PROVE  HandsOver(p)
<1>. USE Becomes
<1>0. job[p] \in Jobs
  BY DEF TypeOK
<1>1. ASSUME state' = state, pending' = pending,
             Queueing(p) => Queueing(p)' \/ ~Free({"rejected", "death"})',
             Answering(p) => Answering(p)' \/ ~Free({"refused", "death"})',
             Started(p) => Started(p)' \/ ~Free({"refused", "no_proposal", "death"})',
             Cleaning(p) => Cleaning(p)' \/ ~Free({"refused", "death"})'
      PROVE  HandsOver(p)
  BY <1>1 DEF HandsOver
<1>2. Report(p) => /\ pc'[p] = "pin" /\ job'[p].kind = "transition"
                   /\ job'[p].trigger = job[p].trigger
  BY <1>0 DEF Report, Jobs
<1>3. Enter(p) => \/ Finish(p) /\ job[p].to \notin {"awaiting_inference", "executing", "cleaning_up"}
                  \/ job[p].to = "awaiting_inference" /\ pc'[p] = "enqueue"
                  \/ job[p].to = "executing" /\ pc'[p] = "execute"
                  \/ job[p].to = "cleaning_up" /\ pc'[p] = "clean"
  BY DEF Enter, Handler
<1>5. CASE Decide(p)
  <2>1. /\ pc[p] = "decide" /\ pc'[p] = "check"
        /\ job'[p].kind = job[p].kind /\ job'[p].trigger = job[p].trigger
        /\ job'[p].pinned = job[p].pinned
    BY <1>5, DecidesJob
  <2>2. state' = state /\ pending' = pending
    BY <1>5 DEF Decide, row
  <2>3. job[p].kind = "transition"
    BY <2>1 DEF Fits
  <2>. QED
    BY <1>1, <2>1, <2>2, <2>3 DEF Queueing, Answering, Started, Cleaning, Appending
<1>6. CASE Refuse(p)
  <2>1. /\ pc[p] = "decide" /\ state' = state /\ pending' = pending
        /\ job[p].pinned => "refused" \in mishaps'
    BY <1>6 DEF Refuse, row, Note, Mishap
  <2>. QED
    BY <1>1, <2>1, Noted DEF Fits, Queueing, Answering, Started, Cleaning, Appending
<1>7. CASE Pin(p)
  <2>1. /\ pc[p] = "pin" /\ pc'[p] \in {"decide", "check"}
        /\ state' = state /\ pending' = pending
    BY <1>7 DEF Pin, row
  <2>2. /\ job'[p].kind = job[p].kind /\ job'[p].trigger = job[p].trigger
        /\ job'[p].to = job[p].to /\ job'[p].pinned
    BY <1>0, <1>7, PinsJob
  <2>. QED
    BY <1>1, <2>1, <2>2 DEF Fits, Queueing, Answering, Started, Cleaning, Appending
<1>8. CASE Check(p)
  <2>1. /\ pc[p] = "check" /\ pc'[p] = "insert" /\ job'[p] = job[p]
        /\ state' = state /\ pending' = pending
    BY <1>8 DEF Check, row
  <2>. QED
    BY <1>1, <2>1 DEF Queueing, Answering, Started, Cleaning, Appending
<1>9. CASE Conflict(p)
  <2>1. /\ pc[p] = "check" /\ state' = state /\ pending' = pending
        /\ job[p].pinned /\ job[p].kind \notin {"audit"} \cup UserEvents => "refused" \in mishaps'
    BY <1>9 DEF Conflict, row, Note, Mishap
  <2>2. CASE job[p].kind = "audit"
    <3>1. Enter(p)
      BY <1>9, <2>2 DEF Conflict
    <3>. QED
      BY <1>1, <1>3, <2>1, <2>2, <3>1 DEF Queueing, Answering, Started, Cleaning
  <2>3. CASE job[p].kind = "cleanup"
    <3>1. Report(p)
      BY <1>9, <2>3 DEF Conflict
    <3>. QED
      BY <1>1, <1>2, <2>1, <2>3, <3>1 DEF Fits, Queueing, Answering, Started, Cleaning, Appending
  <2>4. CASE job[p].kind \notin {"audit", "cleanup"}
    BY <1>1, <2>1, <2>4, Noted
       DEF Fits, Queueing, Answering, Started, Cleaning, Appending, UserEvents
  <2>. QED
    BY <2>2, <2>3, <2>4
<1>10. CASE Insert(p)
  <2>1. /\ pc[p] = "insert" /\ state' = state /\ pending' = pending
    BY <1>10 DEF Insert, row
  <2>2. CASE job[p].kind = "cleanup"
    <3>1. Report(p)
      BY <1>10, <2>2 DEF Insert
    <3>. QED
      BY <1>1, <1>2, <2>1, <2>2, <3>1 DEF Fits, Queueing, Answering, Started, Cleaning, Appending
  <2>3. CASE job[p].kind \in {"later", "promoting"}
    BY <1>1, <2>1, <2>3 DEF Queueing, Answering, Started, Cleaning
  <2>4. CASE job[p].kind \notin {"cleanup", "later", "promoting"}
    <3>1. Become(p, "cache", [job[p] EXCEPT !.at = head + 1])
      BY <1>10, <2>4 DEF Insert
    <3>2. /\ pc'[p] = "cache" /\ job'[p].kind = job[p].kind /\ job'[p].trigger = job[p].trigger
          /\ job'[p].to = job[p].to /\ job'[p].pinned = job[p].pinned
      BY <1>0, <3>1 DEF Jobs
    <3>. QED
      BY <1>1, <2>1, <3>2 DEF Queueing, Answering, Started, Cleaning, Appending
  <2>. QED
    BY <2>2, <2>3, <2>4
<1>11. CASE Promote(p)
  <2>1. state' = "awaiting_confirmation"
    BY <1>11 DEF Promote
  <2>2. state' \notin InferringStates
    BY <2>1 DEF InferringStates, Inferring, TargetSet
  <2>. QED
    BY <2>1, <2>2 DEF HandsOver
<1>12. CASE Cache(p)
  <2>1. pc[p] = "cache" /\ pending' = pending
    BY <1>12 DEF Cache
  <2>2. CASE job[p].kind = "transition"
    <3>1. state' = job[p].to /\ state' \notin InferringStates
      <4>1. PICK s \in States : <<s, job[p].trigger, job[p].to>> \in TransitionTable
        BY <2>1, <2>2 DEF Fits
      <4>. QED
        BY <1>12, <2>2, <4>1, Table DEF Cache
    <3>2. CASE job[p].trigger = "inference_done"
      <4>1. Become(p, "check", [job[p] EXCEPT !.kind = "audit"])
        BY <1>12, <2>2, <3>2 DEF Cache, AfterCache, UserEvents
      <4>2. job'[p].kind = "audit" /\ job'[p].to = job[p].to
        BY <1>0, <4>1 DEF Jobs
      <4>. QED
        BY <3>1, <4>2 DEF HandsOver, Queueing, Started, Cleaning
    <3>3. CASE job[p].trigger # "inference_done"
      <4>1. Enter(p)
        BY <1>12, <2>2, <3>3 DEF Cache, AfterCache, UserEvents
      <4>. QED
        BY <1>3, <3>1, <4>1 DEF HandsOver, Queueing, Started, Cleaning
    <3>. QED
      BY <3>2, <3>3
  <2>3. CASE job[p].kind # "transition"
    <3>1. state' = state
      BY <1>12, <2>3 DEF Cache
    <3>2. CASE job[p].kind = "audit"
      <4>1. Enter(p)
        BY <1>12, <3>2 DEF Cache, AfterCache, UserEvents
      <4>. QED
        BY <1>1, <1>3, <2>1, <3>1, <3>2, <4>1 DEF Queueing, Answering, Started, Cleaning
    <3>3. CASE job[p].kind = "started"
      <4>1. pc'[p] = "skill"
        BY <1>12, <3>3 DEF Cache, AfterCache, UserEvents
      <4>. QED
        BY <1>1, <2>1, <3>1, <3>3, <4>1 DEF Queueing, Answering, Started, Cleaning
    <3>4. CASE job[p].kind = "finished"
      <4>1. Report(p)
        BY <1>12, <3>4 DEF Cache, AfterCache, UserEvents
      <4>. QED
        BY <1>1, <1>2, <2>1, <3>1, <3>4, <4>1
           DEF Fits, Queueing, Answering, Started, Cleaning, Appending
    <3>5. CASE job[p].kind \notin {"audit", "started", "finished", "cleanup"}
      BY <1>1, <2>1, <2>3, <3>1, <3>5 DEF Queueing, Answering, Started, Cleaning
    <3>. QED
      BY <2>1, <3>2, <3>3, <3>4, <3>5 DEF Fits
  <2>. QED
    BY <2>2, <2>3
<1>13. CASE Enqueue(p)
  <2>1. pc[p] = "enqueue" /\ state' = state /\ pending' # <<>>
    BY <1>13, EnqueueLeavesEntry DEF Enqueue, row
  <2>. QED
    BY <2>1 DEF HandsOver, Fits, Handler, Answering, Started, Cleaning, Appending
<1>14. CASE Reject(p)
  <2>1. pc[p] = "enqueue" /\ state' = state /\ pending' = pending /\ "rejected" \in mishaps'
    BY <1>14 DEF Reject, row, Note
  <2>. QED
    BY <1>1, <2>1, Noted DEF Fits, Handler, Queueing, Answering, Started, Cleaning, Appending
<1>15. CASE StartRun(p)
  <2>1. /\ pc[p] = "execute" /\ state' = state /\ pending' = pending
        /\ job'[p] = [job[p] EXCEPT !.kind = "started"]
    BY <1>15 DEF StartRun, row
  <2>2. job'[p].kind = "started"
    BY <1>0, <2>1 DEF Jobs
  <2>. QED
    BY <1>1, <2>1, <2>2 DEF Fits, Handler, Queueing, Answering, Started, Cleaning, Appending
<1>16. CASE FailToStart(p)
  <2>1. pc[p] = "execute" /\ state' = state /\ pending' = pending /\ "no_proposal" \in mishaps'
    BY <1>16 DEF FailToStart, row, Note
  <2>. QED
    BY <1>1, <2>1, Noted DEF Fits, Handler, Queueing, Answering, Started, Cleaning, Appending
<1>17. CASE RunSkill(p)
  <2>1. pc[p] = "skill" /\ state' = state /\ pending' = pending
    BY <1>17 DEF RunSkill, row
  <2>2. job'[p].kind = "finished"
    <3>1. PICK outcome \in RunEnds :
            job'[p] = [job[p] EXCEPT !.kind = "finished", !.trigger = outcome]
      BY <1>17 DEF RunSkill, RunEnds
    <3>. QED
      BY <1>0, <3>1 DEF Jobs
  <2>. QED
    BY <1>1, <2>1, <2>2 DEF Fits, Queueing, Answering, Started, Cleaning, Appending
<1>18. CASE CleanUp(p)
  <2>1. pc[p] = "clean" /\ state' = state /\ pending' = pending
    BY <1>18 DEF CleanUp, row
  <2>2. job'[p].kind = "cleanup"
    <3>1. PICK outcome \in CleanEnds :
            job'[p] = [job[p] EXCEPT !.kind = "cleanup", !.trigger = outcome]
      BY <1>18 DEF CleanUp, CleanEnds
    <3>. QED
      BY <1>0, <3>1 DEF Jobs
  <2>. QED
    BY <1>1, <2>1, <2>2 DEF Fits, Handler, Queueing, Answering, Started, Cleaning, Appending
<1>19. CASE Die(p)
  <2>1. state' = state /\ pending' = pending /\ "death" \in mishaps'
    BY <1>19 DEF Die, row, Note
  <2>. QED
    BY <1>1, <2>1, Noted
<1>. QED
  BY <1>5, <1>6, <1>7, <1>8, <1>9, <1>10, <1>11, <1>12, <1>13, <1>14, <1>15, <1>16,
     <1>17, <1>18, <1>19 DEF Write, Handle

LEMMA PollHandsOver ==
  ASSUME TypeOK, HoldsInv, Fits(Poller), Poll
  PROVE  HandsOver(Poller)
<1>. Poller \in Processes
  BY DEF Processes
<1>. USE Becomes
<1>1. CASE Dequeue
  <2>1. pc[Poller] = "idle" /\ pc'[Poller] = "claimed" /\ state' = state
    BY <1>1 DEF Dequeue, row
  <2>. QED
    BY <2>1, NoDuty DEF Fits, HandsOver, Queueing
<1>2. CASE SetInferring
  <2>1. pc'[Poller] = "infer" /\ job[Poller].target \in TargetSet
    BY <1>2 DEF SetInferring, HoldsInv, Holds
  <2>2. state' \in InferringStates
    BY <1>2, <2>1, Zenon DEF SetInferring, InferringStates
  <2>3. state' \notin {"awaiting_inference", "executing", "cleaning_up"}
    BY <2>2 DEF InferringStates, Inferring, TargetSet
  <2>. QED
    BY <2>1, <2>3 DEF HandsOver, Answering
<1>3. CASE Infer \/ InferenceFails
  <2>1. pc[Poller] = "infer" /\ state' = state /\ pending' = pending
    BY <1>3 DEF Infer, InferenceFails, row
  <2>2. Answering(Poller)'
    <3>1. PICK end \in InferEnds : job'[Poller] = Call(end, "next", TRUE, FALSE)
      BY <1>3 DEF Infer, InferenceFails, InferEnds
    <3>2. pc'[Poller] = "pin"
      BY <1>3 DEF Infer, InferenceFails
    <3>. QED
      BY <3>1, <3>2 DEF Call, Answering, Appending
  <2>. QED
    BY <2>1, <2>2 DEF HandsOver, Fits, Queueing, Started, Cleaning, Appending
<1>. QED
  BY <1>1, <1>2, <1>3 DEF Poll

-----------------------------------------------------------------------------
(* What lands in the log.                                                     *)

Alike(p) ==
    /\ job'[p].kind = job[p].kind /\ job'[p].trigger = job[p].trigger
    /\ job'[p].to = job[p].to

\* The step by p lands in the log alone, if nothing is noted.
Lands(p) ==
    /\ head' \in {head, head + 1}
    /\ head' # head /\ Free({"overlap"})' =>
          \A q \in Processes \ {p} : pc[q] \notin {"insert", "cache"}
    /\ pc'[p] = "cache" =>
          /\ pc[p] = "insert" /\ head' = head + 1 /\ job'[p].at = head' /\ Alike(p)
          /\ Free({"unchecked"})' => job[p].at # 0 \/ head = 0

LEMMA AlonePassesUnnoted ==
  ASSUME NEW p, Free({"overlap"})', Mishap("overlap", Overlaps(p)) \subseteq mishaps'
  PROVE  \A q \in Processes \ {p} : pc[q] \notin {"insert", "cache"}
  BY DEF Free, Mishap, Overlaps

LEMMA StepLands ==
  ASSUME TypeOK, NEW p \in Processes, Step(p)
  PROVE  Lands(p)
<1>. USE Becomes
<1>0. job[p] \in Jobs
  BY DEF TypeOK
<1>1. CASE p \in Users /\ Serve(p)
  <2>1. CASE RedirectAction(p)
    <3>1. head' = head + 1 /\ pc'[p] = "pin" /\ Mishap("overlap", Overlaps(p)) \subseteq mishaps'
      BY <2>1 DEF RedirectAction, Note
    <3>. QED
      BY <3>1, AlonePassesUnnoted DEF Lands
  <2>2. CASE Later(p) \/ EditAndAccept(p) \/ PickAction(p) \/ NoteEvent(p)
               \/ \E t \in UserTriggers : Request(p, t)
    <3>1. head' = head
      BY <2>2 DEF Later, EditAndAccept, PickAction, NoteEvent, Request, log
    <3>2. pc'[p] \in {"pin", "check", "decide"}
      BY <2>2 DEF Later, EditAndAccept, PickAction, NoteEvent, Request, Record
    <3>. QED
      BY <3>1, <3>2 DEF Lands
  <2>. QED
    BY <1>1, <2>1, <2>2 DEF Serve
<1>2. CASE Insert(p)
  <2>1. /\ head' = head + 1 /\ pc[p] = "insert"
        /\ Mishap("overlap", Overlaps(p)) \subseteq mishaps'
        /\ Mishap("unchecked", job[p].at = 0 /\ head # 0) \subseteq mishaps'
    BY <1>2 DEF Insert, Note
  <2>2. ASSUME pc'[p] = "cache"
        PROVE  job'[p].at = head' /\ Alike(p)
    <3>1. job'[p] = [job[p] EXCEPT !.at = head + 1]
      BY <1>2, <2>2 DEF Insert, Report, Finish
    <3>. QED
      BY <1>0, <2>1, <3>1 DEF Alike, Jobs
  <2>3. Free({"unchecked"})' => job[p].at # 0 \/ head = 0
    BY <2>1 DEF Free, Mishap
  <2>. QED
    BY <2>1, <2>2, <2>3, AlonePassesUnnoted DEF Lands
<1>3. CASE Decide(p) \/ Refuse(p) \/ Pin(p) \/ Check(p) \/ Conflict(p) \/ Promote(p) \/ Cache(p)
  <2>1. head' = head
    BY <1>3 DEF Decide, Refuse, Pin, Check, Conflict, Promote, Cache, log
  <2>2. pc'[p] # "cache"
    <3>1. CASE Decide(p)
      BY <3>1 DEF Decide
    <3>2. CASE Refuse(p) \/ Pin(p) \/ Check(p) \/ Promote(p)
      BY <3>2 DEF Refuse, Pin, Check, Promote, Finish
    <3>3. Enter(p) => pc'[p] # "cache"
      BY DEF Enter, Handler, Finish
    <3>4. CASE Conflict(p)
      BY <3>3, <3>4 DEF Conflict, Report, Finish
    <3>5. CASE Cache(p)
      <4>1. \/ Become(p, "skill", job[p])
            \/ Become(p, "decide", Call("execute", "next", FALSE, FALSE))
            \/ Become(p, "check", [job[p] EXCEPT !.kind = "audit"])
            \/ Report(p) \/ Finish(p) \/ Enter(p)
        BY <3>5 DEF Cache, AfterCache
      <4>. QED
        BY <3>3, <4>1 DEF Report, Finish, Become, TypeOK
    <3>. QED
      BY <1>3, <3>1, <3>2, <3>4, <3>5
  <2>. QED
    BY <2>1, <2>2 DEF Lands
<1>4. CASE Handle(p) \/ Die(p)
  <2>1. head' = head
    BY <1>4 DEF Handle, Die, Enqueue, Reject, StartRun, FailToStart, RunSkill, CleanUp, log
  <2>2. pc'[p] # "cache"
    <3>1. CASE Enqueue(p) \/ FailToStart(p) \/ Die(p)
      BY <3>1 DEF Enqueue, FailToStart, Die, Finish
    <3>2. CASE Reject(p) \/ StartRun(p) \/ RunSkill(p) \/ CleanUp(p)
      BY <1>0, <3>2 DEF Reject, StartRun, RunSkill, CleanUp, Become, TypeOK
    <3>. QED
      BY <1>4, <3>1, <3>2 DEF Handle
  <2>. QED
    BY <2>1, <2>2 DEF Lands
<1>5. CASE p = Poller /\ Infer
  <2>1. head' = head + 1 /\ pc'[p] = "pin" /\ Mishap("overlap", Overlaps(p)) \subseteq mishaps'
    BY <1>5 DEF Infer, Note
  <2>. QED
    BY <2>1, AlonePassesUnnoted DEF Lands
<1>6. CASE p = Poller /\ (Dequeue \/ SetInferring \/ InferenceFails)
  <2>1. head' = head /\ pc'[p] \in {"claimed", "infer", "pin"}
    BY <1>6 DEF Dequeue, SetInferring, InferenceFails, log
  <2>. QED
    BY <2>1 DEF Lands
<1>. QED
  BY <1>1, <1>2, <1>3, <1>4, <1>5, <1>6 DEF Step, Write, Poll

LEMMA LastStays ==
  ASSUME TypeOK, LastInv, NEW p \in Processes, Moves(p), mishaps \subseteq mishaps', Lands(p)
  PROVE  LastInv'
<1>. SUFFICES ASSUME Free({"overlap"})'
              PROVE  /\ \A q \in Processes : pc'[q] = "cache" => job'[q].at = head'
                     /\ \A q, r \in Processes : pc'[q] = "cache" /\ pc'[r] = "cache" => q = r
  BY DEF LastInv
<1>0. head \in Nat
  BY DEF TypeOK
<1>1. /\ \A q \in Processes : pc[q] = "cache" => job[q].at = head
      /\ \A q, r \in Processes : pc[q] = "cache" /\ pc[r] = "cache" => q = r
  BY StillFree DEF LastInv
<1>2. CASE head' = head
  <2>1. pc'[p] # "cache"
    BY <1>0, <1>2 DEF Lands
  <2>. QED
    BY <1>1, <1>2, <2>1 DEF Moves
<1>3. CASE head' # head
  <2>1. \A q \in Processes \ {p} : pc'[q] # "cache"
    BY <1>3 DEF Lands, Moves
  <2>. QED
    BY <2>1 DEF Lands
<1>. QED
  BY <1>2, <1>3

-----------------------------------------------------------------------------
(* A lock that is behind the log is owed.                                     *)

Excluded == {"refused", "deferred", "overlap", "death"}

PaysLock(p) ==
    Free(Excluded)' =>
        \/ lock' \in {0, head'} \/ Owes(p)'
        \/ lock' = lock /\ head' = head /\ ~Owes(p)

LEMMA OwedStays ==
  ASSUME OwedInv, NEW p \in Processes, Moves(p), mishaps \subseteq mishaps', PaysLock(p)
  PROVE  OwedInv'
<1>. SUFFICES ASSUME Free(Excluded)', lock' \notin {0, head'}
              PROVE  \E q \in Processes : Owes(q)'
  BY DEF OwedInv, Excluded
<1>1. Free(Excluded)
  BY StillFree
<1>2. CASE Owes(p)'
  BY <1>2
<1>3. CASE lock' = lock /\ head' = head /\ ~Owes(p)
  <2>1. PICK q \in Processes : Owes(q)
    BY <1>1, <1>3 DEF OwedInv, Excluded
  <2>2. q # p
    BY <1>3, <2>1
  <2>. QED
    BY <2>1, <2>2 DEF Moves, Owes
<1>. QED
  BY <1>2, <1>3 DEF PaysLock

LEMMA StepPaysLock ==
  ASSUME TypeOK, LastInv, NEW p \in Processes, Fits(p), Step(p), Moves(p), mishaps \subseteq mishaps'
  PROVE  PaysLock(p)
<1>. USE Becomes DEF Excluded
<1>0. job[p] \in Jobs
  BY DEF TypeOK
<1>1. ASSUME lock' = lock, head' = head, Owes(p) => Owes(p)' \/ ~Free(Excluded)'
      PROVE  PaysLock(p)
  BY <1>1 DEF PaysLock
<1>2. CASE p \in Users /\ Serve(p)
  <2>1. CASE RedirectAction(p)
    <3>1. pc'[p] = "pin" /\ job'[p].kind = "transition"
      BY <2>1 DEF RedirectAction, Call
    <3>. QED
      BY <3>1 DEF PaysLock, Owes, UserEvents
  <2>2. CASE Later(p) \/ EditAndAccept(p) \/ PickAction(p) \/ NoteEvent(p)
               \/ \E t \in UserTriggers : Request(p, t)
    <3>1. lock' = lock /\ head' = head /\ pc[p] = "idle"
      BY <2>2 DEF Later, EditAndAccept, PickAction, NoteEvent, Request, Arrives, row, log
    <3>. QED
      BY <1>1, <3>1 DEF Owes
  <2>. QED
    BY <1>2, <2>1, <2>2 DEF Serve
<1>3. CASE Decide(p)
  <2>1. pc[p] = "decide" /\ lock' = lock /\ head' = head
    BY <1>3 DEF Decide, row, log
  <2>2. pc'[p] = "check" /\ job'[p].kind = job[p].kind /\ job'[p].pinned = job[p].pinned
    BY <1>3, DecidesJob
  <2>. QED
    BY <1>1, <2>1, <2>2 DEF Owes
<1>4. CASE Refuse(p)
  <2>1. pc[p] = "decide" /\ lock' = lock /\ head' = head
    BY <1>4 DEF Refuse, row, log
  <2>2. job[p].pinned => "refused" \in mishaps'
    BY <1>4 DEF Refuse, Note, Mishap
  <2>. QED
    BY <1>1, <2>1, <2>2, Noted DEF Owes
<1>5. CASE Pin(p)
  <2>1. pc[p] = "pin" /\ pc'[p] \in {"decide", "check"} /\ lock' = lock /\ head' = head
    BY <1>5 DEF Pin, row, log
  <2>2. job'[p].kind = job[p].kind /\ job'[p].pinned
    BY <1>5, PinsJob
  <2>. QED
    BY <1>1, <2>1, <2>2 DEF Owes, Fits
<1>6. CASE Check(p)
  <2>1. /\ pc[p] = "check" /\ pc'[p] = "insert" /\ job'[p] = job[p]
        /\ lock' = lock /\ head' = head
    BY <1>6 DEF Check, row, log
  <2>. QED
    BY <1>1, <2>1 DEF Owes
<1>7. CASE Conflict(p)
  <2>1. pc[p] = "check" /\ lock' = lock /\ head' = head
    BY <1>7 DEF Conflict, row, log
  <2>2. job[p].pinned /\ job[p].kind \notin {"audit"} \cup UserEvents => "refused" \in mishaps'
    BY <1>7 DEF Conflict, Note, Mishap
  <2>. QED
    BY <1>1, <2>1, <2>2, Noted DEF Owes
<1>8. CASE Insert(p)
  <2>1. CASE job[p].kind = "cleanup"
    <3>1. Report(p)
      BY <1>8, <2>1 DEF Insert
    <3>2. pc'[p] = "pin" /\ job'[p].kind = "transition"
      BY <1>0, <3>1 DEF Report, Jobs
    <3>. QED
      BY <3>2 DEF PaysLock, Owes, UserEvents
  <2>2. CASE job[p].kind = "later"
    <3>1. "deferred" \in mishaps'
      BY <1>8, <2>2 DEF Insert, Note, Mishap
    <3>. QED
      BY <3>1, Noted DEF PaysLock
  <2>3. CASE job[p].kind \notin {"cleanup", "later"}
    <3>1. pc'[p] \in {"cache", "promote"}
      BY <1>8, <2>3 DEF Insert
    <3>. QED
      BY <3>1 DEF PaysLock, Owes
  <2>. QED
    BY <2>1, <2>2, <2>3
<1>9. CASE Promote(p)
  BY <1>9 DEF Promote, log, PaysLock
<1>10. CASE Cache(p)
  <2>1. pc[p] = "cache" /\ head' = head /\ lock' = LockTarget(p)
    BY <1>10 DEF Cache, log
  <2>2. Free(Excluded)' => job[p].at = head
    BY <2>1, StillFree DEF LastInv, Free
  <2>. QED
    BY <2>1, <2>2 DEF PaysLock, LockTarget
<1>11. CASE Handle(p)
  <2>1. lock' = lock /\ head' = head /\ pc[p] \in {"enqueue", "execute", "skill", "clean"}
    BY <1>11 DEF Handle, Enqueue, Reject, StartRun, FailToStart, RunSkill, CleanUp, row, log
  <2>. QED
    BY <1>1, <2>1 DEF Owes
<1>12. CASE Die(p)
  <2>1. lock' = lock /\ head' = head /\ "death" \in mishaps'
    BY <1>12 DEF Die, Note, row, log
  <2>. QED
    BY <1>1, <2>1, Noted
<1>13. CASE p = Poller /\ Infer
  <2>1. pc'[p] = "pin" /\ job'[p].kind = "transition"
    BY <1>13 DEF Infer, Call
  <2>. QED
    BY <2>1 DEF PaysLock, Owes, UserEvents
<1>14. CASE p = Poller /\ (Dequeue \/ SetInferring \/ InferenceFails)
  <2>1. lock' = lock /\ head' = head /\ pc[p] \in {"idle", "claimed", "infer"}
    BY <1>14 DEF Dequeue, SetInferring, InferenceFails, row, log
  <2>. QED
    BY <1>1, <2>1 DEF Owes
<1>. QED
  BY <1>2, <1>3, <1>4, <1>5, <1>6, <1>7, <1>8, <1>9, <1>10, <1>11, <1>12, <1>13, <1>14
     DEF Step, Write, Poll

-----------------------------------------------------------------------------
(* A run has the thread to itself.                                            *)

\* The step by p leaves the state alone and begins neither a transition nor a run.
Calm(p) ==
    /\ state' = state
    /\ lock' = lock \/ \A q \in Processes : pc'[q] # "cache"
    /\ Viable(p)' => Viable(p) /\ Alike(p)
    /\ Started(p)' => Started(p)
    /\ pc'[p] = "insert" => job'[p].at \in {0, head'}

LEMMA CleanBefore ==
  ASSUME mishaps \subseteq mishaps', Clean'
  PROVE  Clean /\ Free({"overlap"}) /\ Free({"overlap"})' /\ Free({"unchecked"})' /\ Free({"torn_read"})'
  BY DEF Clean, Free

\* The others are as they were, but that an event has landed before theirs.
LEMMA Bystanders ==
  ASSUME TypeOK, HoldsInv, LastInv, NEW p \in Processes, Moves(p), mishaps \subseteq mishaps', Lands(p),
         Clean', NEW q \in Processes \ {p}
  PROVE  /\ Viable(q)' => Viable(q) /\ Alike(q)
         /\ Started(q)' => Started(q)
         /\ Started(q) => Started(q)'
         /\ pc'[q] = pc[q] /\ job'[q] = job[q]
         /\ pc'[q] \in {"insert", "cache"} => head' = head
<1>1. pc'[q] = pc[q] /\ job'[q] = job[q]
  BY DEF Moves
<1>2. job[q].at \in Nat /\ job[q].at <= head /\ head \in Nat
  BY DEF TypeOK, Jobs, HoldsInv, Holds
<1>3. head' = head \/ head' = head + 1
  BY DEF Lands
<1>4. pc'[q] \in {"insert", "cache"} => head' = head
  BY <1>1, CleanBefore DEF Lands
<1>5. Viable(q)' => Viable(q)
  BY <1>1, <1>2, <1>3 DEF Viable
<1>. QED
  BY <1>1, <1>4, <1>5 DEF Alike, Started

LEMMA CalmKeeps ==
  ASSUME TypeOK, TypeOK', HoldsInv, LastInv, LastInv', RunInv, Clean', NEW p \in Processes,
         Moves(p), mishaps \subseteq mishaps', Lands(p), Calm(p)
  PROVE  RunInv'
<1>1. /\ \A q \in Processes : Steady(q)
      /\ \A q, r \in Processes : q # r => Apart(q, r)
  BY CleanBefore DEF RunInv
<1>2. \A q \in Processes :
        /\ Viable(q)' => Viable(q) /\ Alike(q)
        /\ Started(q)' => Started(q)
  BY Bystanders DEF Calm
<1>3. head \in Nat /\ lock \in Nat /\ lock <= head /\ head' \in {head, head + 1} /\ state' = state
  BY DEF TypeOK, Lands, Calm
<1>4. ASSUME NEW q \in Processes PROVE Steady(q)'
  <2>1. pc'[q] = "insert" => job'[q].at \in {0, head'}
    BY <1>1, Bystanders DEF Calm, Steady
  <2>2. ASSUME pc'[q] = "cache", job'[q].kind = "transition", lock' = head' PROVE Dismisses(q)'
    <3>1. lock' = lock
      BY <2>2 DEF Calm
    <3>2. head' = head
      BY <1>3, <2>2, <3>1
    <3>3. q # p
      BY <1>3, <2>2, <3>2 DEF Lands
    <3>. QED
      BY <1>1, <2>2, <3>1, <3>2, <3>3, Bystanders DEF Steady, Dismisses
  <2>3. Viable(q)' => \/ Dismisses(q)' \/ state' = "dismissed"
                      \/ <<state', job'[q].trigger, job'[q].to>> \in TransitionTable
    BY <1>1, <1>2, <1>3 DEF Steady, Alike, Dismisses
  <2>4. Started(q)' => state' \in {"executing", "dismissed"}
    BY <1>1, <1>2, <1>3 DEF Steady
  <2>. QED
    BY <2>1, <2>2, <2>3, <2>4 DEF Steady
<1>5. ASSUME NEW q \in Processes, NEW r \in Processes, q # r PROVE Apart(q, r)'
  <2>1. ASSUME pc'[q] = "cache", job'[q].kind = "transition", Viable(r)'
        PROVE  Dismisses(q)' \/ Dismisses(r)'
    <3>1. Viable(r) /\ Alike(r)
      BY <1>2, <2>1
    <3>2. Viable(q)'
      BY <2>1 DEF Viable
    <3>3. Viable(q) /\ Alike(q)
      BY <1>2, <3>2
    <3>4. pc[q] = "cache"
      <4>1. CASE q # p
        BY <2>1, <4>1, Bystanders
      <4>2. CASE q = p
        <5>1. pc[q] = "insert" /\ head' = head + 1
          BY <2>1, <4>2 DEF Lands
        <5>2. job[r].at \in Nat /\ job[r].at <= head /\ job'[r] = job[r] /\ pc'[r] = pc[r]
          BY <1>5, <4>2 DEF TypeOK, Jobs, HoldsInv, Holds, Moves
        <5>3. pc'[r] \notin {"insert", "cache"}
          BY <1>3, <1>5, <4>2, <5>1, Bystanders
        <5>. QED
          BY <1>3, <2>1, <5>1, <5>2, <5>3 DEF Viable
      <4>. QED
        BY <4>1, <4>2
    <3>. QED
      BY <1>1, <1>5, <2>1, <3>1, <3>3, <3>4 DEF Apart, Alike, Dismisses
  <2>2. Started(q)' /\ Viable(r)' => Dismisses(r)'
    BY <1>1, <1>2, <1>5 DEF Apart, Alike, Dismisses
  <2>3. ~(Started(q)' /\ Started(r)')
    BY <1>1, <1>2, <1>5 DEF Apart
  <2>. QED
    BY <2>1, <2>2, <2>3 DEF Apart
<1>. QED
  BY <1>4, <1>5 DEF RunInv

LEMMA ServeIsCalm ==
  ASSUME TypeOK, NEW u \in Processes, Serve(u)
  PROVE  Calm(u)
<1>. USE Becomes DEF NoJob, Call, Viable, Started, RunEnds, UserTriggers
<1>1. state' = state /\ lock' = lock
  BY DEF Serve, RedirectAction, Later, EditAndAccept, PickAction, NoteEvent, Request, row
<1>2. CASE RedirectAction(u) \/ Later(u)
  BY <1>1, <1>2 DEF RedirectAction, Later, Calm
<1>3. CASE EditAndAccept(u) \/ PickAction(u) \/ NoteEvent(u)
  <2>1. PICK kind \in UserEvents : Record(u, kind)
    BY <1>3 DEF EditAndAccept, PickAction, NoteEvent, UserEvents
  <2>2. pc'[u] = "check" /\ job'[u] = [NoJob EXCEPT !.kind = kind, !.at = lock]
    BY <2>1 DEF Record
  <2>. QED
    BY <1>1, <2>2 DEF Calm, UserEvents
<1>4. ASSUME NEW t \in UserTriggers, Request(u, t) PROVE Calm(u)
  BY <1>1, <1>4 DEF Request, Calm
<1>. QED
  BY <1>2, <1>3, <1>4 DEF Serve

LEMMA PollIsCalm ==
  ASSUME TypeOK, Dequeue \/ Infer \/ InferenceFails
  PROVE  Calm(Poller)
<1>. Poller \in Processes
  BY DEF Processes
<1>1. state' = state /\ lock' = lock /\ pc'[Poller] \in {"claimed", "pin"}
  BY Becomes DEF Dequeue, Infer, InferenceFails, row
<1>2. job'[Poller].kind = "transition" /\ job'[Poller].trigger \in InferEnds
  <2>1. CASE Dequeue
    <3>1. job'[Poller] = Call("inference_done", Head(pending), FALSE, FALSE)
      BY <2>1, Becomes DEF Dequeue
    <3>. QED
      BY <3>1 DEF Call, InferEnds
  <2>2. CASE Infer
    <3>1. job'[Poller] = Call("inference_done", "next", TRUE, FALSE)
      BY <2>2, Becomes DEF Infer
    <3>. QED
      BY <3>1 DEF Call, InferEnds
  <2>3. CASE InferenceFails
    <3>1. job'[Poller] = Call("inference_failed", "next", TRUE, FALSE)
      BY <2>3, Becomes DEF InferenceFails
    <3>. QED
      BY <3>1 DEF Call, InferEnds
  <2>. QED
    BY <2>1, <2>2, <2>3
<1>. QED
  BY <1>1, <1>2 DEF Calm, Viable, Started, RunEnds, InferEnds

\* Of an engine's steps only a decision, the write of a transition and a promotion are not calm.
LEMMA EngineIsCalm ==
  ASSUME TypeOK, LastInv, RunInv, NEW p \in Processes, Fits(p), Lands(p), Moves(p),
         mishaps \subseteq mishaps', Clean',
         \/ Refuse(p) \/ Pin(p) \/ Check(p) \/ Conflict(p) \/ Insert(p) \/ Handle(p) \/ Die(p)
         \/ Cache(p) /\ job[p].kind # "transition"
  PROVE  Calm(p)
<1>. USE Becomes
<1>0. job[p] \in Jobs /\ Steady(p)
  BY CleanBefore DEF TypeOK, RunInv
<1>1. ASSUME state' = state, lock' = lock \/ \A q \in Processes : pc'[q] # "cache",
             pc'[p] \notin {"check", "insert", "cache"}, Started(p)' => Started(p)
      PROVE  Calm(p)
  BY <1>1 DEF Calm, Viable
<1>2. Report(p) => /\ pc'[p] = "pin" /\ job'[p].kind = "transition"
                   /\ job'[p].trigger = job[p].trigger
  BY <1>0 DEF Report, Jobs
<1>3. Finish(p) => pc'[p] = "idle" /\ ~Started(p)'
  BY DEF Finish, Started, NoJob, Call, RunEnds
<1>4. Enter(p) => \/ Finish(p)
                  \/ /\ pc'[p] \in {"enqueue", "execute", "clean"} /\ job'[p].kind = job[p].kind
                     /\ job'[p].to = job[p].to
                     /\ pc'[p] = "execute" => job[p].to = "executing"
  <2>1. ASSUME Enter(p), Handler(job[p].to) # "idle"
        PROVE  pc'[p] = Handler(job[p].to) /\ job'[p] = [job[p] EXCEPT !.nested = TRUE]
    BY <2>1 DEF Enter
  <2>. QED
    BY <1>0, <2>1 DEF Enter, Handler, Jobs
<1>5. CASE Refuse(p) \/ Die(p)
  BY <1>1, <1>3, <1>5 DEF Refuse, Die, row
<1>6. CASE Pin(p)
  <2>1. job'[p].kind = job[p].kind /\ job'[p].trigger = job[p].trigger /\ job'[p].to = job[p].to
    BY <1>6, PinsJob
  <2>2. /\ pc[p] = "pin" /\ state' = state /\ lock' = lock
        /\ pc'[p] = IF job[p].kind = "transition" THEN "decide" ELSE "check"
    BY <1>6 DEF Pin, row
  <2>. QED
    BY <2>1, <2>2 DEF Calm, Viable, Started, Appending
<1>7. CASE Check(p)
  <2>1. /\ pc[p] = "check" /\ pc'[p] = "insert" /\ job'[p] = job[p] /\ job[p].at \in {0, head}
        /\ state' = state /\ lock' = lock /\ head' = head
    BY <1>7 DEF Check, Expected, row, log
  <2>. QED
    BY <2>1 DEF Calm, Viable, Alike, Started, Appending
<1>8. CASE Conflict(p)
  <2>1. pc[p] = "check" /\ state' = state /\ lock' = lock
    BY <1>8 DEF Conflict, row
  <2>2. CASE job[p].kind = "audit"
    <3>1. Enter(p)
      BY <1>8, <2>2 DEF Conflict
    <3>. QED
      BY <1>1, <1>3, <1>4, <2>1, <2>2, <3>1 DEF Started
  <2>3. CASE job[p].kind = "cleanup"
    <3>1. Report(p) /\ job[p].trigger \in CleanEnds
      BY <1>8, <2>3 DEF Conflict, Fits
    <3>. QED
      BY <1>1, <1>2, <2>1, <3>1 DEF Started, RunEnds, CleanEnds
  <2>4. CASE job[p].kind \notin {"audit", "cleanup"}
    <3>1. pc'[p] \in {"dead", "idle"} /\ job'[p] = NoJob
      BY <1>8, <2>4 DEF Conflict, Finish
    <3>. QED
      BY <1>1, <2>1, <3>1 DEF Started, NoJob, Call, RunEnds
  <2>. QED
    BY <2>2, <2>3, <2>4
<1>9. CASE Insert(p)
  <2>1. pc[p] = "insert" /\ state' = state /\ lock' = lock
    BY <1>9 DEF Insert, row
  <2>2. CASE job[p].kind = "cleanup"
    <3>1. Report(p) /\ job[p].trigger \in CleanEnds
      BY <1>9, <2>1, <2>2 DEF Insert, Fits
    <3>. QED
      BY <1>1, <1>2, <2>1, <3>1 DEF Started, RunEnds, CleanEnds
  <2>3. CASE job[p].kind = "later"
    BY <1>1, <1>3, <1>9, <2>1, <2>3 DEF Insert
  <2>4. CASE job[p].kind = "promoting"
    <3>1. pc'[p] = "promote" /\ job'[p] = job[p]
      BY <1>9, <2>4 DEF Insert
    <3>. QED
      BY <1>1, <2>1, <2>4, <3>1 DEF Started
  <2>5. CASE job[p].kind \notin {"cleanup", "later", "promoting"}
    <3>1. pc'[p] = "cache"
      BY <1>9, <2>5 DEF Insert
    <3>2. Alike(p) /\ (job[p].at # 0 \/ head = 0)
      BY <3>1, CleanBefore DEF Lands
    <3>3. job[p].at = head
      BY <1>0, <2>1, <3>2 DEF Steady
    <3>. QED
      BY <2>1, <3>1, <3>2, <3>3 DEF Calm, Viable, Alike, Started, Appending
  <2>. QED
    BY <2>2, <2>3, <2>4, <2>5
<1>10. CASE Handle(p)
  <2>1. state' = state /\ lock' = lock
    BY <1>10 DEF Handle, Enqueue, Reject, StartRun, FailToStart, RunSkill, CleanUp, row
  <2>2. CASE Enqueue(p) \/ FailToStart(p)
    BY <1>1, <1>3, <2>1, <2>2 DEF Enqueue, FailToStart
  <2>3. CASE Reject(p)
    BY <1>1, <2>1, <2>3 DEF Reject, Call, Started, RunEnds
  <2>4. CASE StartRun(p) \/ RunSkill(p)
    <3>1. pc[p] \in {"execute", "skill"} /\ pc'[p] = "pin"
      BY <2>4 DEF StartRun, RunSkill
    <3>. QED
      BY <1>1, <2>1, <3>1 DEF Started
  <2>5. CASE CleanUp(p)
    <3>1. PICK outcome \in CleanEnds :
            job'[p] = [job[p] EXCEPT !.kind = "cleanup", !.trigger = outcome]
      BY <2>5 DEF CleanUp, CleanEnds
    <3>2. job'[p].kind = "cleanup" /\ pc'[p] = "pin"
      BY <1>0, <2>5, <3>1 DEF CleanUp, Jobs
    <3>. QED
      BY <1>1, <2>1, <3>2 DEF Started
  <2>. QED
    BY <1>10, <2>2, <2>3, <2>4, <2>5 DEF Handle
<1>11. CASE Cache(p) /\ job[p].kind # "transition"
  <2>1. pc[p] = "cache" /\ state' = state /\ head' = head
    BY <1>11 DEF Cache, log
  <2>2. pc'[p] # "cache"
    <3>1. head \in Nat
      BY DEF TypeOK
    <3>. QED
      BY <2>1, <3>1 DEF Lands
  <2>3. \A q \in Processes : pc'[q] # "cache"
    BY <2>1, <2>2, CleanBefore DEF LastInv, Moves
  <2>4. CASE job[p].kind = "audit"
    <3>1. Enter(p)
      BY <1>11, <2>4 DEF Cache, AfterCache, UserEvents
    <3>. QED
      BY <1>1, <1>3, <1>4, <2>1, <2>3, <2>4, <3>1 DEF Started
  <2>5. CASE job[p].kind = "started"
    <3>1. pc'[p] = "skill"
      BY <1>11, <2>5 DEF Cache, AfterCache, UserEvents
    <3>. QED
      BY <1>1, <2>1, <2>3, <2>5, <3>1 DEF Started
  <2>6. CASE job[p].kind = "finished"
    <3>1. Report(p)
      BY <1>11, <2>6 DEF Cache, AfterCache, UserEvents
    <3>. QED
      BY <1>1, <1>2, <2>1, <2>3, <2>6, <3>1 DEF Started
  <2>7. CASE job[p].kind = "edit"
    <3>1. pc'[p] = "decide" /\ job'[p] = Call("execute", "next", FALSE, FALSE)
      BY <1>11, <2>7 DEF Cache, AfterCache, UserEvents
    <3>. QED
      BY <1>1, <2>1, <2>3, <3>1 DEF Started, Call, RunEnds
  <2>8. CASE job[p].kind \in UserEvents \ {"edit"}
    <3>1. Finish(p)
      BY <1>11, <2>8 DEF Cache, AfterCache, UserEvents
    <3>. QED
      BY <1>1, <1>3, <2>1, <2>3, <3>1
  <2>. QED
    BY <1>0, <1>11, <2>1, <2>4, <2>5, <2>6, <2>7, <2>8 DEF Fits, Jobs
<1>. QED
  BY <1>5, <1>6, <1>7, <1>8, <1>9, <1>10, <1>11

\* A decision is made from the row as it reads: nobody else's transition is on its way there.
LEMMA DecisionKeepsApart ==
  ASSUME TypeOK, TypeOK', HoldsInv, LastInv, RunInv, Clean', NEW p \in Processes, Fits(p),
         Moves(p), mishaps \subseteq mishaps', Lands(p), Decide(p)
  PROVE  RunInv'
<1>1. /\ \A q \in Processes : Steady(q)
      /\ \A q, r \in Processes : q # r => Apart(q, r)
  BY CleanBefore DEF RunInv
<1>2. /\ pc[p] = "decide" /\ pc'[p] = "check"
      /\ job'[p].kind = job[p].kind /\ job'[p].trigger = job[p].trigger
      /\ job'[p].at = IF job[p].pinned THEN job[p].at ELSE lock
      /\ <<state, job'[p].trigger, job'[p].to>> \in TransitionTable
  BY DecidesJob
<1>3. state' = state /\ lock' = lock /\ head' = head
  BY DEF Decide, row, log
<1>4. job[p].kind = "transition"
  BY <1>2 DEF Fits
<1>5. Started(p)' <=> Started(p)
  BY <1>2, <1>4 DEF Started, Appending
<1>6. \A q \in Processes \ {p} : pc'[q] = pc[q] /\ job'[q] = job[q]
  BY DEF Moves
<1>7. \A q \in Processes \ {p} : (Viable(q)' <=> Viable(q)) /\ (Started(q)' <=> Started(q))
                                   /\ (Dismisses(q)' <=> Dismisses(q))
  BY <1>3, <1>6 DEF Viable, Started, Dismisses
<1>8. \A q \in Processes : Steady(q)'
  <2>1. Steady(p)'
    BY <1>1, <1>2, <1>3, <1>5 DEF Steady, Viable
  <2>2. ASSUME NEW q \in Processes \ {p} PROVE Steady(q)'
    BY <1>1, <1>3, <1>6, <1>7 DEF Steady
  <2>. QED
    BY <2>1, <2>2
<1>9. ASSUME NEW q \in Processes \ {p}, pc[q] = "cache", job[q].kind = "transition", Viable(p)'
      PROVE  Dismisses(q)
  <2>1. job'[p].at = head
    BY <1>2, <1>3, <1>9 DEF Viable
  <2>2. CASE job[p].pinned
    <3>1. job[q].at = job[p].at
      BY <1>2, <1>9, <2>1, <2>2, CleanBefore DEF LastInv
    <3>2. Torn(p)
      BY <1>9, <2>2, <3>1 DEF Torn
    <3>3. Mishap("torn_read", Torn(p)) \subseteq mishaps'
      BY DEF Decide, Note
    <3>4. "torn_read" \in mishaps'
      BY <3>2, <3>3 DEF Mishap
    <3>. QED
      BY <3>4, CleanBefore DEF Free
  <2>3. CASE ~job[p].pinned
    BY <1>1, <1>2, <1>9, <2>1, <2>3 DEF Steady
  <2>. QED
    BY <2>2, <2>3
<1>10. ASSUME NEW q \in Processes \ {p}, Started(q) PROVE Dismisses(p)'
  <2>1. ~Started(p) /\ state \in {"executing", "dismissed"}
    BY <1>1, <1>10 DEF Apart, Steady
  <2>2. job'[p].trigger \notin RunEnds
    BY <1>2, <1>4, <2>1 DEF Started, Appending
  <2>3. state # "dismissed"
    <3>1. state \in NonTerminal
      BY <1>2, Table
    <3>. QED
      BY <3>1 DEF NonTerminal, CleanableStates, Confirmations, Clarifications, InferringStates,
            Inferring, TargetSet
  <2>. QED
    BY <1>2, <2>1, <2>2, <2>3, Table DEF Dismisses
<1>11. ASSUME NEW q \in Processes, NEW r \in Processes, q # r PROVE Apart(q, r)'
  <2>1. CASE q = p
    BY <1>1, <1>2, <1>5, <1>6, <1>7, <1>11, <2>1 DEF Apart
  <2>2. CASE r = p
    BY <1>1, <1>2, <1>5, <1>6, <1>7, <1>9, <1>10, <1>11, <2>2 DEF Apart
  <2>3. CASE q # p /\ r # p
    BY <1>1, <1>6, <1>7, <1>11, <2>3 DEF Apart
  <2>. QED
    BY <2>1, <2>2, <2>3
<1>. QED
  BY <1>8, <1>11 DEF RunInv

\* What the row says when a transition is written was meant by nobody else, but to dismiss.
LEMMA WriteKeepsApart ==
  ASSUME TypeOK, TypeOK', HoldsInv, LastInv, RunInv, Clean', NEW p \in Processes, Fits(p),
         Moves(p), mishaps \subseteq mishaps', Cache(p), job[p].kind = "transition"
  PROVE  RunInv'
<1>1. /\ \A q \in Processes : Steady(q)
      /\ \A q, r \in Processes : q # r => Apart(q, r)
  BY CleanBefore DEF RunInv
<1>2. pc[p] = "cache" /\ state' = job[p].to /\ head' = head /\ Viable(p)
  BY DEF Cache, log, Viable
<1>3. \A q \in Processes \ {p} : pc'[q] = pc[q] /\ job'[q] = job[q] /\ pc[q] # "cache"
  BY <1>2, CleanBefore DEF Moves, LastInv
<1>4. \A q \in Processes \ {p} : (Viable(q)' <=> Viable(q)) /\ (Started(q)' <=> Started(q))
                                   /\ (Dismisses(q)' <=> Dismisses(q))
  BY <1>2, <1>3 DEF Viable, Started, Dismisses
<1>5. /\ pc'[p] \notin {"insert", "cache"} /\ ~Viable(p)'
      /\ Started(p)' => job[p].to = "executing"
  <2>0. job[p] \in Jobs
    BY DEF TypeOK
  <2>1. CASE job[p].trigger = "inference_done"
    <3>1. Become(p, "check", [job[p] EXCEPT !.kind = "audit"])
      BY <2>1 DEF Cache, AfterCache, UserEvents
    <3>2. pc'[p] = "check" /\ job'[p].kind = "audit" /\ job'[p].to = job[p].to
      BY <2>0, <3>1, Becomes DEF Jobs
    <3>. QED
      BY <3>2 DEF Viable, Started
  <2>2. CASE job[p].trigger # "inference_done"
    <3>1. Enter(p)
      BY <2>2 DEF Cache, AfterCache, UserEvents
    <3>2. CASE Finish(p)
      BY <3>2, Becomes DEF Finish, Viable, Started, NoJob, Call, RunEnds
    <3>3. CASE ~Finish(p)
      <4>1. Become(p, Handler(job[p].to), [job[p] EXCEPT !.nested = TRUE])
        BY <3>1, <3>3 DEF Enter
      <4>2. pc'[p] = Handler(job[p].to) /\ job'[p].kind = job[p].kind
        BY <2>0, <4>1, Becomes DEF Jobs
      <4>. QED
        BY <4>2 DEF Handler, Viable, Started, Appending
    <3>. QED
      BY <3>2, <3>3
  <2>. QED
    BY <2>1, <2>2
<1>6. ASSUME NEW q \in Processes PROVE Steady(q)'
  <2>1. CASE q = p
    BY <1>2, <1>5, <2>1 DEF Steady
  <2>2. CASE q # p
    <3>1. Viable(q)' => Dismisses(q)' \/ state' = "dismissed"
      BY <1>1, <1>2, <1>4, <2>2 DEF Apart, Dismisses
    <3>2. Started(q)' => state' = "dismissed"
      BY <1>1, <1>2, <1>4, <2>2 DEF Apart, Dismisses
    <3>. QED
      BY <1>1, <1>2, <1>3, <2>2, <3>1, <3>2 DEF Steady
  <2>. QED
    BY <2>1, <2>2
<1>7. ASSUME NEW q \in Processes, NEW r \in Processes, q # r PROVE Apart(q, r)'
  <2>1. CASE q = p
    <3>1. Started(p)' /\ Viable(r) => Dismisses(r)
      BY <1>1, <1>2, <1>5, <1>7, <2>1 DEF Apart, Dismisses
    <3>2. Started(p)' => ~Started(r)
      BY <1>1, <1>2, <1>5, <1>7, <2>1 DEF Apart, Dismisses
    <3>. QED
      BY <1>4, <1>5, <1>7, <2>1, <3>1, <3>2 DEF Apart
  <2>2. CASE r = p
    <3>1. Started(p)' => ~Started(q)
      BY <1>1, <1>2, <1>5, <1>7, <2>2 DEF Apart, Dismisses
    <3>. QED
      BY <1>4, <1>5, <1>7, <2>2, <3>1 DEF Apart
  <2>3. CASE q # p /\ r # p
    BY <1>1, <1>3, <1>4, <1>7, <2>3 DEF Apart
  <2>. QED
    BY <2>1, <2>2, <2>3
<1>. QED
  BY <1>6, <1>7 DEF RunInv

\* A thread that waits for inference is moved past the table: who is on the way can only dismiss it.
LEMMA LeapKeepsApart ==
  ASSUME TypeOK, TypeOK', HoldsInv, LastInv, RunInv, Clean', NEW p \in Processes,
         Moves(p), mishaps \subseteq mishaps', head' = head, state = "awaiting_inference",
         pc'[p] \in {"pin", "infer"}, ~Started(p)'
  PROVE  RunInv'
<1>1. /\ \A q \in Processes : Steady(q)
      /\ \A q, r \in Processes : q # r => Apart(q, r)
  BY CleanBefore DEF RunInv
<1>2. ASSUME NEW q \in Processes PROVE ~Started(q) /\ (Viable(q) => Dismisses(q))
  <2>1. Steady(q)
    BY <1>1
  <2>2. <<state, job[q].trigger, job[q].to>> \in TransitionTable => Dismisses(q)
    BY Table DEF Dismisses
  <2>. QED
    BY <2>1, <2>2 DEF Steady
<1>3. \A q \in Processes \ {p} : pc'[q] = pc[q] /\ job'[q] = job[q]
  BY DEF Moves
<1>4. \A q \in Processes : ~Started(q)' /\ (Viable(q)' => Dismisses(q)')
  BY <1>2, <1>3 DEF Viable, Started, Dismisses
<1>5. \A q \in Processes : Steady(q)'
  BY <1>1, <1>3, <1>4 DEF Steady, Viable
<1>6. \A q, r \in Processes : q # r => Apart(q, r)'
  BY <1>4 DEF Apart
<1>. QED
  BY <1>5, <1>6 DEF RunInv

LEMMA StepKeepsApart ==
  ASSUME TypeOK, TypeOK', HoldsInv, LastInv, LastInv', RunInv, NEW p \in Processes, Fits(p),
         Step(p), Moves(p), mishaps \subseteq mishaps', Lands(p)
  PROVE  RunInv'
<1>. SUFFICES ASSUME Clean' PROVE RunInv'
  BY DEF RunInv
<1>1. CASE p \in Users /\ Serve(p)
  BY <1>1, ServeIsCalm, CalmKeeps
<1>2. CASE \/ Refuse(p) \/ Pin(p) \/ Check(p) \/ Conflict(p) \/ Insert(p) \/ Handle(p) \/ Die(p)
           \/ Cache(p) /\ job[p].kind # "transition"
  BY <1>2, EngineIsCalm, CalmKeeps
<1>3. CASE Decide(p)
  BY <1>3, DecisionKeepsApart
<1>4. CASE Cache(p) /\ job[p].kind = "transition"
  BY <1>4, WriteKeepsApart
<1>5. CASE Promote(p)
  <2>1. state = "awaiting_inference" /\ head' = head
    <3>1. Mishap("stale_promotion", state # "awaiting_inference") \subseteq mishaps'
      BY <1>5 DEF Promote, Note
    <3>. QED
      BY <1>5, <3>1 DEF Promote, log, Mishap, Clean, Free
  <2>2. pc'[p] = "pin" /\ ~Started(p)'
    <3>1. pc[p] = "promote" /\ pc'[p] = "pin" /\ job'[p] = [job[p] EXCEPT !.kind = "promoted"]
      BY <1>5, Becomes DEF Promote
    <3>2. job'[p].kind = "promoted"
      BY <3>1 DEF TypeOK, Jobs
    <3>. QED
      BY <3>1, <3>2 DEF Started
  <2>. QED
    BY <2>1, <2>2, LeapKeepsApart
<1>6. CASE p = Poller /\ SetInferring
  <2>1. state = "awaiting_inference" /\ head' = head
    <3>1. Mishap("stale_claim", state # "awaiting_inference") \subseteq mishaps'
      BY <1>6 DEF SetInferring, Note
    <3>. QED
      BY <1>6, <3>1 DEF SetInferring, log, Mishap, Clean, Free
  <2>2. pc'[p] = "infer" /\ ~Started(p)'
    <3>1. pc[p] = "claimed" /\ pc'[p] = "infer" /\ job'[p] = job[p]
      BY <1>6, Becomes DEF SetInferring
    <3>. QED
      BY <3>1 DEF Started, Fits, Appending
  <2>. QED
    BY <2>1, <2>2, LeapKeepsApart
<1>7. CASE p = Poller /\ (Dequeue \/ Infer \/ InferenceFails)
  BY <1>7, PollIsCalm, CalmKeeps
<1>. QED
  BY <1>1, <1>2, <1>3, <1>4, <1>5, <1>6, <1>7 DEF Step, Write, Poll

-----------------------------------------------------------------------------
LEMMA InitHolds == Init => IInv
<1>. SUFFICES ASSUME Init PROVE IInv
  OBVIOUS
<1>1. /\ pc = [p \in Processes |-> "idle"] /\ job = [p \in Processes |-> NoJob]
      /\ lock = head /\ head \in {0, 1}
      /\ state \in {"proposed", "awaiting_confirmation", "awaiting_action_clarification"}
  BY DEF Init
<1>2. TypeOK
  <2>1. state \in States /\ inferred \subseteq TargetSet
    BY <1>1 DEF Init, States, NonTerminal, CleanableStates, TargetSet
  <2>2. lock \in 0..head /\ head \in Nat
    BY <1>1
  <2>3. pending \in Seq(TargetSet) /\ mishaps \subseteq Mishaps
    BY DEF Init
  <2>4. proposal \in BOOLEAN
    BY DEF Init
  <2>5. requests \in 0..MaxRequests /\ deaths \in 0..MaxDeaths
    BY ThreadAssumption DEF Init
  <2>. QED
    BY <1>1, <2>1, <2>2, <2>3, <2>4, <2>5, NoJobIsJob DEF TypeOK
<1>3. \A p \in Processes : pc[p] = "idle" /\ job[p] = NoJob /\ Holds(p) /\ Fits(p)
  BY <1>1 DEF Holds, Fits, NoJob, Call
<1>4. HoldsInv /\ JobInv /\ LastInv /\ OwedInv
  BY <1>1, <1>3 DEF HoldsInv, JobInv, LastInv, OwedInv
<1>5. DutyInv
  BY <1>1 DEF DutyInv, InferringStates, Inferring, TargetSet
<1>6. \A p \in Processes : ~Started(p) /\ ~Viable(p)
  BY <1>3, NoDuty DEF Viable
<1>7. RunInv
  BY <1>3, <1>6 DEF RunInv, Steady, Apart
<1>. QED
  BY <1>2, <1>4, <1>5, <1>7 DEF IInv

LEMMA NextKeeps == IInv /\ [Next]_vars => IInv'
<1>. SUFFICES ASSUME IInv, [Next]_vars PROVE IInv'
  OBVIOUS
<1>1. CASE Next
  <2>1. PICK p \in Processes : Step(p)
    BY <1>1, EveryStep
  <2>2. TypeOK' /\ Moves(p) /\ Fits(p)' /\ HoldsInv' /\ JobInv' /\ Fits(p)
    BY <2>1, StepFits DEF IInv, JobInv
  <2>3. mishaps \subseteq mishaps' /\ Lands(p)
    BY <2>1, NotesStay, StepLands DEF IInv
  <2>4. DutyInv'
    <3>1. CASE p \in Users /\ Serve(p)
      BY <2>2, <2>3, <3>1, ServeHandsOver, DutyStays DEF IInv
    <3>2. CASE Decide(p) \/ Refuse(p) \/ Write(p) \/ Handle(p) \/ Die(p)
      BY <2>2, <2>3, <3>2, EngineHandsOver, DutyStays DEF IInv
    <3>3. CASE p = Poller /\ Poll
      BY <2>2, <2>3, <3>3, PollHandsOver, DutyStays DEF IInv
    <3>. QED
      BY <2>1, <3>1, <3>2, <3>3 DEF Step
  <2>5. LastInv'
    BY <2>2, <2>3, LastStays DEF IInv
  <2>6. OwedInv'
    BY <2>1, <2>2, <2>3, StepPaysLock, OwedStays DEF IInv
  <2>7. RunInv'
    BY <2>1, <2>2, <2>3, <2>5, StepKeepsApart DEF IInv
  <2>. QED
    BY <2>2, <2>4, <2>5, <2>6, <2>7 DEF IInv
<1>2. CASE UNCHANGED vars
  <2>. USE <1>2 DEF vars, row, log, counts
  <2>1. TypeOK' /\ HoldsInv' /\ JobInv'
    BY DEF IInv, TypeOK, HoldsInv, JobInv, Holds, Fits
  <2>2. DutyInv'
    BY DEF IInv, DutyInv, Free, Queueing, Answering, Started, Cleaning
  <2>3. LastInv' /\ OwedInv'
    BY DEF IInv, LastInv, OwedInv, Free, Owes
  <2>4. RunInv'
    BY DEF IInv, RunInv, Clean, Free, Steady, Apart, Viable, Started, Dismisses
  <2>. QED
    BY <2>1, <2>2, <2>3, <2>4 DEF IInv
<1>. QED
  BY <1>1, <1>2

LEMMA Invariance == Spec => []IInv
  BY InitHolds, NextKeeps, PTL DEF Spec

(* The types of the engine's variables.                                       *)
THEOREM TypeCorrect == Spec => []TypeOK
<1>1. IInv => TypeOK
  BY DEF IInv
<1>. QED
  BY <1>1, Invariance, PTL

(* At rest nobody has a job, so nobody is on duty for a state of the machine:  *)
(* one of the accidents that excuse it has happened.                           *)
THEOREM RestsWithTheUser == Spec => []QuietIsUsersTurn
<1>1. ASSUME IInv, Quiet PROVE QuietIsUsersTurn
  <2>1. \A p \in Processes : ~Queueing(p) /\ ~Answering(p) /\ ~Started(p) /\ ~Cleaning(p)
    BY <1>1, NoDuty DEF IInv, JobInv, Fits, Quiet
  <2>2. /\ state = "awaiting_inference" => ~Free({"rejected", "death"}) \/ pc[Poller] = "dead"
        /\ state \in InferringStates => ~Free({"refused", "death"})
        /\ state = "executing" => ~Free({"refused", "no_proposal", "death"})
        /\ state = "cleaning_up" => ~Free({"refused", "death"})
    BY <1>1, <2>1 DEF IInv, DutyInv, Quiet
  <2>. QED
    BY <2>2 DEF QuietIsUsersTurn, Free
<1>2. IInv => QuietIsUsersTurn
  BY <1>1 DEF QuietIsUsersTurn
<1>. QED
  BY <1>2, Invariance, PTL

(* At rest nobody owes the lock, so it has reached the log.                    *)
THEOREM LockIsCurrentAtRest == Spec => []QuietLockIsCurrent
<1>1. ASSUME IInv, Quiet PROVE \A p \in Processes : ~Owes(p)
  BY <1>1 DEF Quiet, Owes
<1>2. IInv => QuietLockIsCurrent
  BY <1>1 DEF IInv, OwedInv, Free, QuietLockIsCurrent
<1>. QED
  BY <1>2, Invariance, PTL

(* Whoever runs the skill has started, and no two have.                        *)
THEOREM RunsAlone == Spec => []OneRunAtATime
<1>1. IInv => OneRunAtATime
  BY DEF IInv, RunInv, Apart, Started, Clean, Free, OneRunAtATime
<1>. QED
  BY <1>1, Invariance, PTL
=============================================================================
