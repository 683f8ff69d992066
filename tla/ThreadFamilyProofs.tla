------------------------- MODULE ThreadFamilyProofs -------------------------
(***************************************************************************)
(* Proofs about ThreadFamily, for any children, items, workers and number  *)
(* of disturbances.  IInv says, beside types and the shape of jobs: a lock *)
(* that is behind the log is owed by somebody who has read the latest id   *)
(* or is about to (OwedInv); children do not end before the spawn is over, *)
(* and whoever finishes the umbrella has seen them all ended (EarlyInv);   *)
(* when they have, somebody is on the way to close it whose append will be *)
(* accepted (CloseInv); and a move holds its item in its hands between its *)
(* two writes (ItemsInv).                                                  *)
(***************************************************************************)
EXTENDS ThreadFamily, FiniteSetTheorems, TLAPS

Free(what) == mishaps \cap what = {}

Cascades == {"report", "finish"}
Edits == {"note", "add", "delete"}

\* Nobody holds an event of the future, and each place belongs to certain events.
Fits(p) ==
    /\ job[p].at <= head
    /\ job[p].op = "dismiss" => job[p].to = "dismissed"
    /\ pc[p] \in {"parent", "list"} => job[p].op = "report"
    /\ pc[p] = "decide" => job[p].op \in {"finish", "dismiss"}
    /\ pc[p] \in {"latest", "bump"} => job[p].op \in Edits \cup {"report", "spawn"}
    /\ pc[p] = "write" => job[p].op \in {"finish", "dismiss"}
    /\ Moving(p) <=> job[p].op = "move"
    /\ job[p].op = "none" => pc[p] = "idle"
    /\ p = Runner =>
         /\ IF pc[p] = "idle" THEN job[p] = NoJob ELSE job[p].op = "spawn" /\ ~job[p].deleting
         /\ pc[p] \in {"spawning", "check", "insert", "latest", "bump", "setup", "idle"}
    /\ p # Runner => job[p].op # "spawn" /\ pc[p] \notin {"spawning", "setup"}

JobInv == \A p \in Processes : Fits(p)

Owes(p) ==
    \/ pc[p] = "latest"
    \/ pc[p] \in {"bump", "write"} /\ job[p].at = head

OwedInv ==
    Free({"stale_lock", "later", "death"}) => lock = head \/ \E p \in Processes : Owes(p)

Ended(c) == child[c] \in Terminal \cup {"none"}

EarlyInv ==
    Free({"early"}) =>
        /\ ~Settled =>
              /\ state # "done"
              /\ \A p \in Processes : job[p].op \notin Cascades
              /\ \A c \in Children : child[c] \notin Terminal
        /\ \/ state = "done"
           \/ \E p \in Processes : job[p].op = "finish"
           => \A c \in Clusters : Ended(c)

\* Its report will be appended, and finds the children ended, or the end will.
Closes(p) ==
    \/ pc[p] = "parent"
    \/ job[p].op \in Cascades /\ pc[p] \in {"check", "insert"} /\ job[p].at = head
    \/ job[p].op = "report" /\ pc[p] \in {"latest", "bump", "list"}
    \/ job[p].op = "finish" /\ pc[p] = "decide"
    \/ pc[p] = "write"

CloseInv ==
    mishaps = {} /\ AllEnded /\ state = "monitoring" => \E p \in Processes : Closes(p)

HomesOf(i) == {c \in Children : i \in home[c]}

\* Every other item has one home.
Housed(i) == \E c \in Children : HomesOf(i) = {c}

ItemsInv ==
    Free({"moves", "death"}) =>
        /\ \A p, q \in Processes : Moving(p) /\ Moving(q) => p = q
        /\ (\A p \in Processes : ~Moving(p)) => \A i \in Items : Housed(i)
        /\ \A p \in Processes : Moving(p) =>
             /\ job[p].src \in Children /\ job[p].dest \in Children /\ job[p].src # job[p].dest
             /\ \E x \in Items :
                  /\ \A i \in Items \ {x} : Housed(i)
                  /\ HomesOf(x) = IF pc[p] = "source" THEN {job[p].src} ELSE {}
                  /\ job[p].kept = home[job[p].src] \ {x}
                  /\ job[p].grown = home[job[p].dest] \cup {x}

IInv == TypeOK /\ JobInv /\ OwedInv /\ EarlyInv /\ CloseInv /\ ItemsInv

-----------------------------------------------------------------------------
(* Steps.                                                                    *)

Places == {"idle", "parent", "pin", "decide", "check", "insert", "latest", "bump", "list",
           "write", "source", "destination", "spawning", "setup"}

\* What every step by p keeps to.
Moves(p) ==
    /\ pc' \in [Processes -> Places] /\ job' \in [Processes -> Jobs]
    /\ \A q \in Processes \ {p} : pc'[q] = pc[q] /\ job'[q] = job[q]

LEMMA Mover ==
  ASSUME TypeOK, NEW p \in Processes, NEW k \in Places, NEW new \in Jobs, Become(p, k, new)
  PROVE  Moves(p)
  BY DEF TypeOK, Become, Places, Moves

LEMMA Becomes ==
  ASSUME TypeOK, NEW p \in Processes, NEW k, NEW new, Become(p, k, new)
  PROVE  pc'[p] = k /\ job'[p] = new
  BY DEF TypeOK, Become

LEMMA NoJobIsJob == NoJob \in Jobs
  BY DEF NoJob, Jobs, Ops

LEMMA Stays ==
  ASSUME TypeOK, NEW p, UNCHANGED <<pc, job>>
  PROVE  Moves(p)
  BY DEF TypeOK, Moves, Places

\* Whom a step is by.
Act(p) ==
    \/ p = Runner /\ (SpawnChild \/ SpawnRecord \/ SetUpChild)
    \/ Step(p) \/ Dies(p)
    \/ p \in Workers /\ (Request(p) \/ \E c \in Children, end \in Terminal : End(p, c, end))

LEMMA EveryStep == Next => \E p \in Processes : Act(p)
  BY DEF Next, Act, Processes

LEMMA Notes ==
  ASSUME mishaps \subseteq Mishaps, NEW what \in Mishaps, NEW happens, Note(what, happens)
  PROVE  mishaps' \subseteq Mishaps /\ mishaps \subseteq mishaps' /\ (happens => what \in mishaps')
  BY DEF Note

LEMMA SpawnTypes ==
  ASSUME TypeOK, SpawnChild \/ SpawnRecord \/ SetUpChild
  PROVE  TypeOK' /\ Moves(Runner)
<1>. Runner \in Processes /\ Clusters \subseteq Children
  BY DEF Processes, Children
<1>. USE DEF umbrella, children, Places
<1>1. CASE SpawnChild
  <2>1. child' \in [Children -> Live \cup Terminal \cup {"none"}]
    BY <1>1 DEF SpawnChild, TypeOK, Live
  <2>. QED
    BY <1>1, <2>1, Stays DEF SpawnChild, TypeOK
<1>2. CASE SpawnRecord
  <2>1. Moves(Runner)
    BY <1>2, Mover DEF SpawnRecord, Goto, TypeOK
  <2>. QED
    BY <1>2, <2>1 DEF SpawnRecord, TypeOK, Moves
<1>3. CASE SetUpChild
  <2>1. PICK c \in job[Runner].left :
           /\ child' = [child EXCEPT ![c] = "waiting"]
           /\ IF job[Runner].left \ {c} = {} THEN Finish(Runner)
              ELSE Become(Runner, "setup", [job[Runner] EXCEPT !.left = job[Runner].left \ {c}])
    BY <1>3 DEF SetUpChild
  <2>2. job[Runner] \in Jobs /\ job[Runner].left \subseteq Clusters
    BY DEF TypeOK, Jobs
  <2>3. [job[Runner] EXCEPT !.left = job[Runner].left \ {c}] \in Jobs
    BY <2>2 DEF Jobs
  <2>4. Moves(Runner)
    BY <2>1, <2>3, Mover, NoJobIsJob DEF Finish
  <2>5. child' \in [Children -> Live \cup Terminal \cup {"none"}]
    BY <2>1 DEF TypeOK, Live
  <2>. QED
    BY <1>3, <2>4, <2>5 DEF SetUpChild, TypeOK, Moves
<1>. QED
  BY <1>1, <1>2, <1>3

LEMMA RequestTypes ==
  ASSUME TypeOK, NEW p \in Workers,
         Request(p) \/ \E c \in Children, end \in Terminal : End(p, c, end)
  PROVE  TypeOK' /\ Moves(p)
<1>. p \in Processes /\ Extras \subseteq Children
  BY DEF Processes, Children
<1>. USE DEF umbrella, children, Places
<1>0. MaxDisturbances \in Nat
  BY FamilyAssumption
<1>1. \A op \in Ops : [NoJob EXCEPT !.op = op] \in Jobs /\ [NoJob EXCEPT !.op = op, !.at = lock] \in Jobs
  BY NoJobIsJob DEF Jobs, TypeOK
<1>2. CASE Dismiss(p)
  <2>1. [NoJob EXCEPT !.op = "dismiss", !.to = "dismissed"] \in Jobs
    BY NoJobIsJob DEF Jobs, Ops
  <2>2. Moves(p)
    BY <1>2, <2>1, Mover DEF Dismiss
  <2>. QED
    BY <1>0, <1>2, <2>2 DEF Dismiss, Arrives, TypeOK, Moves
<1>3. CASE NoteEvent(p)
  <2>1. Moves(p)
    BY <1>1, <1>3, Mover DEF NoteEvent, Ops
  <2>. QED
    BY <1>0, <1>3, <2>1 DEF NoteEvent, Arrives, TypeOK, Moves
<1>4. CASE Later(p)
  <2>1. Moves(p)
    BY <1>1, <1>4, Mover DEF Later, Ops
  <2>. QED
    BY <1>0, <1>4, <2>1 DEF Later, Arrives, TypeOK, Moves
<1>5. ASSUME NEW c \in Extras, SpawnEmptyGroup(p, c) PROVE TypeOK' /\ Moves(p)
  <2>1. Moves(p)
    BY <1>1, <1>5, Mover DEF SpawnEmptyGroup, Ops
  <2>2. child' \in [Children -> Live \cup Terminal \cup {"none"}]
    BY <1>5 DEF SpawnEmptyGroup, TypeOK, Live
  <2>. QED
    BY <1>0, <1>5, <2>1, <2>2 DEF SpawnEmptyGroup, Arrives, TypeOK, Moves
<1>6. ASSUME NEW c \in Children, DeleteChild(p, c) PROVE TypeOK' /\ Moves(p)
  <2>1. [NoJob EXCEPT !.op = "report", !.deleting = TRUE] \in Jobs
    BY NoJobIsJob DEF Jobs, Ops
  <2>2. Moves(p)
    BY <1>1, <1>6, <2>1, Mover DEF DeleteChild, Ops
  <2>3. child' \in [Children -> Live \cup Terminal \cup {"none"}]
    BY <1>6 DEF DeleteChild, TypeOK, Live, Terminal
  <2>4. mishaps' \subseteq Mishaps
    BY <1>6, Notes DEF DeleteChild, TypeOK, Mishaps
  <2>. QED
    BY <1>0, <1>6, <2>2, <2>3, <2>4 DEF DeleteChild, Arrives, TypeOK, Moves
<1>7. ASSUME NEW item \in Items, NEW src \in Children, NEW dest \in Children,
             MoveItem(p, item, src, dest)
      PROVE  TypeOK' /\ Moves(p)
  <2>1. home[src] \ {item} \subseteq Items /\ home[dest] \cup {item} \subseteq Items
    BY DEF TypeOK
  <2>2. [NoJob EXCEPT !.op = "move", !.src = src, !.dest = dest, !.kept = home[src] \ {item},
                      !.grown = home[dest] \cup {item}] \in Jobs
    BY <2>1, NoJobIsJob DEF Jobs, Ops
  <2>3. Moves(p)
    BY <1>7, <2>2, Mover DEF MoveItem
  <2>4. mishaps' \subseteq Mishaps
    BY <1>7, Notes DEF MoveItem, TypeOK, Mishaps
  <2>. QED
    BY <1>0, <1>7, <2>3, <2>4 DEF MoveItem, Arrives, TypeOK, Moves
<1>8. ASSUME NEW c \in Children, NEW end \in Terminal, End(p, c, end) PROVE TypeOK' /\ Moves(p)
  <2>1. Moves(p)
    BY <1>1, <1>8, NoJobIsJob, Mover DEF End, Finish, Ops
  <2>2. child' \in [Children -> Live \cup Terminal \cup {"none"}]
    BY <1>8 DEF End, TypeOK
  <2>3. mishaps' \subseteq Mishaps
    BY <1>8 DEF End, TypeOK, Mishaps
  <2>. QED
    BY <1>8, <2>1, <2>2, <2>3 DEF End, TypeOK, Moves
<1>. QED
  BY <1>2, <1>3, <1>4, <1>5, <1>6, <1>7, <1>8 DEF Request

LEMMA StepTypes ==
  ASSUME TypeOK, NEW p \in Processes, Fits(p), Step(p) \/ Dies(p)
  PROVE  TypeOK' /\ Moves(p)
<1>. USE DEF umbrella, children, Places
<1>0. job[p] \in Jobs /\ job[p].at \in Nat /\ head \in Nat /\ lock \in Nat /\ MaxDisturbances \in Nat
  BY FamilyAssumption DEF TypeOK, Jobs
<1>1. /\ \A n \in Nat : [job[p] EXCEPT !.at = n] \in Jobs
      /\ [NoJob EXCEPT !.op = "delete"] \in Jobs
  BY <1>0, NoJobIsJob DEF Jobs, Ops
<1>2. Return(p) => Moves(p)
  BY <1>1, NoJobIsJob, Mover DEF Return, Finish
<1>3. ASSUME NEW k \in Places, Goto(p, k) PROVE Moves(p)
  BY <1>0, <1>3, Mover DEF Goto
<1>4. CASE ReadParent(p)
  <2>1. Moves(p)
    BY <1>0, <1>1, <1>2, <1>4, Mover DEF ReadParent
  <2>2. mishaps' \subseteq Mishaps
    BY <1>4, Notes DEF ReadParent, TypeOK, Mishaps
  <2>. QED
    BY <1>4, <2>1, <2>2 DEF ReadParent, TypeOK, Moves
<1>5. CASE Pin(p)
  <2>1. Moves(p)
    BY <1>0, <1>1, <1>5, Mover DEF Pin
  <2>. QED
    BY <1>5, <2>1 DEF Pin, TypeOK, Moves
<1>6. CASE Decide(p)
  <2>1. Moves(p)
    BY <1>0, <1>1, <1>2, <1>6, Mover DEF Decide
  <2>2. mishaps' \subseteq Mishaps
    BY <1>6, Notes DEF Decide, TypeOK, Mishaps
  <2>. QED
    BY <1>6, <2>1, <2>2 DEF Decide, TypeOK, Moves
<1>7. CASE Check(p)
  <2>1. Moves(p)
    BY <1>2, <1>3, <1>7 DEF Check
  <2>. QED
    BY <1>7, <2>1 DEF Check, TypeOK, Moves
<1>8. CASE Insert(p)
  <2>1. Moves(p)
    BY <1>0, <1>1, <1>3, <1>8, NoJobIsJob, Mover DEF Insert, Finish
  <2>2. mishaps' \subseteq Mishaps
    BY <1>8 DEF Insert, TypeOK, Mishaps
  <2>. QED
    BY <1>0, <1>8, <2>1, <2>2 DEF Insert, TypeOK, Moves
<1>9. CASE ReadLatest(p)
  <2>1. Moves(p)
    BY <1>0, <1>1, <1>9, Mover DEF ReadLatest
  <2>. QED
    BY <1>9, <2>1 DEF ReadLatest, TypeOK, Moves
<1>10. CASE Bump(p)
  <2>1. Moves(p)
    BY <1>3, <1>10, NoJobIsJob, Mover DEF Bump, Finish
  <2>2. mishaps' \subseteq Mishaps
    BY <1>10, Notes DEF Bump, TypeOK, Mishaps
  <2>3. lock' \in Nat /\ lock' <= head' /\ state' \in {"monitoring", "done", "dismissed"}
    BY <1>0, <1>10 DEF Bump, TypeOK, Fits
  <2>. QED
    BY <1>10, <2>1, <2>2, <2>3 DEF Bump, TypeOK, Moves
<1>11. CASE List(p)
  <2>1. \A to \in {"done", "dismissed"} : [job[p] EXCEPT !.op = "finish", !.to = to] \in Jobs
    BY <1>0 DEF Jobs, Ops
  <2>2. Return(p) \/ \E to \in {"done", "dismissed"} :
                        Become(p, "decide", [job[p] EXCEPT !.op = "finish", !.to = to])
    BY <1>11 DEF List
  <2>3. Moves(p)
    BY <1>2, <2>1, <2>2, Mover
  <2>. QED
    BY <1>11, <2>3 DEF List, TypeOK, Moves
<1>12. CASE Write(p)
  <2>1. Moves(p)
    BY <1>2, <1>12 DEF Write
  <2>2. mishaps' \subseteq Mishaps
    BY <1>12 DEF Write, TypeOK, Mishaps
  <2>3. lock' \in Nat /\ lock' <= head' /\ state' \in {"monitoring", "done", "dismissed"}
    BY <1>0, <1>12 DEF Write, TypeOK, Fits, Jobs
  <2>. QED
    BY <1>12, <2>1, <2>2, <2>3 DEF Write, TypeOK, Moves
<1>13. CASE WriteSource(p)
  <2>1. Moves(p)
    BY <1>3, <1>13 DEF WriteSource
  <2>2. home' \in [Children -> SUBSET Items]
    BY <1>0, <1>13 DEF WriteSource, TypeOK, Jobs
  <2>. QED
    BY <1>13, <2>1, <2>2 DEF WriteSource, TypeOK, Moves
<1>14. CASE WriteDestination(p)
  <2>1. Moves(p)
    BY <1>14, NoJobIsJob, Mover DEF WriteDestination, Finish
  <2>2. home' \in [Children -> SUBSET Items]
    BY <1>0, <1>14 DEF WriteDestination, TypeOK, Jobs
  <2>. QED
    BY <1>14, <2>1, <2>2 DEF WriteDestination, TypeOK, Moves
<1>15. CASE Dies(p)
  <2>1. Moves(p)
    BY <1>15, NoJobIsJob, Mover DEF Dies, Finish
  <2>2. mishaps' \subseteq Mishaps
    BY <1>15, Notes DEF Dies, TypeOK, Mishaps
  <2>. QED
    BY <1>0, <1>15, <2>1, <2>2 DEF Dies, TypeOK, Moves
<1>. QED
  BY <1>4, <1>5, <1>6, <1>7, <1>8, <1>9, <1>10, <1>11, <1>12, <1>13, <1>14, <1>15 DEF Step

-----------------------------------------------------------------------------
LEMMA Others ==
  ASSUME TypeOK, JobInv, NEW p \in Processes, Moves(p), head' >= head, head' \in Nat, Fits(p)'
  PROVE  JobInv'
<1>. SUFFICES ASSUME NEW q \in Processes PROVE Fits(q)'
  BY DEF JobInv
<1>1. CASE q = p
  BY <1>1
<1>2. CASE q # p
  <2>1. pc'[q] = pc[q] /\ job'[q] = job[q] /\ Fits(q) /\ job[q].at \in Nat /\ head \in Nat
    BY <1>2 DEF Moves, JobInv, TypeOK, Jobs
  <2>. QED
    BY <2>1 DEF Fits, Moving
<1>. QED
  BY <1>1, <1>2

LEMMA FinishFits ==
  ASSUME TypeOK, NEW p \in Processes, Finish(p), head' \in Nat
  PROVE  Fits(p)'
  BY Becomes DEF Finish, Fits, Moving, NoJob

LEMMA ReturnFits ==
  ASSUME TypeOK, NEW p \in Processes, Fits(p), Return(p), head' \in Nat, pc[p] # "idle"
  PROVE  Fits(p)'
<1>1. CASE job[p].deleting
  <2>1. Become(p, "pin", [NoJob EXCEPT !.op = "delete"]) /\ p # Runner
    BY <1>1 DEF Return, Fits
  <2>2. pc'[p] = "pin" /\ job'[p] = [NoJob EXCEPT !.op = "delete"]
    BY <2>1, Becomes
  <2>. QED
    BY <2>1, <2>2 DEF Fits, Moving, NoJob
<1>2. CASE ~job[p].deleting
  BY <1>2, FinishFits DEF Return
<1>. QED
  BY <1>1, <1>2

LEMMA SpawnFits ==
  ASSUME TypeOK, Fits(Runner), SpawnChild \/ SpawnRecord \/ SetUpChild
  PROVE  Fits(Runner)' /\ head' = head
<1>. Runner \in Processes
  BY DEF Processes
<1>0. job[Runner] \in Jobs /\ head \in Nat
  BY DEF TypeOK
<1>1. head' = head
  BY DEF SpawnChild, SpawnRecord, SetUpChild, umbrella
<1>2. CASE SpawnChild
  BY <1>1, <1>2 DEF SpawnChild, Fits, Moving
<1>3. CASE SpawnRecord
  <2>1. pc[Runner] = "spawning" /\ pc'[Runner] \in {"check", "setup"} /\ job'[Runner] = job[Runner]
    BY <1>3, Becomes DEF SpawnRecord, Goto
  <2>. QED
    BY <1>1, <2>1 DEF Fits, Moving
<1>4. CASE SetUpChild
  <2>1. pc[Runner] = "setup"
    BY <1>4 DEF SetUpChild
  <2>2. PICK left : Finish(Runner) \/ Become(Runner, "setup", [job[Runner] EXCEPT !.left = left])
    BY <1>4 DEF SetUpChild
  <2>3. CASE Finish(Runner)
    BY <1>0, <1>1, <2>3, FinishFits
  <2>4. CASE Become(Runner, "setup", [job[Runner] EXCEPT !.left = left])
    <3>1. pc'[Runner] = "setup" /\ job'[Runner] = [job[Runner] EXCEPT !.left = left]
      BY <2>4, Becomes
    <3>2. /\ job'[Runner].op = job[Runner].op /\ job'[Runner].at = job[Runner].at
          /\ job'[Runner].deleting = job[Runner].deleting /\ job'[Runner].to = job[Runner].to
      BY <1>0, <3>1 DEF Jobs
    <3>. QED
      BY <1>1, <2>1, <3>1, <3>2 DEF Fits, Moving
  <2>. QED
    BY <2>2, <2>3, <2>4
<1>. QED
  BY <1>1, <1>2, <1>3, <1>4

\* A request begins with its own event.
LEMMA RequestFits ==
  ASSUME TypeOK, NEW p \in Workers,
         Request(p) \/ \E c \in Children, end \in Terminal : End(p, c, end)
  PROVE  Fits(p)' /\ head' = head
<1>. p \in Processes /\ p # Runner
  BY FamilyAssumption DEF Processes
<1>. USE Becomes DEF NoJob, Fits, Moving, Edits
<1>0. head \in Nat /\ lock \in Nat /\ lock <= head
  BY DEF TypeOK
<1>1. head' = head
  BY DEF Request, Dismiss, NoteEvent, Later, SpawnEmptyGroup, DeleteChild, MoveItem, End, umbrella
<1>2. CASE Dismiss(p)
  <2>1. pc'[p] = "decide" /\ job'[p] = [NoJob EXCEPT !.op = "dismiss", !.to = "dismissed"]
    BY <1>2 DEF Dismiss
  <2>2. job'[p].op = "dismiss" /\ job'[p].to = "dismissed" /\ job'[p].at = 0
    BY <2>1
  <2>. QED
    BY <1>0, <1>1, <2>1, <2>2
<1>3. CASE NoteEvent(p)
  <2>1. pc'[p] = "check" /\ job'[p] = [NoJob EXCEPT !.op = "note", !.at = lock]
    BY <1>3 DEF NoteEvent
  <2>2. job'[p].op = "note" /\ job'[p].at = lock
    BY <2>1
  <2>. QED
    BY <1>0, <1>1, <2>1, <2>2
<1>4. CASE Later(p)
  <2>1. pc'[p] = "pin" /\ job'[p] = [NoJob EXCEPT !.op = "later"]
    BY <1>4 DEF Later
  <2>2. job'[p].op = "later" /\ job'[p].at = 0
    BY <2>1
  <2>. QED
    BY <1>0, <1>1, <2>1, <2>2
<1>5. ASSUME NEW c \in Extras, SpawnEmptyGroup(p, c) PROVE Fits(p)'
  <2>1. pc'[p] = "check" /\ job'[p] = [NoJob EXCEPT !.op = "add", !.at = lock]
    BY <1>5 DEF SpawnEmptyGroup
  <2>2. job'[p].op = "add" /\ job'[p].at = lock
    BY <2>1
  <2>. QED
    BY <1>0, <1>1, <2>1, <2>2
<1>6. ASSUME NEW c \in Children, DeleteChild(p, c) PROVE Fits(p)'
  <2>1. \/ pc'[p] = "pin" /\ job'[p] = [NoJob EXCEPT !.op = "delete"]
        \/ pc'[p] = "parent" /\ job'[p] = [NoJob EXCEPT !.op = "report", !.deleting = TRUE]
    BY <1>6 DEF DeleteChild
  <2>2. job'[p].at = 0 /\ job'[p].op = IF pc'[p] = "pin" THEN "delete" ELSE "report"
    BY <2>1
  <2>. QED
    BY <1>0, <1>1, <2>1, <2>2
<1>7. ASSUME NEW item, NEW src, NEW dest, MoveItem(p, item, src, dest) PROVE Fits(p)'
  <2>1. /\ pc'[p] = "source"
        /\ job'[p] = [NoJob EXCEPT !.op = "move", !.src = src, !.dest = dest,
                              !.kept = home[src] \ {item}, !.grown = home[dest] \cup {item}]
    BY <1>7 DEF MoveItem
  <2>2. job'[p].op = "move" /\ job'[p].at = 0
    BY <2>1
  <2>. QED
    BY <1>0, <1>1, <2>1, <2>2
<1>8. ASSUME NEW c, NEW end, End(p, c, end) PROVE Fits(p)'
  <2>1. \/ pc'[p] = "parent" /\ job'[p] = [NoJob EXCEPT !.op = "report"]
        \/ pc'[p] = "idle" /\ job'[p] = NoJob
    BY <1>8 DEF End, Finish
  <2>2. job'[p].at = 0 /\ job'[p].op = IF pc'[p] = "idle" THEN "none" ELSE "report"
    BY <2>1
  <2>. QED
    BY <1>0, <1>1, <2>1, <2>2
<1>. QED
  BY <1>1, <1>2, <1>3, <1>4, <1>5, <1>6, <1>7, <1>8 DEF Request

LEMMA StepFits ==
  ASSUME TypeOK, TypeOK', NEW p \in Processes, Fits(p), Step(p) \/ Dies(p)
  PROVE  Fits(p)' /\ head' >= head
<1>. USE Becomes, ReturnFits, FinishFits DEF Fits, Moving, Edits
<1>0. /\ head \in Nat /\ head' \in Nat /\ lock \in Nat /\ lock <= head
      /\ job[p] \in Jobs /\ job[p].at \in Nat
  BY DEF TypeOK, Jobs
<1>1. ASSUME NEW k, NEW n \in Nat, Become(p, k, [job[p] EXCEPT !.at = n])
      PROVE  /\ pc'[p] = k /\ job'[p].at = n /\ job'[p].op = job[p].op
             /\ job'[p].to = job[p].to /\ job'[p].deleting = job[p].deleting
  BY <1>0, <1>1 DEF Jobs
<1>2. \/ head' = head
      \/ Insert(p) /\ head' = head + 1
  BY DEF Step, Dies, ReadParent, Pin, Decide, Check, Insert, ReadLatest, Bump, List, Write,
     WriteSource, WriteDestination, umbrella
<1>3. CASE ReadParent(p)
  <2>1. pc[p] = "parent" /\ head' = head
    BY <1>3 DEF ReadParent, umbrella
  <2>2. CASE state = "monitoring"
    <3>1. Become(p, "check", [job[p] EXCEPT !.at = lock])
      BY <1>3, <2>2 DEF ReadParent
    <3>. QED
      BY <1>0, <1>1, <2>1, <3>1
  <2>3. CASE state # "monitoring"
    BY <1>0, <1>3, <2>1, <2>3 DEF ReadParent
  <2>. QED
    BY <2>2, <2>3
<1>4. CASE Pin(p)
  <2>1. pc[p] = "pin" /\ head' = head /\ Become(p, "check", [job[p] EXCEPT !.at = head])
    BY <1>4 DEF Pin, umbrella
  <2>. QED
    BY <1>0, <1>1, <2>1
<1>5. CASE Decide(p)
  <2>1. pc[p] = "decide" /\ head' = head
    BY <1>5 DEF Decide, umbrella
  <2>2. CASE state = "monitoring"
    <3>1. Become(p, "check", [job[p] EXCEPT !.at = lock])
      BY <1>5, <2>2 DEF Decide
    <3>. QED
      BY <1>0, <1>1, <2>1, <3>1
  <2>3. CASE state # "monitoring"
    BY <1>0, <1>5, <2>1, <2>3 DEF Decide
  <2>. QED
    BY <2>2, <2>3
<1>6. CASE Check(p)
  <2>1. pc[p] = "check" /\ head' = head /\ (Return(p) \/ Become(p, "insert", job[p]))
    BY <1>6 DEF Check, Goto, umbrella
  <2>. QED
    BY <1>0, <2>1
<1>7. CASE Insert(p)
  <2>1. pc[p] = "insert" /\ head' = head + 1
    BY <1>7 DEF Insert
  <2>2. CASE job[p].op = "later"
    BY <1>0, <1>7, <2>2 DEF Insert
  <2>3. CASE job[p].op \in {"finish", "dismiss"}
    <3>1. Become(p, "write", [job[p] EXCEPT !.at = head + 1])
      BY <1>7, <2>3 DEF Insert
    <3>. QED
      BY <1>0, <1>1, <2>1, <2>3, <3>1
  <2>4. CASE job[p].op \notin {"later", "finish", "dismiss"}
    <3>1. pc'[p] = "latest" /\ job'[p] = job[p]
      BY <1>7, <2>4 DEF Insert, Goto
    <3>. QED
      BY <1>0, <2>1, <2>4, <3>1 DEF Jobs, Ops
  <2>. QED
    BY <2>2, <2>3, <2>4
<1>8. CASE ReadLatest(p)
  <2>1. pc[p] = "latest" /\ head' = head /\ Become(p, "bump", [job[p] EXCEPT !.at = head])
    BY <1>8 DEF ReadLatest, umbrella
  <2>. QED
    BY <1>0, <1>1, <2>1
<1>9. CASE Bump(p)
  <2>1. pc[p] = "bump" /\ head' = head
    BY <1>9 DEF Bump
  <2>2. CASE p = Runner
    <3>1. pc'[p] = "setup" /\ job'[p] = job[p]
      BY <1>9, <2>2 DEF Bump, Goto
    <3>. QED
      BY <1>0, <2>1, <2>2, <3>1
  <2>3. CASE p # Runner /\ job[p].op = "report"
    <3>1. pc'[p] = "list" /\ job'[p] = job[p]
      BY <1>9, <2>3 DEF Bump, Goto
    <3>. QED
      BY <1>0, <2>1, <2>3, <3>1
  <2>4. CASE p # Runner /\ job[p].op # "report"
    BY <1>0, <1>9, <2>4 DEF Bump
  <2>. QED
    BY <2>2, <2>3, <2>4
<1>10. CASE List(p)
  <2>1. pc[p] = "list" /\ head' = head
    BY <1>10 DEF List, umbrella
  <2>2. Return(p) \/ \E to \in {"done", "dismissed"} :
                        Become(p, "decide", [job[p] EXCEPT !.op = "finish", !.to = to])
    BY <1>10 DEF List
  <2>3. CASE ~Return(p)
    <3>0. PICK to \in {"done", "dismissed"} :
            Become(p, "decide", [job[p] EXCEPT !.op = "finish", !.to = to])
      BY <2>2, <2>3
    <3>1. pc'[p] = "decide" /\ job'[p] = [job[p] EXCEPT !.op = "finish", !.to = to]
      BY <3>0
    <3>2. job'[p].op = "finish" /\ job'[p].at = job[p].at
      BY <1>0, <3>1 DEF Jobs
    <3>. QED
      BY <1>0, <2>1, <3>1, <3>2
  <2>4. CASE Return(p)
    BY <1>0, <2>1, <2>4
  <2>. QED
    BY <2>3, <2>4
<1>11. CASE Write(p)
  <2>1. pc[p] = "write" /\ head' = head /\ Return(p)
    BY <1>11 DEF Write
  <2>. QED
    BY <1>0, <2>1
<1>12. CASE WriteSource(p)
  <2>1. pc[p] = "source" /\ head' = head /\ pc'[p] = "destination" /\ job'[p] = job[p]
    BY <1>12 DEF WriteSource, Goto, umbrella
  <2>. QED
    BY <1>0, <2>1
<1>13. CASE WriteDestination(p) \/ Dies(p)
  <2>1. head' = head /\ Finish(p)
    BY <1>13 DEF WriteDestination, Dies, umbrella
  <2>. QED
    BY <1>0, <2>1
<1>. QED
  BY <1>3, <1>4, <1>5, <1>6, <1>7, <1>8, <1>9, <1>10, <1>11, <1>12, <1>13 DEF Step

LEMMA ActFits ==
  ASSUME TypeOK, JobInv, NEW p \in Processes, Act(p)
  PROVE  TypeOK' /\ Moves(p) /\ JobInv' /\ Fits(p) /\ Fits(p)'
<1>1. Fits(p)
  BY DEF JobInv
<1>2. TypeOK' /\ Moves(p)
  BY <1>1, SpawnTypes, RequestTypes, StepTypes DEF Act
<1>3. head \in Nat /\ head' \in Nat
  BY <1>2 DEF TypeOK
<1>4. Fits(p)' /\ head' >= head
  BY <1>1, <1>2, <1>3, SpawnFits, RequestFits, StepFits DEF Act
<1>. QED
  BY <1>1, <1>2, <1>3, <1>4, Others

LEMMA NotesStay ==
  ASSUME NEW p \in Processes, Act(p)
  PROVE  mishaps \subseteq mishaps'
  BY DEF Act, SpawnChild, SpawnRecord, SetUpChild, Step, ReadParent, Pin, Decide, Check, Insert,
     ReadLatest, Bump, List, Write, WriteSource, WriteDestination, Dies, Request, Dismiss,
     NoteEvent, Later, SpawnEmptyGroup, DeleteChild, MoveItem, End, Note

LEMMA StillFree ==
  ASSUME mishaps \subseteq mishaps', NEW what, Free(what)'
  PROVE  Free(what)
  BY DEF Free

-----------------------------------------------------------------------------
(* A lock that is behind the log is owed.                                     *)

Excluded == {"stale_lock", "later", "death"}

PaysLock(p) ==
    Free(Excluded)' =>
        \/ lock' = head' \/ Owes(p)'
        \/ head' = head /\ ~Owes(p) /\ (lock = head => lock' = head)

LEMMA OwedStays ==
  ASSUME OwedInv, NEW p \in Processes, Moves(p), mishaps \subseteq mishaps', PaysLock(p)
  PROVE  OwedInv'
<1>. SUFFICES ASSUME Free(Excluded)', lock' # head', ~Owes(p)'
              PROVE  \E q \in Processes : Owes(q)'
  BY DEF OwedInv, Excluded
<1>1. head' = head /\ ~Owes(p) /\ lock # head /\ Free(Excluded)
  BY StillFree DEF PaysLock
<1>2. PICK q \in Processes : Owes(q)
  BY <1>1 DEF OwedInv, Excluded
<1>3. q # p
  BY <1>1, <1>2
<1>. QED
  BY <1>1, <1>2, <1>3 DEF Moves, Owes

LEMMA ActPaysLock ==
  ASSUME TypeOK, NEW p \in Processes, Fits(p), Act(p)
  PROVE  PaysLock(p)
<1>. USE Becomes DEF Excluded
<1>0. head \in Nat /\ lock \in Nat /\ lock <= head /\ job[p] \in Jobs /\ job[p].at \in Nat
  BY DEF TypeOK, Jobs
<1>1. ASSUME head' = head, lock' = lock, pc[p] \notin {"latest", "bump", "write"} PROVE PaysLock(p)
  BY <1>1 DEF PaysLock, Owes
<1>2. CASE p = Runner /\ (SpawnChild \/ SpawnRecord \/ SetUpChild)
  <2>1. head' = head /\ lock' = lock /\ pc[p] \in {"spawning", "setup"}
    BY <1>2 DEF SpawnChild, SpawnRecord, SetUpChild, umbrella
  <2>. QED
    BY <1>1, <2>1
<1>3. CASE Request(p) \/ \E c \in Children, end \in Terminal : End(p, c, end)
  <2>1. head' = head /\ lock' = lock /\ pc[p] = "idle"
    BY <1>3 DEF Request, Dismiss, NoteEvent, Later, SpawnEmptyGroup, DeleteChild, MoveItem,
          Arrives, End, umbrella
  <2>. QED
    BY <1>1, <2>1
<1>4. CASE ReadParent(p) \/ Pin(p) \/ Decide(p) \/ Check(p) \/ List(p) \/ WriteSource(p)
             \/ WriteDestination(p)
  <2>1. head' = head /\ lock' = lock /\ pc[p] \notin {"latest", "bump", "write"}
    BY <1>4 DEF ReadParent, Pin, Decide, Check, List, WriteSource, WriteDestination, umbrella
  <2>. QED
    BY <1>1, <2>1
<1>5. CASE Insert(p)
  <2>1. CASE job[p].op = "later"
    <3>1. "later" \in mishaps'
      BY <1>5, <2>1 DEF Insert
    <3>. QED
      BY <3>1 DEF PaysLock, Free
  <2>2. CASE job[p].op \in {"finish", "dismiss"}
    <3>1. /\ head' = head + 1 /\ pc'[p] = "write"
          /\ job'[p] = [job[p] EXCEPT !.at = head + 1]
      BY <1>5, <2>2 DEF Insert
    <3>2. job'[p].at = head'
      BY <1>0, <3>1 DEF Jobs
    <3>. QED
      BY <3>1, <3>2 DEF PaysLock, Owes
  <2>3. CASE job[p].op \notin {"later", "finish", "dismiss"}
    <3>1. pc'[p] = "latest"
      BY <1>5, <2>3 DEF Insert, Goto
    <3>. QED
      BY <3>1 DEF PaysLock, Owes
  <2>. QED
    BY <2>1, <2>2, <2>3
<1>6. CASE ReadLatest(p)
  <2>1. head' = head /\ pc'[p] = "bump" /\ job'[p] = [job[p] EXCEPT !.at = head]
    BY <1>6 DEF ReadLatest, umbrella
  <2>2. job'[p].at = head'
    BY <1>0, <2>1 DEF Jobs
  <2>. QED
    BY <2>1, <2>2 DEF PaysLock, Owes
<1>7. CASE Bump(p) \/ Write(p)
  <2>1. head' = head /\ lock' = job[p].at /\ pc[p] \in {"bump", "write"} /\ job[p].at <= head
    BY <1>7 DEF Bump, Write, Fits
  <2>2. job[p].at < lock => "stale_lock" \in mishaps'
    BY <1>7 DEF Bump, Write, Note
  <2>3. CASE job[p].at < lock
    BY <2>2, <2>3 DEF PaysLock, Free
  <2>4. CASE lock = head /\ ~(job[p].at < lock)
    <3>1. job[p].at = head
      BY <1>0, <2>1, <2>4
    <3>. QED
      BY <2>1, <3>1 DEF PaysLock
  <2>5. CASE lock # head
    BY <2>1, <2>5 DEF PaysLock, Owes
  <2>. QED
    BY <2>3, <2>4, <2>5
<1>8. CASE Dies(p)
  <2>1. "death" \in mishaps'
    BY <1>8 DEF Dies, Note
  <2>. QED
    BY <2>1 DEF PaysLock, Free
<1>. QED
  BY <1>2, <1>3, <1>4, <1>5, <1>6, <1>7, <1>8 DEF Act, Step

-----------------------------------------------------------------------------
(* Children do not end early, and a finish has seen them all ended.           *)

Early == ~Settled => "early" \in mishaps'

\* What the step by p may do to the children, its event, and the umbrella.
Orderly(p) ==
    /\ Settled => Settled'
    /\ \A c \in Children :
         \/ child'[c] = child[c]
         \/ ~Settled /\ child'[c] \in Live
         \/ c \in Extras /\ child'[c] \in Live
         \/ child'[c] \in Terminal /\ Early
    /\ job'[p].op \in Cascades => job[p].op \in Cascades \/ Early
    /\ job'[p].op = "finish" => job[p].op = "finish" \/ \A c \in Children : Ended(c) /\ child'[c] = child[c]
    /\ state' = "done" => state = "done" \/ (job[p].op = "finish" /\ Early)

LEMMA EarlyStays ==
  ASSUME EarlyInv, NEW p \in Processes, Moves(p), mishaps \subseteq mishaps', Orderly(p)
  PROVE  EarlyInv'
<1>. SUFFICES ASSUME Free({"early"})' PROVE EarlyInv'
  BY DEF EarlyInv
<1>1. /\ Early => Settled
      /\ ~Settled =>
            /\ state # "done"
            /\ \A q \in Processes : job[q].op \notin Cascades
            /\ \A c \in Children : child[c] \notin Terminal
      /\ \/ state = "done"
         \/ \E q \in Processes : job[q].op = "finish"
         => \A c \in Clusters : Ended(c)
  BY StillFree DEF EarlyInv, Early, Free
<1>2. ASSUME ~Settled'
      PROVE  /\ state' # "done"
             /\ \A q \in Processes : job'[q].op \notin Cascades
             /\ \A c \in Children : child'[c] \notin Terminal
  <2>1. ~Settled
    BY <1>2 DEF Orderly
  <2>2. state' # "done"
    BY <1>1, <2>1 DEF Orderly
  <2>3. \A q \in Processes : job'[q].op \notin Cascades
    BY <1>1, <2>1 DEF Orderly, Moves
  <2>4. \A c \in Children : child'[c] \notin Terminal
    BY <1>1, <2>1 DEF Orderly, Live, Terminal
  <2>. QED
    BY <2>2, <2>3, <2>4
<1>3. ASSUME state' = "done" \/ \E q \in Processes : job'[q].op = "finish", NEW c \in Clusters
      PROVE  Ended(c)'
  <2>0. c \in Children /\ c \notin Extras
    BY FamilyAssumption DEF Children
  <2>1. CASE state = "done" \/ \E q \in Processes : job[q].op = "finish"
    <3>1. Settled /\ Ended(c)
      BY <1>1, <2>1 DEF Cascades
    <3>. QED
      BY <2>0, <3>1 DEF Orderly, Ended
  <2>2. CASE ~(state = "done" \/ \E q \in Processes : job[q].op = "finish")
    <3>1. state' # "done"
      BY <2>2 DEF Orderly
    <3>2. job'[p].op = "finish"
      BY <1>3, <2>2, <3>1 DEF Moves
    <3>. QED
      BY <2>0, <2>2, <3>2 DEF Orderly, Ended
  <2>. QED
    BY <2>1, <2>2
<1>. QED
  BY <1>2, <1>3 DEF EarlyInv

LEMMA ReturnsOp ==
  ASSUME TypeOK, NEW p \in Processes, Return(p)
  PROVE  job'[p].op \in {"delete", "none"}
  BY Becomes DEF Return, Finish, NoJob

LEMMA ActIsOrderly ==
  ASSUME TypeOK, NEW p \in Processes, Fits(p), Act(p), Moves(p), mishaps \subseteq mishaps'
  PROVE  Orderly(p)
<1>. USE Becomes DEF Cascades
<1>0. job[p] \in Jobs
  BY DEF TypeOK
<1>1. Settled => Settled'
  <2>1. CASE p = Runner
    <3>1. pc[p] # "idle"
      <4>1. p \notin Workers
        BY <2>1, FamilyAssumption
      <4>2. CASE SpawnChild \/ SpawnRecord \/ SetUpChild
        BY <2>1, <4>2 DEF SpawnChild, SpawnRecord, SetUpChild
      <4>3. CASE Step(p) \/ Dies(p)
        BY <4>3 DEF Step, Dies, ReadParent, Pin, Decide, Check, Insert, ReadLatest, Bump, List,
              Write, WriteSource, WriteDestination
      <4>. QED
        BY <4>1, <4>2, <4>3 DEF Act
    <3>. QED
      BY <2>1, <3>1 DEF Settled
  <2>2. CASE p # Runner
    <3>1. Runner \in Processes
      BY DEF Processes
    <3>. QED
      BY <2>2, <3>1 DEF Moves, Settled
  <2>. QED
    BY <2>1, <2>2
<1>2. ASSUME child' = child, job'[p].op \notin Cascades \/ job'[p].op = job[p].op, state' = state
      PROVE  Orderly(p)
  BY <1>1, <1>2 DEF Orderly
<1>3. CASE p = Runner /\ (SpawnChild \/ SpawnRecord \/ SetUpChild)
  <2>1. state' = state /\ ~Settled
    BY <1>3 DEF SpawnChild, SpawnRecord, SetUpChild, Settled, umbrella
  <2>2. child' = child \/ \E c, s : s \in Live /\ child' = [child EXCEPT ![c] = s]
    BY <1>3 DEF SpawnChild, SpawnRecord, SetUpChild, children, Live
  <2>3. \A c \in Children : child'[c] = child[c] \/ child'[c] \in Live
    BY <2>2 DEF TypeOK
  <2>4. job'[p].op \notin Cascades
    <3>1. job[p].op = "spawn"
      BY <1>3, <2>1 DEF Fits, Settled
    <3>2. CASE SpawnChild \/ SpawnRecord
      BY <1>3, <3>1, <3>2 DEF SpawnChild, SpawnRecord, Goto
    <3>3. CASE SetUpChild
      <4>1. PICK left : Finish(p) \/ Become(p, "setup", [job[p] EXCEPT !.left = left])
        BY <1>3, <3>3 DEF SetUpChild
      <4>2. job'[p] = NoJob \/ job'[p] = [job[p] EXCEPT !.left = left]
        BY <4>1 DEF Finish
      <4>. QED
        BY <1>0, <3>1, <4>2 DEF NoJob, Jobs
    <3>. QED
      BY <1>3, <3>2, <3>3
  <2>. QED
    BY <1>1, <2>1, <2>3, <2>4 DEF Orderly
<1>4. CASE Dismiss(p) \/ NoteEvent(p) \/ Later(p)
            \/ \E item \in Items, src, dest \in Children : MoveItem(p, item, src, dest)
  <2>1. child' = child /\ state' = state
    BY <1>4 DEF Dismiss, NoteEvent, Later, MoveItem, children, umbrella
  <2>2. job'[p].op \notin Cascades
    <3>1. CASE Dismiss(p)
      <4>1. job'[p] = [NoJob EXCEPT !.op = "dismiss", !.to = "dismissed"]
        BY <3>1 DEF Dismiss
      <4>. QED
        BY <4>1 DEF NoJob
    <3>2. CASE NoteEvent(p)
      <4>1. job'[p] = [NoJob EXCEPT !.op = "note", !.at = lock]
        BY <3>2 DEF NoteEvent
      <4>. QED
        BY <4>1 DEF NoJob
    <3>3. CASE Later(p)
      <4>1. job'[p] = [NoJob EXCEPT !.op = "later"]
        BY <3>3 DEF Later
      <4>. QED
        BY <4>1 DEF NoJob
    <3>4. ASSUME NEW item, NEW src, NEW dest, MoveItem(p, item, src, dest)
          PROVE  job'[p].op = "move"
      <4>1. job'[p] = [NoJob EXCEPT !.op = "move", !.src = src, !.dest = dest,
                         !.kept = home[src] \ {item}, !.grown = home[dest] \cup {item}]
        BY <3>4 DEF MoveItem
      <4>. QED
        BY <4>1 DEF NoJob
    <3>. QED
      BY <1>4, <3>1, <3>2, <3>3, <3>4
  <2>. QED
    BY <1>2, <2>1, <2>2
<1>5. ASSUME NEW c \in Extras, SpawnEmptyGroup(p, c) PROVE Orderly(p)
  <2>1. state' = state /\ job'[p].op = "add"
    <3>1. state' = state /\ job'[p] = [NoJob EXCEPT !.op = "add", !.at = lock]
      BY <1>5 DEF SpawnEmptyGroup, umbrella
    <3>. QED
      BY <3>1 DEF NoJob
  <2>2. child' = [child EXCEPT ![c] = "proposed"]
    BY <1>5 DEF SpawnEmptyGroup
  <2>. QED
    BY <1>1, <2>1, <2>2 DEF Orderly, TypeOK, Live
<1>6. ASSUME NEW c \in Children, DeleteChild(p, c) PROVE Orderly(p)
  <2>1. state' = state /\ Early
    BY <1>6 DEF DeleteChild, umbrella, Note, Early
  <2>2. child' = child \/ child' = [child EXCEPT ![c] = "dismissed"]
    BY <1>6 DEF DeleteChild
  <2>3. job'[p].op # "finish"
    <3>1. \/ job'[p] = [NoJob EXCEPT !.op = "delete"]
          \/ job'[p] = [NoJob EXCEPT !.op = "report", !.deleting = TRUE]
      BY <1>6 DEF DeleteChild
    <3>. QED
      BY <3>1 DEF NoJob
  <2>4. \A d \in Children : child'[d] = child[d] \/ child'[d] \in Terminal
    BY <2>2 DEF TypeOK, Terminal
  <2>. QED
    BY <1>1, <2>1, <2>3, <2>4 DEF Orderly
<1>7. ASSUME NEW c \in Children, NEW end \in Terminal, End(p, c, end) PROVE Orderly(p)
  <2>1. state' = state /\ Early
    BY <1>7 DEF End, umbrella, Early
  <2>2. job'[p].op # "finish"
    <3>1. job'[p] = [NoJob EXCEPT !.op = "report"] \/ job'[p] = NoJob
      BY <1>7 DEF End, Finish
    <3>. QED
      BY <3>1 DEF NoJob
  <2>3. \A d \in Children : child'[d] = child[d] \/ child'[d] \in Terminal
    BY <1>7 DEF End, TypeOK
  <2>. QED
    BY <1>1, <2>1, <2>2, <2>3 DEF Orderly
<1>8. CASE ReadParent(p) \/ Pin(p) \/ Decide(p) \/ Check(p) \/ ReadLatest(p)
  <2>1. child' = child /\ state' = state
    BY <1>8 DEF ReadParent, Pin, Decide, Check, ReadLatest, children, umbrella
  <2>2. \/ Return(p)
        \/ \E k : Become(p, k, job[p])
        \/ \E k : \E n \in Nat : Become(p, k, [job[p] EXCEPT !.at = n])
    BY <1>8 DEF ReadParent, Pin, Decide, Check, ReadLatest, Goto, TypeOK
  <2>3. Return(p) \/ \E n \in Nat : job'[p] \in {job[p], [job[p] EXCEPT !.at = n]}
    BY <2>2
  <2>4. \A n \in Nat : [job[p] EXCEPT !.at = n].op = job[p].op
    BY <1>0 DEF Jobs
  <2>5. job'[p].op \in {"delete", "none"} \/ job'[p].op = job[p].op
    BY <2>3, <2>4, ReturnsOp
  <2>. QED
    BY <1>2, <2>1, <2>5
<1>9. CASE Insert(p)
  <2>1. child' = child /\ state' = state
    BY <1>9 DEF Insert, children
  <2>2. CASE job[p].op = "later"
    <3>1. job'[p] = NoJob
      BY <1>9, <2>2 DEF Insert, Finish
    <3>. QED
      BY <1>2, <2>1, <3>1 DEF NoJob
  <2>3. CASE job[p].op \in {"finish", "dismiss"}
    <3>1. job'[p] = [job[p] EXCEPT !.at = head + 1]
      BY <1>9, <2>3 DEF Insert
    <3>2. job'[p].op = job[p].op
      BY <1>0, <3>1 DEF Jobs
    <3>. QED
      BY <1>2, <2>1, <3>2
  <2>4. CASE job[p].op \notin {"later", "finish", "dismiss"}
    <3>1. job'[p] = job[p]
      BY <1>9, <2>4 DEF Insert, Goto
    <3>. QED
      BY <1>2, <2>1, <3>1
  <2>. QED
    BY <2>2, <2>3, <2>4
<1>10. CASE Bump(p)
  <2>1. child' = child /\ state' \in {"monitoring", state} /\ (Finish(p) \/ \E k : Become(p, k, job[p]))
    BY <1>10 DEF Bump, children, Goto
  <2>2. job'[p].op = "none" \/ job'[p].op = job[p].op
    BY <2>1 DEF Finish, NoJob
  <2>. QED
    BY <1>1, <2>1, <2>2 DEF Orderly
<1>11. CASE List(p)
  <2>1. child' = child /\ state' = state /\ job[p].op = "report"
    BY <1>11 DEF List, Fits, children, umbrella
  <2>2. CASE {child[c] : c \in {d \in Children : child[d] # "none"}} \subseteq Terminal
    <3>1. \A c \in Children : Ended(c)
      BY <2>2 DEF Ended
    <3>. QED
      BY <1>1, <2>1, <3>1 DEF Orderly
  <2>3. CASE ~({child[c] : c \in {d \in Children : child[d] # "none"}} \subseteq Terminal)
    <3>1. Return(p)
      BY <1>11, <2>3 DEF List
    <3>. QED
      BY <1>2, <2>1, <3>1, ReturnsOp
  <2>. QED
    BY <2>2, <2>3
<1>12. CASE Write(p)
  <2>1. child' = child /\ state' = job[p].to /\ Early /\ Return(p)
    BY <1>12 DEF Write, children, Early
  <2>2. state' = "done" => job[p].op = "finish"
    BY <1>12, <2>1 DEF Fits, Write
  <2>. QED
    BY <1>1, <2>1, <2>2, ReturnsOp DEF Orderly
<1>13. CASE WriteSource(p) \/ WriteDestination(p) \/ Dies(p)
  <2>1. child' = child /\ state' = state /\ (Finish(p) \/ \E k : Become(p, k, job[p]))
    BY <1>13 DEF WriteSource, WriteDestination, Dies, Goto, children, umbrella
  <2>2. job'[p].op = "none" \/ job'[p].op = job[p].op
    BY <2>1 DEF Finish, NoJob
  <2>. QED
    BY <1>2, <2>1, <2>2
<1>. QED
  BY <1>3, <1>4, <1>5, <1>6, <1>7, <1>8, <1>9, <1>10, <1>11, <1>12, <1>13 DEF Act, Step, Request

-----------------------------------------------------------------------------
(* Somebody is on the way to close an umbrella whose children have ended.     *)

LEMMA OthersClose ==
  ASSUME NEW p \in Processes, Moves(p), head' = head, NEW q \in Processes \ {p}, Closes(q)
  PROVE  Closes(q)'
  BY DEF Moves, Closes

\* The lock a cascade reads is the latest event, or somebody else is closing.
LEMMA ReadsLatest ==
  ASSUME JobInv, OwedInv, mishaps = {}, NEW p \in Processes, pc[p] \in {"parent", "decide"},
         ~ \E q \in Processes : Unbumped(q)
  PROVE  lock = head \/ \E q \in Processes \ {p} : Closes(q)
<1>. SUFFICES ASSUME lock # head PROVE \E q \in Processes \ {p} : Closes(q)
  OBVIOUS
<1>1. PICK q \in Processes : Owes(q)
  BY DEF OwedInv, Free
<1>2. q # p
  BY <1>1 DEF Owes
<1>3. Closes(q)
  <2>1. Fits(q) /\ ~Unbumped(q)
    BY DEF JobInv
  <2>. QED
    BY <1>1, <2>1 DEF Owes, Fits, Edits, Unbumped, Closes
<1>. QED
  BY <1>2, <1>3

LEMMA CascadeCloses ==
  ASSUME TypeOK, JobInv, OwedInv, mishaps = {}, mishaps' = {}, AllEnded, state = "monitoring",
         state' = "monitoring", NEW p \in Processes, Act(p), Moves(p), head' = head, Closes(p)
  PROVE  \E q \in Processes : Closes(q)'
<1>. USE Becomes
<1>0. Fits(p) /\ job[p] \in Jobs
  BY DEF JobInv, TypeOK
<1>1. ASSUME NEW k, NEW n, Become(p, k, [job[p] EXCEPT !.at = n])
      PROVE  pc'[p] = k /\ job'[p].at = n /\ job'[p].op = job[p].op
  BY <1>0, <1>1 DEF Jobs
<1>2. ASSUME pc[p] \in {"parent", "decide"}, ~ \E q \in Processes : Unbumped(q),
             Become(p, "check", [job[p] EXCEPT !.at = lock]), job[p].op \in Cascades
      PROVE  \E q \in Processes : Closes(q)'
  <2>1. CASE lock = head
    BY <1>1, <1>2, <2>1 DEF Closes
  <2>2. CASE lock # head
    BY <1>2, <2>2, ReadsLatest, OthersClose
  <2>. QED
    BY <2>1, <2>2
<1>3. ~Dies(p)
  BY DEF Dies, Note
<1>4. pc[p] \notin {"idle", "spawning", "setup"}
  BY DEF Closes
<1>5. Step(p)
  BY <1>3, <1>4 DEF Act, SpawnChild, SpawnRecord, SetUpChild, Request, Dismiss, NoteEvent, Later,
     SpawnEmptyGroup, DeleteChild, MoveItem, Arrives, End
<1>6. CASE pc[p] = "parent"
  <2>1. ReadParent(p)
    BY <1>5, <1>6 DEF Step, ReadParent, Pin, Decide, Check, Insert, ReadLatest, Bump, List, Write,
       WriteSource, WriteDestination
  <2>2. ~ \E q \in Processes : Unbumped(q)
    BY <2>1 DEF ReadParent, Note
  <2>3. Become(p, "check", [job[p] EXCEPT !.at = lock]) /\ job[p].op \in Cascades
    BY <1>0, <1>6, <2>1 DEF ReadParent, Fits, Cascades
  <2>. QED
    BY <1>2, <1>6, <2>2, <2>3
<1>7. CASE pc[p] = "decide"
  <2>1. Decide(p) /\ job[p].op = "finish"
    BY <1>5, <1>7 DEF Step, ReadParent, Pin, Decide, Check, Insert, ReadLatest, Bump, List, Write,
       WriteSource, WriteDestination, Closes
  <2>2. ~ \E q \in Processes : Unbumped(q)
    BY <2>1 DEF Decide, Note
  <2>3. Become(p, "check", [job[p] EXCEPT !.at = lock])
    BY <2>1 DEF Decide
  <2>. QED
    BY <1>2, <1>7, <2>1, <2>2, <2>3 DEF Cascades
<1>8. CASE pc[p] = "check"
  <2>1. Check(p)
    BY <1>5, <1>8 DEF Step, ReadParent, Pin, Decide, Check, Insert, ReadLatest, Bump, List, Write,
       WriteSource, WriteDestination
  <2>2. job[p].at = head /\ job[p].op \in Cascades
    BY <1>8 DEF Closes
  <2>3. pc'[p] = "insert" /\ job'[p] = job[p]
    BY <2>1, <2>2 DEF Check, Goto
  <2>. QED
    BY <2>2, <2>3 DEF Closes
<1>9. CASE pc[p] = "insert"
  <2>1. Insert(p) /\ head \in Nat
    BY <1>5, <1>9 DEF Step, ReadParent, Pin, Decide, Check, Insert, ReadLatest, Bump, List, Write,
       WriteSource, WriteDestination, TypeOK
  <2>. QED
    BY <2>1 DEF Insert
<1>10. CASE pc[p] = "latest"
  <2>1. ReadLatest(p) /\ job[p].op = "report"
    BY <1>5, <1>10 DEF Step, ReadParent, Pin, Decide, Check, Insert, ReadLatest, Bump, List, Write,
       WriteSource, WriteDestination, Closes
  <2>2. Become(p, "bump", [job[p] EXCEPT !.at = head])
    BY <2>1 DEF ReadLatest
  <2>. QED
    BY <1>1, <2>1, <2>2 DEF Closes
<1>11. CASE pc[p] = "bump"
  <2>1. Bump(p) /\ job[p].op = "report"
    BY <1>5, <1>11 DEF Step, ReadParent, Pin, Decide, Check, Insert, ReadLatest, Bump, List, Write,
       WriteSource, WriteDestination, Closes
  <2>2. p # Runner
    BY <1>0, <1>11, <2>1 DEF Fits
  <2>3. pc'[p] = "list" /\ job'[p] = job[p]
    BY <2>1, <2>2 DEF Bump, Goto
  <2>. QED
    BY <2>1, <2>3 DEF Closes
<1>12. CASE pc[p] = "list"
  <2>1. List(p)
    BY <1>5, <1>12 DEF Step, ReadParent, Pin, Decide, Check, Insert, ReadLatest, Bump, List, Write,
       WriteSource, WriteDestination
  <2>2. {child[c] : c \in {d \in Children : child[d] # "none"}} \subseteq Terminal
    BY DEF AllEnded
  <2>3. PICK to : Become(p, "decide", [job[p] EXCEPT !.op = "finish", !.to = to])
    BY <2>1, <2>2 DEF List
  <2>4. pc'[p] = "decide" /\ job'[p] = [job[p] EXCEPT !.op = "finish", !.to = to]
    BY <2>3
  <2>5. job'[p].op = "finish"
    BY <1>0, <2>4 DEF Jobs
  <2>. QED
    BY <2>4, <2>5 DEF Closes
<1>13. CASE pc[p] = "write"
  <2>1. Write(p)
    BY <1>5, <1>13 DEF Step, ReadParent, Pin, Decide, Check, Insert, ReadLatest, Bump, List, Write,
       WriteSource, WriteDestination
  <2>. QED
    BY <1>0, <2>1 DEF Write, Jobs
<1>. QED
  BY <1>6, <1>7, <1>8, <1>9, <1>10, <1>11, <1>12, <1>13 DEF Closes

\* An end that leaves no live child is the start of its own cascade.
LEMMA EndReports ==
  ASSUME TypeOK, EarlyInv, mishaps' = {}, mishaps = {}, NEW p \in Processes, Act(p), Moves(p),
         AllEnded', state' = "monitoring", ~(AllEnded /\ state = "monitoring")
  PROVE  Closes(p)'
<1>. USE Becomes
<1>0. Clusters \subseteq Children /\ Extras \subseteq Children
  BY DEF Children
<1>1. \A c \in Children : child'[c] \notin Live
  BY DEF AllEnded, Terminal, Live
<1>2. ~(child' = child /\ state' = state)
  BY DEF AllEnded, Spawned
<1>3. CASE p = Runner /\ (SpawnChild \/ SpawnRecord \/ SetUpChild)
  <2>1. CASE SpawnChild
    <3>1. PICK c \in Clusters : child' = [child EXCEPT ![c] = "proposed"]
      BY <2>1 DEF SpawnChild
    <3>. QED
      BY <1>0, <1>1, <3>1 DEF TypeOK, Live
  <2>2. CASE SpawnRecord
    BY <1>2, <2>2 DEF SpawnRecord, umbrella, children
  <2>3. CASE SetUpChild
    <3>1. PICK c \in job[Runner].left : child' = [child EXCEPT ![c] = "waiting"]
      BY <2>3 DEF SetUpChild
    <3>2. job[Runner] \in Jobs
      BY DEF TypeOK, Processes
    <3>3. c \in Children
      BY <1>0, <3>1, <3>2 DEF Jobs
    <3>. QED
      BY <1>1, <3>1, <3>3 DEF TypeOK, Live
  <2>. QED
    BY <1>3, <2>1, <2>2, <2>3
<1>4. CASE Step(p) \/ Dies(p)
  <2>1. child' = child
    BY <1>4 DEF Step, Dies, ReadParent, Pin, Decide, Check, Insert, ReadLatest, Bump, List, Write,
       WriteSource, WriteDestination, children
  <2>2. state # "monitoring"
    BY <1>2, <2>1 DEF AllEnded, Spawned
  <2>3. \/ Bump(p) /\ p = Runner
        \/ Write(p) /\ state' = job[p].to
    BY <1>2, <1>4, <2>1, <2>2 DEF Step, Dies, ReadParent, Pin, Decide, Check, Insert, ReadLatest,
       Bump, List, Write, WriteSource, WriteDestination, umbrella
  <2>4. job[p].to # "monitoring"
    BY DEF TypeOK, Jobs
  <2>5. ~Settled
    BY <2>3, <2>4 DEF Bump, Settled
  <2>6. \A c \in Children : child[c] \notin Terminal
    BY <2>5 DEF EarlyInv, Free
  <2>7. PICK c \in Clusters : TRUE
    BY FamilyAssumption
  <2>8. child[c] # "none" /\ child[c] \in Terminal \cup {"none"}
    BY <1>0, <2>1, <2>7 DEF AllEnded, Spawned
  <2>. QED
    BY <1>0, <2>6, <2>7, <2>8
<1>5. CASE Dismiss(p) \/ NoteEvent(p) \/ Later(p)
            \/ \E item \in Items, src, dest \in Children : MoveItem(p, item, src, dest)
  BY <1>2, <1>5 DEF Dismiss, NoteEvent, Later, MoveItem, children, umbrella
<1>6. ASSUME NEW c \in Extras, SpawnEmptyGroup(p, c) PROVE Closes(p)'
  <2>1. child' = [child EXCEPT ![c] = "proposed"]
    BY <1>6 DEF SpawnEmptyGroup
  <2>. QED
    BY <1>0, <1>1, <2>1 DEF TypeOK, Live
<1>7. ASSUME NEW c \in Children, DeleteChild(p, c) PROVE Closes(p)'
  <2>1. child[c] \notin Terminal
    BY <1>2, <1>7 DEF DeleteChild, umbrella
  <2>2. pc'[p] = "parent"
    BY <1>7, <2>1 DEF DeleteChild
  <2>. QED
    BY <2>2 DEF Closes
<1>8. ASSUME NEW c \in Children, NEW end \in Terminal, End(p, c, end) PROVE Closes(p)'
  <2>1. end # "cleaned"
    BY <1>8 DEF End
  <2>2. pc'[p] = "parent"
    BY <1>8, <2>1 DEF End, Handled, Terminal
  <2>. QED
    BY <2>2 DEF Closes
<1>. QED
  BY <1>3, <1>4, <1>5, <1>6, <1>7, <1>8 DEF Act, Request

LEMMA CloseStays ==
  ASSUME TypeOK, JobInv, OwedInv, EarlyInv, CloseInv, NEW p \in Processes, Act(p), Moves(p),
         mishaps \subseteq mishaps'
  PROVE  CloseInv'
<1>. SUFFICES ASSUME mishaps' = {}, AllEnded', state' = "monitoring"
              PROVE  \E q \in Processes : Closes(q)'
  BY DEF CloseInv
<1>1. mishaps = {}
  OBVIOUS
<1>2. CASE ~(AllEnded /\ state = "monitoring")
  BY <1>1, <1>2, EndReports
<1>3. CASE AllEnded /\ state = "monitoring"
  <2>1. PICK q \in Processes : Closes(q)
    BY <1>1, <1>3 DEF CloseInv
  <2>2. CASE Insert(p)
    <3>1. job[p].op # "later"
      BY <2>2 DEF Insert
    <3>2. CASE job[p].op \in Cascades
      <4>1. CASE job[p].op = "finish"
        <5>1. pc'[p] = "write"
          BY <2>2, <4>1, Becomes DEF Insert
        <5>. QED
          BY <5>1 DEF Closes
      <4>2. CASE job[p].op = "report"
        <5>1. pc'[p] = "latest" /\ job'[p] = job[p]
          BY <2>2, <4>2, Becomes DEF Insert, Goto
        <5>. QED
          BY <4>2, <5>1 DEF Closes
      <4>. QED
        BY <3>2, <4>1, <4>2 DEF Cascades
    <3>3. CASE job[p].op \notin Cascades
      <4>1. ~Cascading(q)
        BY <2>2, <3>3 DEF Insert, Cascades
      <4>2. pc[q] \in {"parent", "write"}
        BY <2>1, <4>1 DEF Closes, Cascading, Cascades
      <4>3. q # p
        BY <2>2, <4>2 DEF Insert
      <4>. QED
        BY <4>2, <4>3 DEF Moves, Closes
    <3>. QED
      BY <3>2, <3>3
  <2>3. CASE ~Insert(p)
    <3>1. head' = head
      BY <2>3 DEF Act, SpawnChild, SpawnRecord, SetUpChild, Step, Dies, ReadParent, Pin, Decide,
         Check, ReadLatest, Bump, List, Write, WriteSource, WriteDestination, Request, Dismiss,
         NoteEvent, Later, SpawnEmptyGroup, DeleteChild, MoveItem, End, umbrella
    <3>2. CASE q = p
      BY <1>1, <1>3, <2>1, <3>1, <3>2, CascadeCloses
    <3>3. CASE q # p
      BY <2>1, <3>1, <3>3, OthersClose
    <3>. QED
      BY <3>2, <3>3
  <2>. QED
    BY <2>2, <2>3
<1>. QED
  BY <1>2, <1>3

-----------------------------------------------------------------------------
(* A move keeps its item in its hands between the two writes.                 *)

LEMMA MoveAlone ==
  ASSUME TypeOK, ItemsInv, NEW p \in Processes, Moves(p), mishaps \subseteq mishaps',
         home' = home, ~Moving(p), ~Moving(p)'
  PROVE  ItemsInv'
<1>. SUFFICES ASSUME Free({"moves", "death"})' PROVE ItemsInv'
  BY DEF ItemsInv
<1>1. Free({"moves", "death"})
  BY StillFree
<1>2. /\ \A q \in Processes : Moving(q)' <=> Moving(q)
      /\ \A q \in Processes : Moving(q) => pc'[q] = pc[q] /\ job'[q] = job[q]
  BY DEF Moves, Moving
<1>3. \A i : Housed(i)' <=> Housed(i)
  BY DEF Housed, HomesOf
<1>4. \A i : HomesOf(i)' = HomesOf(i)
  BY DEF HomesOf
<1>5. \A q, r \in Processes : Moving(q)' /\ Moving(r)' => q = r
  BY <1>1, <1>2 DEF ItemsInv
<1>6. (\A q \in Processes : ~Moving(q)') => \A i \in Items : Housed(i)'
  BY <1>1, <1>2, <1>3 DEF ItemsInv
<1>7. ASSUME NEW q \in Processes, Moving(q)'
      PROVE  /\ job'[q].src \in Children /\ job'[q].dest \in Children
             /\ job'[q].src # job'[q].dest
             /\ \E x \in Items :
                  /\ \A i \in Items \ {x} : Housed(i)'
                  /\ HomesOf(x)' = IF pc'[q] = "source" THEN {job'[q].src} ELSE {}
                  /\ job'[q].kept = home'[job'[q].src] \ {x}
                  /\ job'[q].grown = home'[job'[q].dest] \cup {x}
  <2>1. Moving(q) /\ pc'[q] = pc[q] /\ job'[q] = job[q]
    BY <1>2, <1>7
  <2>2. /\ job[q].src \in Children /\ job[q].dest \in Children /\ job[q].src # job[q].dest
        /\ \E x \in Items :
             /\ \A i \in Items \ {x} : Housed(i)
             /\ HomesOf(x) = IF pc[q] = "source" THEN {job[q].src} ELSE {}
             /\ job[q].kept = home[job[q].src] \ {x}
             /\ job[q].grown = home[job[q].dest] \cup {x}
    BY <1>1, <2>1 DEF ItemsInv
  <2>. QED
    BY <1>3, <1>4, <2>1, <2>2
<1>. QED
  BY <1>5, <1>6, <1>7 DEF ItemsInv

LEMMA MoveBegins ==
  ASSUME TypeOK, ItemsInv, NEW p \in Processes, Moves(p), mishaps \subseteq mishaps',
         NEW item \in Items, NEW src \in Children, NEW dest \in Children,
         MoveItem(p, item, src, dest)
  PROVE  ItemsInv'
<1>. SUFFICES ASSUME Free({"moves", "death"})' PROVE ItemsInv'
  BY DEF ItemsInv
<1>1. Free({"moves", "death"})
  BY StillFree
<1>2. \A q \in Processes : ~Moving(q)
  BY DEF MoveItem, Note, Free
<1>3. home' = home /\ \A i \in Items : Housed(i)
  BY <1>1, <1>2 DEF ItemsInv, MoveItem, children
<1>4. /\ pc'[p] = "source"
      /\ job'[p] = [NoJob EXCEPT !.op = "move", !.src = src, !.dest = dest,
                      !.kept = home[src] \ {item}, !.grown = home[dest] \cup {item}]
  BY Becomes DEF MoveItem
<1>5. /\ job'[p].src = src /\ job'[p].dest = dest /\ src # dest
      /\ job'[p].kept = home[src] \ {item} /\ job'[p].grown = home[dest] \cup {item}
  BY <1>4 DEF NoJob, MoveItem
<1>6. HomesOf(item) = {src}
  <2>1. PICK c \in Children : HomesOf(item) = {c}
    BY <1>3 DEF Housed
  <2>2. src \in HomesOf(item)
    BY DEF MoveItem, HomesOf
  <2>. QED
    BY <2>1, <2>2
<1>7. \A i : HomesOf(i)' = HomesOf(i) /\ (Housed(i)' <=> Housed(i))
  BY <1>3 DEF HomesOf, Housed
<1>8. \A q \in Processes : Moving(q)' <=> q = p
  BY <1>2, <1>4 DEF Moves, Moving
<1>9. \E x \in Items :
        /\ \A i \in Items \ {x} : Housed(i)'
        /\ HomesOf(x)' = IF pc'[p] = "source" THEN {job'[p].src} ELSE {}
        /\ job'[p].kept = home'[job'[p].src] \ {x}
        /\ job'[p].grown = home'[job'[p].dest] \cup {x}
  BY <1>3, <1>4, <1>5, <1>6, <1>7
<1>. QED
  BY <1>5, <1>8, <1>9 DEF ItemsInv

LEMMA SourceWritten ==
  ASSUME TypeOK, ItemsInv, NEW p \in Processes, Moves(p), mishaps \subseteq mishaps',
         WriteSource(p)
  PROVE  ItemsInv'
<1>. SUFFICES ASSUME Free({"moves", "death"})' PROVE ItemsInv'
  BY DEF ItemsInv
<1>1. Free({"moves", "death"})
  BY StillFree
<1>2. Moving(p) /\ pc[p] = "source" /\ pc'[p] = "destination" /\ job'[p] = job[p]
  BY Becomes DEF WriteSource, Goto, Moving
<1>3. /\ job[p].src \in Children /\ job[p].dest \in Children /\ job[p].src # job[p].dest
      /\ \A q \in Processes : Moving(q) => q = p
  BY <1>1, <1>2 DEF ItemsInv
<1>4. PICK x \in Items :
             /\ \A i \in Items \ {x} : Housed(i)
             /\ HomesOf(x) = {job[p].src}
             /\ job[p].kept = home[job[p].src] \ {x}
             /\ job[p].grown = home[job[p].dest] \cup {x}
  BY <1>1, <1>2 DEF ItemsInv
<1>5. \A c \in Children : home'[c] = home[c] \ {x}
  <2>1. \A c \in Children : home'[c] = IF c = job[p].src THEN home[c] \ {x} ELSE home[c]
    BY <1>3, <1>4 DEF WriteSource, TypeOK
  <2>2. \A c \in Children : c # job[p].src => x \notin home[c]
    BY <1>4 DEF HomesOf
  <2>. QED
    BY <2>1, <2>2
<1>6. HomesOf(x)' = {} /\ \A i \in Items \ {x} : HomesOf(i)' = HomesOf(i)
  BY <1>5 DEF HomesOf
<1>7. \A i \in Items \ {x} : Housed(i)'
  BY <1>4, <1>6 DEF Housed
<1>8. \A q \in Processes : Moving(q)' <=> q = p
  BY <1>2, <1>3 DEF Moves, Moving
<1>9. job[p].kept = home'[job[p].src] \ {x} /\ job[p].grown = home'[job[p].dest] \cup {x}
  BY <1>3, <1>4, <1>5
<1>10. \E y \in Items :
        /\ \A i \in Items \ {y} : Housed(i)'
        /\ HomesOf(y)' = IF pc'[p] = "source" THEN {job'[p].src} ELSE {}
        /\ job'[p].kept = home'[job'[p].src] \ {y}
        /\ job'[p].grown = home'[job'[p].dest] \cup {y}
  BY <1>2, <1>6, <1>7, <1>9
<1>. QED
  BY <1>2, <1>3, <1>8, <1>10 DEF ItemsInv

LEMMA DestinationWritten ==
  ASSUME TypeOK, ItemsInv, NEW p \in Processes, Moves(p), mishaps \subseteq mishaps',
         WriteDestination(p)
  PROVE  ItemsInv'
<1>. SUFFICES ASSUME Free({"moves", "death"})' PROVE ItemsInv'
  BY DEF ItemsInv
<1>1. Free({"moves", "death"})
  BY StillFree
<1>2. Moving(p) /\ pc[p] = "destination" /\ pc'[p] = "idle"
  BY Becomes DEF WriteDestination, Finish, Moving
<1>3. /\ job[p].dest \in Children
      /\ \A q \in Processes : Moving(q) => q = p
  BY <1>1, <1>2 DEF ItemsInv
<1>4. PICK x \in Items :
             /\ \A i \in Items \ {x} : Housed(i)
             /\ HomesOf(x) = {}
             /\ job[p].grown = home[job[p].dest] \cup {x}
  BY <1>1, <1>2 DEF ItemsInv
<1>5. \A c \in Children : home'[c] = IF c = job[p].dest THEN home[c] \cup {x} ELSE home[c]
  BY <1>3, <1>4 DEF WriteDestination, TypeOK
<1>6. HomesOf(x)' = {job[p].dest} /\ \A i \in Items \ {x} : HomesOf(i)' = HomesOf(i)
  BY <1>3, <1>4, <1>5 DEF HomesOf
<1>7. \A i \in Items : Housed(i)'
  BY <1>3, <1>4, <1>6 DEF Housed
<1>8. \A q \in Processes : ~Moving(q)'
  BY <1>2, <1>3 DEF Moves, Moving
<1>. QED
  BY <1>7, <1>8 DEF ItemsInv

LEMMA ItemsStay ==
  ASSUME TypeOK, ItemsInv, NEW p \in Processes, Act(p), Moves(p), mishaps \subseteq mishaps'
  PROVE  ItemsInv'
<1>. USE Becomes DEF Moving
<1>1. ASSUME home' = home, ~Moving(p), ~Moving(p)' PROVE ItemsInv'
  BY <1>1, MoveAlone
<1>2. Return(p) => pc'[p] \in {"pin", "idle"}
  BY DEF Return, Finish
<1>3. CASE p = Runner /\ (SpawnChild \/ SpawnRecord \/ SetUpChild)
  <2>1. home' = home /\ ~Moving(p)
    BY <1>3 DEF SpawnChild, SpawnRecord, SetUpChild, children
  <2>2. pc'[p] \in {"spawning", "check", "setup", "idle"}
    BY <1>3 DEF SpawnChild, SpawnRecord, SetUpChild, Goto, Finish
  <2>. QED
    BY <1>1, <2>1, <2>2
<1>4. CASE Dismiss(p) \/ NoteEvent(p) \/ Later(p) \/ \E c \in Extras : SpawnEmptyGroup(p, c)
  <2>1. home' = home /\ ~Moving(p)
    BY <1>4 DEF Dismiss, NoteEvent, Later, SpawnEmptyGroup, Arrives, children
  <2>2. pc'[p] \in {"decide", "check", "pin"}
    BY <1>4 DEF Dismiss, NoteEvent, Later, SpawnEmptyGroup
  <2>. QED
    BY <1>1, <2>1, <2>2
<1>5. CASE \/ \E c \in Children : DeleteChild(p, c)
           \/ \E c \in Children, end \in Terminal : End(p, c, end)
  <2>1. home' = home /\ ~Moving(p)
    BY <1>5 DEF DeleteChild, End, Arrives
  <2>2. pc'[p] \in {"parent", "pin", "idle"}
    BY <1>5 DEF DeleteChild, End, Finish
  <2>. QED
    BY <1>1, <2>1, <2>2
<1>6. CASE ReadParent(p) \/ Pin(p) \/ Decide(p) \/ Check(p) \/ Insert(p) \/ ReadLatest(p)
  <2>1. home' = home /\ ~Moving(p)
    BY <1>6 DEF ReadParent, Pin, Decide, Check, Insert, ReadLatest, children
  <2>2. pc'[p] \in {"check", "pin", "idle", "insert", "write", "latest", "bump"}
    BY <1>2, <1>6 DEF ReadParent, Pin, Decide, Check, Insert, ReadLatest, Goto, Finish
  <2>. QED
    BY <1>1, <2>1, <2>2
<1>7. CASE Bump(p) \/ List(p) \/ Write(p)
  <2>1. home' = home /\ ~Moving(p)
    BY <1>7 DEF Bump, List, Write, children
  <2>2. pc'[p] \in {"setup", "list", "idle", "decide", "pin"}
    BY <1>2, <1>7 DEF Bump, List, Write, Goto, Finish
  <2>. QED
    BY <1>1, <2>1, <2>2
<1>8. CASE Dies(p)
  <2>1. "death" \in mishaps'
    BY <1>8 DEF Dies, Note
  <2>. QED
    BY <2>1 DEF ItemsInv, Free
<1>9. CASE \E item \in Items, src, dest \in Children : MoveItem(p, item, src, dest)
  BY <1>9, MoveBegins
<1>10. CASE WriteSource(p)
  BY <1>10, SourceWritten
<1>11. CASE WriteDestination(p)
  BY <1>11, DestinationWritten
<1>. QED
  BY <1>3, <1>4, <1>5, <1>6, <1>7, <1>8, <1>9, <1>10, <1>11 DEF Act, Step, Request

-----------------------------------------------------------------------------
LEMMA InitHolds == Init => IInv
<1>. SUFFICES ASSUME Init PROVE IInv
  OBVIOUS
<1>0. /\ Clusters \subseteq Children /\ Runner \in Processes
      /\ lock = 1 /\ head = 1 /\ mishaps = {} /\ state = "monitoring"
      /\ \A c \in Children : child[c] = "none"
      /\ MaxDisturbances \in Nat
  BY FamilyAssumption DEF Init, Children, Processes
<1>1. [NoJob EXCEPT !.op = "spawn", !.at = lock, !.left = Clusters] \in Jobs
  BY <1>0, NoJobIsJob DEF Jobs, Ops
<1>2. PICK cluster \in [Items -> Clusters] :
         home = [c \in Children |-> {i \in Items : cluster[i] = c}]
  BY DEF Init
<1>3. TypeOK
  <2>1. home \in [Children -> SUBSET Items]
    BY <1>2
  <2>2. child \in [Children -> Live \cup Terminal \cup {"none"}]
    BY DEF Init
  <2>3. job \in [Processes -> Jobs]
    BY <1>1, NoJobIsJob DEF Init
  <2>. QED
    BY <1>0, <2>1, <2>2, <2>3 DEF Init, TypeOK
<1>4. \A p \in Processes :
        IF p = Runner
        THEN pc[p] = "spawning" /\ job[p] = [NoJob EXCEPT !.op = "spawn", !.at = lock, !.left = Clusters]
        ELSE pc[p] = "idle" /\ job[p] = NoJob
  BY DEF Init
<1>5. ASSUME NEW p \in Processes
      PROVE  IF p = Runner
             THEN pc[p] = "spawning" /\ job[p].op = "spawn" /\ job[p].at = 1 /\ ~job[p].deleting
             ELSE pc[p] = "idle" /\ job[p].op = "none" /\ job[p].at = 0
  <2>1. CASE p = Runner
    <3>1. pc[p] = "spawning" /\ job[p] = [NoJob EXCEPT !.op = "spawn", !.at = lock, !.left = Clusters]
      BY <1>4, <2>1
    <3>2. job[p].op = "spawn" /\ job[p].at = lock /\ ~job[p].deleting
      BY <3>1 DEF NoJob
    <3>. QED
      BY <1>0, <2>1, <3>1, <3>2
  <2>2. CASE p # Runner
    BY <1>4, <2>2 DEF NoJob
  <2>. QED
    BY <2>1, <2>2
<1>6. JobInv
  BY <1>0, <1>5 DEF JobInv, Fits, Moving
<1>7. OwedInv
  BY <1>0 DEF OwedInv
<1>8. EarlyInv
  BY <1>0, <1>5 DEF EarlyInv, Cascades, Terminal, Ended
<1>9. CloseInv
  <2>1. \E c \in Clusters : child[c] = "none"
    BY <1>0, FamilyAssumption
  <2>. QED
    BY <2>1 DEF CloseInv, AllEnded, Spawned
<1>10. ItemsInv
  <2>1. \A p \in Processes : ~Moving(p)
    BY <1>5 DEF Moving
  <2>2. ASSUME NEW i \in Items PROVE Housed(i)
    <3>1. cluster[i] \in Children /\ HomesOf(i) = {cluster[i]}
      BY <1>0, <1>2 DEF HomesOf
    <3>. QED
      BY <3>1 DEF Housed
  <2>. QED
    BY <2>1, <2>2 DEF ItemsInv
<1>. QED
  BY <1>3, <1>6, <1>7, <1>8, <1>9, <1>10 DEF IInv

LEMMA NextKeeps == IInv /\ [Next]_vars => IInv'
<1>. SUFFICES ASSUME IInv, [Next]_vars PROVE IInv'
  OBVIOUS
<1>1. CASE UNCHANGED vars
  <2>. USE <1>1 DEF vars, umbrella, children
  <2>1. TypeOK'
    BY DEF IInv, TypeOK
  <2>2. JobInv'
    BY DEF IInv, JobInv, Fits, Moving
  <2>3. OwedInv'
    BY DEF IInv, OwedInv, Free, Owes
  <2>4. EarlyInv'
    BY DEF IInv, EarlyInv, Free, Settled, Ended
  <2>5. CloseInv'
    BY DEF IInv, CloseInv, AllEnded, Spawned, Closes
  <2>6. ItemsInv'
    BY DEF IInv, ItemsInv, Free, Moving, Housed, HomesOf
  <2>. QED
    BY <2>1, <2>2, <2>3, <2>4, <2>5, <2>6 DEF IInv
<1>2. CASE Next
  <2>1. PICK p \in Processes : Act(p)
    BY <1>2, EveryStep
  <2>2. TypeOK' /\ Moves(p) /\ JobInv' /\ Fits(p) /\ Fits(p)'
    BY <2>1, ActFits DEF IInv
  <2>3. mishaps \subseteq mishaps'
    BY <2>1, NotesStay
  <2>4. OwedInv'
    BY <2>1, <2>2, <2>3, ActPaysLock, OwedStays DEF IInv
  <2>5. EarlyInv'
    BY <2>1, <2>2, <2>3, ActIsOrderly, EarlyStays DEF IInv
  <2>6. CloseInv'
    BY <2>1, <2>2, <2>3, CloseStays DEF IInv
  <2>7. ItemsInv'
    BY <2>1, <2>2, <2>3, ItemsStay DEF IInv
  <2>. QED
    BY <2>2, <2>4, <2>5, <2>6, <2>7 DEF IInv
<1>. QED
  BY <1>1, <1>2

THEOREM Invariance == Spec => []IInv
  BY InitHolds, NextKeeps, PTL DEF Spec

\* Every variable stays in its type, for any family and any workers; the lock of
\* the umbrella is never the id of an event that does not exist.
THEOREM TypeCorrect == Spec => []TypeOK
<1>1. IInv => TypeOK
  BY DEF IInv
<1>. QED
  BY <1>1, Invariance, PTL

LEMMA NobodyCloses ==
  ASSUME JobInv, Quiet
  PROVE  \A p \in Processes : ~Closes(p)
  BY DEF JobInv, Quiet, Closes

\* However many children end at once, in whatever processes, one of them closes
\* the umbrella: none is left monitoring with nobody to close it.
THEOREM OneOfThemCloses == Spec => []FamilyCloses
<1>1. IInv => FamilyCloses
  BY NobodyCloses DEF IInv, CloseInv, FamilyCloses
<1>. QED
  BY <1>1, Invariance, PTL

\* An umbrella that is done has no child of its spawn still at work.
THEOREM DoneIsOverEndedChildren == Spec => []DoneMeansEnded
<1>1. IInv => DoneMeansEnded
  BY DEF IInv, EarlyInv, Free, Ended, Terminal, DoneMeansEnded
<1>. QED
  BY <1>1, Invariance, PTL

\* Whatever appends have crossed, the umbrella at rest accepts the next one.
THEOREM LockCatchesUp == Spec => []LockIsCurrent
<1>1. ASSUME IInv, Quiet, Free(Excluded) PROVE lock = head
  <2>1. \A p \in Processes : ~Owes(p)
    BY <1>1 DEF Quiet, Owes
  <2>. QED
    BY <1>1, <2>1 DEF IInv, OwedInv, Excluded
<1>2. IInv => LockIsCurrent
  BY <1>1 DEF LockIsCurrent, Free, Excluded
<1>. QED
  BY <1>2, Invariance, PTL

LEMMA HousedOnce ==
  ASSUME NEW i, Housed(i)
  PROVE  Cardinality(HomesOf(i)) <= 1 /\ HomesOf(i) # {}
<1>1. PICK c \in Children : HomesOf(i) = {c}
  BY DEF Housed
<1>2. Cardinality({c}) = 1
  BY FS_Singleton
<1>. QED
  BY <1>1, <1>2

\* An item is in one child, or on its way to one.
THEOREM ItemsHaveOneHome == Spec => []ItemsStayInTheFamily
<1>1. ASSUME IInv, Free({"moves", "death"}), NEW i \in Items
      PROVE  /\ Cardinality(HomesOf(i)) <= 1
             /\ (\A p \in Processes : ~Moving(p)) => HomesOf(i) # {}
  <2>1. ItemsInv
    BY <1>1 DEF IInv
  <2>2. CASE \A p \in Processes : ~Moving(p)
    BY <1>1, <2>1, <2>2, HousedOnce DEF ItemsInv
  <2>3. CASE \E p \in Processes : Moving(p)
    <3>1. PICK p \in Processes : Moving(p)
      BY <2>3
    <3>2. PICK x \in Items :
            /\ \A j \in Items \ {x} : Housed(j)
            /\ HomesOf(x) = IF pc[p] = "source" THEN {job[p].src} ELSE {}
      BY <1>1, <2>1, <3>1 DEF ItemsInv
    <3>3. Cardinality({}) = 0 /\ Cardinality({job[p].src}) = 1
      BY FS_EmptySet, FS_Singleton
    <3>4. Cardinality(HomesOf(i)) <= 1
      <4>1. CASE i = x
        BY <3>2, <3>3, <4>1
      <4>2. CASE i # x
        BY <3>2, <4>2, HousedOnce
      <4>. QED
        BY <4>1, <4>2
    <3>. QED
      BY <2>3, <3>4
  <2>. QED
    BY <2>2, <2>3
<1>2. IInv => ItemsStayInTheFamily
  BY <1>1 DEF ItemsStayInTheFamily, HomesOf, Free
<1>. QED
  BY <1>2, Invariance, PTL
=============================================================================
