---------------------------- MODULE ThreadFamily ----------------------------
(***************************************************************************)
(* An umbrella thread, its children, and how the ends of the children are  *)
(* carried up.  A pipeline spawns the family; the dashboard's request      *)
(* threads and the sidecar end children, each running the cascade by       *)
(* itself; users rename, postpone, dismiss and regroup meanwhile.          *)
(*                                                                         *)
(* Every event of the umbrella is appended behind an expected latest one   *)
(* (the optimistic lock) and followed by a write of the cached lock: the   *)
(* check, the insert, the read of the latest id and that write are commits *)
(* of their own.  What happens within one child is ThreadEngine's matter.  *)
(***************************************************************************)
EXTENDS Naturals, FiniteSets

CONSTANTS
    Clusters,     \* the children the pipeline spawns
    Extras,       \* children users add to a group with spawn_empty_group
    Items,        \* the context items of the family
    Workers,      \* processes and request threads that end or edit threads
    Runner,       \* the pipeline run that spawns the family
    Ends,         \* how children end: done, dismissed, cleaned
    Requests,     \* bound: the kinds of request users make
    MaxDisturbances \* bound: requests, and processes that die at work

ASSUME FamilyAssumption ==
    /\ Clusters # {} /\ Clusters \cap Extras = {} /\ IsFiniteSet(Clusters)
    /\ Runner \notin Workers
    /\ Ends \subseteq {"done", "dismissed", "cleaned"}
    /\ Requests \subseteq {"dismiss", "note", "later", "add", "delete", "move"}
    /\ MaxDisturbances \in Nat

VARIABLES
    kind,       \* "group" or "singular" (one matter with several actions)
    state,      \* of the umbrella
    lock,       \* its cached lock target, threads.parent_event_id
    head,       \* the id of its latest event
    child,      \* the state of each child; "none" before it is inserted
    home,       \* the context items of each child
    pc, job,
    disturbances,
    mishaps     \* history: what has gone wrong so far

umbrella == <<state, lock, head>>
children == <<child, home>>
vars == <<kind, umbrella, children, pc, job, disturbances, mishaps>>

Children == Clusters \cup Extras
Processes == Workers \cup {Runner}
Terminal == {"done", "dismissed", "cleaned"}
Live == {"proposed", "waiting"}

Ops == {"none", "report", "finish", "dismiss", "note", "later", "add", "delete",
        "move", "spawn"}

(* What a process is at: the event it appends, the id it expects or has read, *)
(* the state it takes the umbrella to, whether it is deleting a child, and    *)
(* for a move the lists it has read; for the run, the children it has still   *)
(* to set up.                                                                 *)
Jobs == [op : Ops, at : Nat, to : {"done", "dismissed"}, deleting : BOOLEAN,
         src : Children \cup {"none"}, dest : Children \cup {"none"}, left : SUBSET Clusters,
         kept : SUBSET Items, grown : SUBSET Items]

NoJob == [op |-> "none", at |-> 0, to |-> "done", deleting |-> FALSE,
          src |-> "none", dest |-> "none", left |-> {}, kept |-> {}, grown |-> {}]

Mishaps == {"stale_lock", "crossed", "later", "cleaned", "early", "moves", "death"}

TypeOK ==
    /\ kind \in {"group", "singular"}
    /\ state \in {"monitoring", "done", "dismissed"}
    /\ lock \in Nat /\ head \in Nat /\ lock <= head
    /\ child \in [Children -> Live \cup Terminal \cup {"none"}]
    /\ home \in [Children -> SUBSET Items]
    /\ pc \in [Processes -> {"idle", "parent", "pin", "decide", "check", "insert",
                  "latest", "bump", "list", "write", "source", "destination",
                  "spawning", "setup"}]
    /\ job \in [Processes -> Jobs]
    /\ disturbances \in 0..MaxDisturbances
    /\ mishaps \subseteq Mishaps

(* _spawn_umbrella has run; the run of the pipeline is about to spawn the      *)
(* children.                                                                   *)
Init ==
    /\ kind \in {"group", "singular"}
    /\ state = "monitoring" /\ lock = 1 /\ head = 1
    /\ child = [c \in Children |-> "none"]
    /\ \E cluster \in [Items -> Clusters] :
         home = [c \in Children |-> {i \in Items : cluster[i] = c}]
    /\ pc = [p \in Processes |-> IF p = Runner THEN "spawning" ELSE "idle"]
    /\ job = [p \in Processes |->
                IF p = Runner
                THEN [NoJob EXCEPT !.op = "spawn", !.at = lock, !.left = Clusters]
                ELSE NoJob]
    /\ disturbances = 0 /\ mishaps = {}

Become(p, place, new) ==
    /\ pc' = [pc EXCEPT ![p] = place]
    /\ job' = [job EXCEPT ![p] = new]

Goto(p, place) == Become(p, place, job[p])
Finish(p) == Become(p, "idle", NoJob)

(* A cascade is over, or the engine has swallowed what it raised; a deletion   *)
(* goes on to record itself on the umbrella.                                   *)
Return(p) ==
    IF job[p].deleting THEN Become(p, "pin", [NoJob EXCEPT !.op = "delete"])
    ELSE Finish(p)

Note(what, happens) == mishaps' = mishaps \cup (IF happens THEN {what} ELSE {})

Cascading(q) == job[q].op \in {"report", "finish"} /\ pc[q] # "parent"
Unbumped(q) == job[q].op \in {"note", "add", "delete", "spawn"} /\ pc[q] \in {"latest", "bump"}

-----------------------------------------------------------------------------
(* The spawn: group_thread and _initialize_group_child_state, or the threads   *)
(* of an inline capture.                                                       *)

Spawned == \A c \in Clusters : child[c] # "none"
Settled == pc[Runner] = "idle"

\* Each insert is a commit of its own; the items of its cluster come with a child.
SpawnChild ==
    /\ pc[Runner] = "spawning"
    /\ \E c \in Clusters :
         /\ child[c] = "none"
         /\ child' = [child EXCEPT ![c] = "proposed"]
    /\ UNCHANGED <<kind, umbrella, home, pc, job, disturbances, mishaps>>

\* A group records its children on the umbrella, expecting the lock it read first.
SpawnRecord ==
    /\ pc[Runner] = "spawning" /\ Spawned
    /\ Goto(Runner, IF kind = "group" THEN "check" ELSE "setup")
    /\ UNCHANGED <<kind, umbrella, children, disturbances, mishaps>>

\* Each child is written to its gate, whatever its state by then.
SetUpChild ==
    /\ pc[Runner] = "setup"
    /\ \E c \in job[Runner].left :
         LET left == job[Runner].left \ {c} IN
         /\ child' = [child EXCEPT ![c] = "waiting"]
         /\ IF left = {} THEN Finish(Runner)
            ELSE Become(Runner, "setup", [job[Runner] EXCEPT !.left = left])
    /\ UNCHANGED <<kind, umbrella, home, disturbances, mishaps>>

-----------------------------------------------------------------------------
(* The end of a child, and the requests of users.                             *)

\* Mutant: the cascade is registered for done alone.
HandledIfDone == {"done"}

\* cascade_handler is registered for done and dismissed (and handed_off, which
\* nothing enters).
Handled == {"done", "dismissed"}

\* engine.transition takes the child to an end and runs the handlers.
End(p, c, end) ==
    /\ pc[p] = "idle" /\ end \in Ends
    /\ child[c] = "waiting" \/ (child[c] = "proposed" /\ end = "dismissed")
    /\ child' = [child EXCEPT ![c] = end]
    /\ IF end \in Handled THEN Become(p, "parent", [NoJob EXCEPT !.op = "report"])
       ELSE Finish(p)
    /\ mishaps' = mishaps \cup (IF end = "cleaned" THEN {"cleaned"} ELSE {})
                         \cup (IF Settled THEN {} ELSE {"early"})
    /\ UNCHANGED <<kind, umbrella, home, disturbances>>

Arrives(p, request) ==
    /\ pc[p] = "idle" /\ request \in Requests /\ disturbances < MaxDisturbances
    /\ disturbances' = disturbances + 1

\* The umbrella's own dismissal: a transition; no handler looks at its children.
Dismiss(p) ==
    /\ Arrives(p, "dismiss")
    /\ Become(p, "decide", [NoJob EXCEPT !.op = "dismiss", !.to = "dismissed"])
    /\ UNCHANGED <<kind, umbrella, children, mishaps>>

\* An event behind the lock as the request read it (thread_rename).
NoteEvent(p) ==
    /\ Arrives(p, "note")
    /\ Become(p, "check", [NoJob EXCEPT !.op = "note", !.at = lock])
    /\ UNCHANGED <<kind, umbrella, children, mishaps>>

\* later reads the latest id for its event, and leaves the lock as it is.
Later(p) ==
    /\ Arrives(p, "later")
    /\ Become(p, "pin", [NoJob EXCEPT !.op = "later"])
    /\ UNCHANGED <<kind, umbrella, children, mishaps>>

\* spawn_empty_group inserts the child first, whatever the umbrella's state.
SpawnEmptyGroup(p, c) ==
    /\ Arrives(p, "add") /\ kind = "group"
    /\ child[c] = "none"
    /\ child' = [child EXCEPT ![c] = "proposed"]
    /\ Become(p, "check", [NoJob EXCEPT !.op = "add", !.at = lock])
    /\ UNCHANGED <<kind, umbrella, home, mishaps>>

\* delete_group_subthread dismisses the child, with its cascade, if it is live.
DeleteChild(p, c) ==
    /\ Arrives(p, "delete") /\ kind = "group"
    /\ child[c] # "none"
    /\ IF child[c] \in Terminal
       THEN Become(p, "pin", [NoJob EXCEPT !.op = "delete"]) /\ UNCHANGED child
       ELSE /\ child' = [child EXCEPT ![c] = "dismissed"]
            /\ Become(p, "parent", [NoJob EXCEPT !.op = "report", !.deleting = TRUE])
    /\ Note("early", ~Settled)
    /\ UNCHANGED <<kind, umbrella, home>>

Moving(p) == pc[p] \in {"source", "destination"}

\* move_item reads the lists of both children ...
MoveItem(p, item, src, dest) ==
    /\ Arrives(p, "move") /\ kind = "group"
    /\ src # dest /\ "none" \notin {child[src], child[dest]} /\ item \in home[src]
    /\ Become(p, "source", [NoJob EXCEPT !.op = "move", !.src = src, !.dest = dest,
                              !.kept = home[src] \ {item},
                              !.grown = home[dest] \cup {item}])
    /\ Note("moves", \E q \in Processes : Moving(q))
    /\ UNCHANGED <<kind, umbrella, children>>

\* Mutant: the destination is written first.
WriteDestinationFirst(p) ==
    /\ pc[p] = "source"
    /\ home' = [home EXCEPT ![job[p].dest] = job[p].grown]
    /\ Goto(p, "destination")
    /\ UNCHANGED <<kind, umbrella, child, disturbances, mishaps>>

\* ... and writes them back, one after the other.
WriteSource(p) ==
    /\ pc[p] = "source"
    /\ home' = [home EXCEPT ![job[p].src] = job[p].kept]
    /\ Goto(p, "destination")
    /\ UNCHANGED <<kind, umbrella, child, disturbances, mishaps>>

WriteDestination(p) ==
    /\ pc[p] = "destination"
    /\ home' = [home EXCEPT ![job[p].dest] = job[p].grown]
    /\ Finish(p)
    /\ UNCHANGED <<kind, umbrella, child, disturbances, mishaps>>

-----------------------------------------------------------------------------
(* cascade_terminal_to_parent and the appends to the umbrella.                *)

\* The parent is read; one that is not monitoring is left alone.
ReadParent(p) ==
    /\ pc[p] = "parent"
    /\ IF state = "monitoring" THEN Become(p, "check", [job[p] EXCEPT !.at = lock])
       ELSE Return(p)
    /\ Note("crossed", state = "monitoring" /\ \E q \in Processes : Unbumped(q))
    /\ UNCHANGED <<kind, umbrella, children, disturbances>>

\* A caller reads latest_event_id and passes it as the lock target.
Pin(p) ==
    /\ pc[p] = "pin"
    /\ Become(p, "check", [job[p] EXCEPT !.at = head])
    /\ UNCHANGED <<kind, umbrella, children, disturbances, mishaps>>

\* engine.transition on the umbrella: only a monitoring one has these triggers.
Decide(p) ==
    /\ pc[p] = "decide"
    /\ IF state = "monitoring" THEN Become(p, "check", [job[p] EXCEPT !.at = lock])
       ELSE Return(p)
    /\ Note("crossed", /\ state = "monitoring" /\ job[p].op = "finish"
                       /\ \E q \in Processes : Unbumped(q))
    /\ UNCHANGED <<kind, umbrella, children, disturbances>>

\* OptimisticLockConflict: swallowed in a cascade, else answered to the user; it
\* ends a pipeline run, whose children then stay as they were inserted.
Check(p) ==
    /\ pc[p] = "check"
    /\ IF job[p].at = head THEN Goto(p, "insert") ELSE Return(p)
    /\ UNCHANGED <<kind, umbrella, children, disturbances, mishaps>>

\* The event is inserted; a transition knows its id, the others read the latest.
Insert(p) ==
    /\ pc[p] = "insert"
    /\ head' = head + 1
    /\ CASE job[p].op = "later" -> Finish(p)
         [] job[p].op \in {"finish", "dismiss"} ->
              Become(p, "write", [job[p] EXCEPT !.at = head + 1])
         [] OTHER -> Goto(p, "latest")
    /\ mishaps' = mishaps
         \cup (IF job[p].op = "later" THEN {"later"} ELSE {})
         \cup (IF job[p].op \notin {"report", "finish"} /\ \E q \in Processes : Cascading(q)
               THEN {"crossed"} ELSE {})
    /\ UNCHANGED <<kind, state, lock, children, disturbances>>

\* Mutant: the append leaves the cached lock as it was.
ReadLatestNot(p) ==
    /\ pc[p] = "latest"
    /\ Become(p, "bump", [job[p] EXCEPT !.at = lock])
    /\ UNCHANGED <<kind, umbrella, children, disturbances, mishaps>>

ReadLatest(p) ==
    /\ pc[p] = "latest"
    /\ Become(p, "bump", [job[p] EXCEPT !.at = head])
    /\ UNCHANGED <<kind, umbrella, children, disturbances, mishaps>>

\* The lock is written, and the umbrella of a new group set to monitoring.
Bump(p) ==
    /\ pc[p] = "bump"
    /\ lock' = job[p].at
    /\ state' = IF p = Runner THEN "monitoring" ELSE state
    /\ CASE p = Runner -> Goto(p, "setup")
         [] p # Runner /\ job[p].op = "report" -> Goto(p, "list")
         [] OTHER -> Finish(p)
    /\ Note("stale_lock", job[p].at < lock)
    /\ UNCHANGED <<kind, head, children, disturbances>>

\* Mutant: children that still wait for a decision are not counted as live.
ListAnyTerminal(p) ==
    /\ pc[p] = "list"
    /\ IF \A c \in Children : child[c] # "waiting"
       THEN Become(p, "decide", [job[p] EXCEPT !.op = "finish"])
       ELSE Return(p)
    /\ UNCHANGED <<kind, umbrella, children, disturbances, mishaps>>

\* When all children are terminal, the umbrella ends with the verdict of the mix.
List(p) ==
    LET there == {child[c] : c \in {d \in Children : child[d] # "none"}} IN
    /\ pc[p] = "list"
    /\ IF there \subseteq Terminal
       THEN Become(p, "decide",
                   [job[p] EXCEPT !.op = "finish",
                      !.to = IF kind = "singular" /\ there = {"dismissed"}
                             THEN "dismissed" ELSE "done"])
       ELSE Return(p)
    /\ UNCHANGED <<kind, umbrella, children, disturbances, mishaps>>

\* update_thread_state, behind the event of the transition
Write(p) ==
    /\ pc[p] = "write"
    /\ state' = job[p].to /\ lock' = job[p].at
    /\ Return(p)
    /\ mishaps' = mishaps \cup (IF job[p].at < lock THEN {"stale_lock"} ELSE {})
                         \cup (IF Settled THEN {} ELSE {"early"})
    /\ UNCHANGED <<kind, head, children, disturbances>>

Dies(p) ==
    /\ pc[p] # "idle" /\ disturbances < MaxDisturbances
    /\ disturbances' = disturbances + 1
    /\ Finish(p)
    /\ Note("death", TRUE)
    /\ UNCHANGED <<kind, umbrella, children>>

-----------------------------------------------------------------------------
Step(p) ==
    \/ ReadParent(p) \/ Pin(p) \/ Decide(p) \/ Check(p) \/ Insert(p)
    \/ ReadLatest(p) \/ Bump(p) \/ List(p) \/ Write(p)
    \/ WriteSource(p) \/ WriteDestination(p)

Request(p) ==
    \/ Dismiss(p) \/ NoteEvent(p) \/ Later(p)
    \/ \E c \in Extras : SpawnEmptyGroup(p, c)
    \/ \E c \in Children : DeleteChild(p, c)
    \/ \E item \in Items, src, dest \in Children : MoveItem(p, item, src, dest)

Next ==
    \/ SpawnChild \/ SpawnRecord \/ SetUpChild
    \/ \E p \in Processes : Step(p) \/ Dies(p)
    \/ \E p \in Workers : Request(p) \/ \E c \in Children, end \in Terminal : End(p, c, end)

Spec == Init /\ [][Next]_vars

-----------------------------------------------------------------------------
(* Properties.                                                                *)

Quiet == \A p \in Processes : pc[p] = "idle"
AllEnded == Spawned /\ \A c \in Children : child[c] \in Terminal \cup {"none"}

\* Two children may end in two processes at the same moment, each reporting
\* behind the lock the other is moving: unless one of them moved the lock back, or
\* another event crossed them, one of the two closes the umbrella.
FamilyCloses == Quiet /\ AllEnded /\ mishaps = {} => state # "monitoring"

\* An umbrella that closed once its spawn was over was closed over ended children,
\* however long ago the list was read.
DoneMeansEnded ==
    state = "done" /\ "early" \notin mishaps =>
        \A c \in Clusters : child[c] \in Terminal \cup {"none"}

\* When nobody is at work the umbrella's lock is its latest event, so that the next
\* dismissal or report is accepted.
LockIsCurrent ==
    Quiet /\ mishaps \cap {"stale_lock", "later", "death"} = {} => lock = head

\* An item moved between siblings is never in two of them, and is in one again when
\* the move is over, as long as moves do not overlap and none is cut short.
ItemsStayInTheFamily ==
    mishaps \cap {"moves", "death"} = {} /\ Spawned =>
        \A i \in Items : LET homes == {c \in Children : i \in home[c]} IN
            /\ Cardinality(homes) <= 1
            /\ (\A p \in Processes : ~Moving(p)) => homes # {}

=============================================================================
