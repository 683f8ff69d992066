------------------------------ MODULE TruthLedger ------------------------------
(***************************************************************************)
(* One Truth store: the append-only ledger of claims, what agents and the  *)
(* system append to it, and what people decide on claims they were shown.  *)
(*                                                                         *)
(* A write transaction of the store takes the write lock, so an operation  *)
(* is one action; between a person's reading and the decision any number   *)
(* of other operations may commit.  A refused operation rolls back, which  *)
(* is a guard here.  Places in the ledger are counted in status events.    *)
(***************************************************************************)
EXTENDS Integers, Sequences, FiniteSets, SequencesExt

CONSTANTS
    Claims,
    People,         \* each with at most one decision on the screen
    RedactsEnded,   \* the profile redacts rejected and expired proposals
    Rooms           \* the claims a profile demands support of, and the bounds

ASSUME LedgerAssumption ==
    /\ IsFiniteSet(Claims) /\ RedactsEnded \in BOOLEAN
    /\ \A r \in Rooms : /\ r.early <= r.claims /\ r.claims <= Cardinality(Claims)
                        /\ r.demanding \subseteq Claims

VARIABLES
    log,        \* claim_status_events, in the order of seq
    links,      \* claim_links between claims
    retracted,  \* link_retractions: a link and its place
    premises,   \* derivation_premises
    cited,      \* where a claim got its evidence, or 0
    gone,       \* where that evidence was redacted, or 0
    redacted,   \* redaction_events of claims
    screen,     \* the decision each person is looking at
    room        \* what the profile demands, and the bounds of this behaviour

ledger == <<log, links, retracted, premises, cited, gone, redacted>>
vars == <<ledger, screen, room>>

Terminal == {"rejected", "expired", "superseded", "retracted"}
NoScreen == [shown |-> FALSE]

BaseTransitions(status) ==
    CASE status = "none"       -> {"proposed"}
      [] status = "proposed"   -> {"confirmed", "rejected", "expired", "retracted"}
      [] status = "confirmed"  -> {"challenged", "superseded", "retracted"}
      [] status = "challenged" -> {"confirmed", "superseded", "retracted"}
      [] OTHER                 -> {}

\* Reading the ledger as it stood after its first n events

Here == Len(log)

EventsOf(c, n) == {i \in 1 .. n : log[i].claim = c}
Latest(places) == CHOOSE i \in places : \A j \in places : j <= i
StatusAt(c, n) == LET e == EventsOf(c, n) IN IF e = {} THEN "none" ELSE log[Latest(e)].status
BaseAt(c, n) ==
    LET e == {i \in EventsOf(c, n) : log[i].status # "needs_review"}
    IN IF e = {} THEN "none" ELSE log[Latest(e)].status

ByGesture(e) == e.by = "human" /\ e.basis = "gesture" /\ e.status # "needs_review"

\* The resolver of every query: an overlay stands until a person's gesture
\* clears it, or the claim ends
OverlaidAt(c, n) ==
    /\ BaseAt(c, n) \notin Terminal
    /\ \E o \in EventsOf(c, n) : /\ log[o].status = "needs_review"
                                 /\ \A i \in EventsOf(c, n) : ByGesture(log[i]) => i < o
ResolvedAt(c, n) == IF OverlaidAt(c, n) THEN "needs_review" ELSE BaseAt(c, n)

\* The two resolvers of the writing side: with the overlay, and without
Full(c) == StatusAt(c, Here)
Base(c) == BaseAt(c, Here)

ActiveLink(l) == \A r \in retracted : r.link # l
LinksFrom(c, type) == {l \in links : l.from = c /\ l.type = type /\ ActiveLink(l)}
EverConfirmed(c) == \E i \in EventsOf(c, Here) : log[i].status = "confirmed"
IsRedacted(c) == \E r \in redacted : r.claim = c
Usable(c) == cited[c] # 0 /\ gone[c] = 0

EventAt(n, c, status, by, basis, ref) ==
    [claim |-> c, status |-> status, by |-> by, basis |-> basis, ref |-> ref, at |-> n]
Event(c, status, by, basis, ref) == EventAt(Here, c, status, by, basis, ref)
NoRef == [none |-> TRUE]
Gesture(kind, c) == [kind |-> kind, subject |-> c]
ByAgentFor(c, status, kind, subject) ==
    Event(c, status, "agent", "gesture", Gesture(kind, subject))
ByPerson(c, status, kind, subject) ==
    Event(c, status, "human", "gesture", Gesture(kind, subject))
ProposalAt(n, c) == EventAt(n, c, "proposed", "agent", "rule", NoRef)
Proposal(c) == ProposalAt(Here, c)

Record(events) == /\ Here + Len(events) <= room.events
                  /\ log' = log \o events

Init ==
    /\ room \in Rooms
    /\ \E early \in kSubset(room.early, Claims) : \E order \in SetToSeqs(early) :
          log = [i \in DOMAIN order |-> ProposalAt(i - 1, order[i])]
    /\ links = {} /\ retracted = {} /\ premises = {} /\ redacted = {}
    /\ cited = [c \in Claims |-> 0] /\ gone = [c \in Claims |-> 0]
    /\ screen = [p \in People |-> NoScreen]

-----------------------------------------------------------------------------
\* Agents and the system

Known == {c \in Claims : Base(c) # "none"}
New(c) == c \notin Known /\ Cardinality(Known) < room.claims
ProposeClaim(c) ==
    /\ New(c)
    /\ Record(<<Proposal(c)>>)
    /\ UNCHANGED <<links, retracted, premises, cited, gone, redacted, screen, room>>

AddDerivation(c, premise) ==
    /\ c # premise /\ Base(c) # "none" /\ Base(premise) # "none"
    /\ Cardinality(premises) < room.premises
    /\ premises' = premises \cup {[of |-> c, on |-> premise, at |-> Here]}
    /\ UNCHANGED <<log, links, retracted, cited, gone, redacted, screen, room>>

AttachSupport(c) ==
    /\ Base(c) # "none" /\ cited[c] = 0
    /\ Cardinality({d \in Claims : cited[d] # 0}) < room.cited
    /\ cited' = [cited EXCEPT ![c] = Here]
    /\ UNCHANGED <<log, links, retracted, premises, gone, redacted, screen, room>>

RedactEvidence(c) ==
    /\ Usable(c)
    /\ gone' = [gone EXCEPT ![c] = Here]
    /\ UNCHANGED <<log, links, retracted, premises, cited, redacted, screen, room>>

Link(from, type, to) == [from |-> from, type |-> type, to |-> to, at |-> Here]
AddLink(l) ==
    /\ l \notin links
    /\ Cardinality(links) < room.links
    /\ links' = links \cup {l}

SupersedeClaim(successor, predecessor) ==
    /\ Base(successor) = "proposed"
    /\ Base(predecessor) \in {"confirmed", "challenged"}
    /\ \A l \in LinksFrom(successor, "supersedes") : l.to # predecessor
    /\ AddLink(Link(successor, "supersedes", predecessor))
    /\ UNCHANGED <<log, retracted, premises, cited, gone, redacted, screen, room>>

ChallengeClaim(target, challenger, by) ==
    LET own == {l \in LinksFrom(challenger, "conflicts_with") : l.to = target}
        l == IF own = {} THEN Link(challenger, "conflicts_with", target)
                         ELSE CHOOSE o \in own : TRUE
    IN /\ target # challenger
       /\ Base(target) \in {"confirmed", "challenged"}
       /\ Base(challenger) \notin Terminal /\ Usable(challenger)
       /\ IF own = {} THEN AddLink(l) ELSE UNCHANGED links
       /\ IF Base(target) = "challenged"
          THEN UNCHANGED log
          ELSE Record(<<Event(target, "challenged", by, "conflict_link", l)>>)
       /\ UNCHANGED <<retracted, premises, cited, gone, redacted, screen, room>>

\* The link by which a claim is superseded or challenged now
Authority(c) ==
    LET e == {i \in EventsOf(c, Here) : log[i].status # "needs_review"}
    IN IF e = {} THEN NoRef ELSE log[Latest(e)].ref

RetractLink(l) ==
    /\ ActiveLink(l)
    /\ Authority(l.to) # l
    /\ retracted' = retracted \cup {[link |-> l, at |-> Here]}
    /\ UNCHANGED <<log, links, premises, cited, gone, redacted, screen, room>>

MarkNeedsReview(c) ==
    /\ Base(c) \notin Terminal \cup {"none"}
    /\ Full(c) # "needs_review"
    /\ Cardinality({i \in 1 .. Here : log[i].basis = "sweep"}) < room.reviews
    /\ Record(<<Event(c, "needs_review", "system", "sweep", NoRef)>>)
    /\ UNCHANGED <<links, retracted, premises, cited, gone, redacted, screen, room>>

\* _apply_terminal_content_policy_locked, once the claim's n-th event has ended it
ContentPolicy(c, n) ==
    redacted' = IF RedactsEnded
                THEN redacted \cup {[claim |-> c, at |-> n, basis |-> "policy"]}
                ELSE redacted

ExpireClaim(c) ==
    /\ Base(c) = "proposed"
    /\ Record(<<Event(c, "expired", "system", "rule", NoRef)>>)
    /\ ContentPolicy(c, Here + 1)
    /\ UNCHANGED <<links, retracted, premises, cited, gone, screen, room>>

-----------------------------------------------------------------------------
\* People

\* What a decision is bound to.  The consent prompt of the gateway and the
\* terminal show the claim and its receipts; the dashboard shows and binds
\* the history, the relations and the premises as well.
Receipts(c) == [cited |-> cited[c], gone |-> gone[c]]
Context(surface, c) ==
    IF surface = "dashboard"
    THEN [receipts |-> Receipts(c),
          history |-> EventsOf(c, Here),
          links |-> {l \in links : c \in {l.from, l.to}},
          retracted |-> {r \in retracted : c \in {r.link.from, r.link.to}},
          premises |-> {d \in premises : d.of = c},
          unconfirmed |-> {d.on : d \in {x \in premises : x.of = c /\ Full(x.on) # "confirmed"}}]
    ELSE [receipts |-> Receipts(c)]

\* The prompt is made for any claim that can be read; the dashboard offers
\* what the state of the claim allows
Offered(c, act) ==
    CASE act = "redact" -> TRUE
      [] act = "reject" -> Base(c) = "proposed"
      [] act = "confirm" -> \/ Base(c) \in {"proposed", "challenged"}
                            \/ Base(c) = "confirmed" /\ OverlaidAt(c, Here)
      [] OTHER -> FALSE

Reviewable(surface, c, act) ==
    /\ c \in Known /\ ~IsRedacted(c)
    /\ surface = "dashboard" => Offered(c, act)

ShowReview(p, surface, c, act) ==
    /\ ~screen[p].shown
    /\ Cardinality({q \in People : screen[q].shown}) < room.screens
    /\ Reviewable(surface, c, act)
    /\ screen' = [screen EXCEPT ![p] = [shown |-> TRUE, surface |-> surface, claim |-> c,
                                        act |-> act, context |-> Context(surface, c)]]
    /\ UNCHANGED <<ledger, room>>

\* The person turns away, or the decision is refused and its transaction undone
NoDecision(p) ==
    /\ screen[p].shown
    /\ screen' = [screen EXCEPT ![p] = NoScreen]
    /\ UNCHANGED <<ledger, room>>

\* The binding is checked against nothing but the claim's own text
DecidesUnbound(p, c, act) ==
    /\ screen[p].shown /\ screen[p].claim = c /\ screen[p].act = act
    /\ screen' = [screen EXCEPT ![p] = NoScreen]

Decides(p, c, act) ==
    /\ screen[p].shown /\ screen[p].claim = c /\ screen[p].act = act
    /\ screen[p].context = Context(screen[p].surface, c)
    /\ screen' = [screen EXCEPT ![p] = NoScreen]

\* Premises need only exist
ReadyOnSupport(c) == c \in room.demanding \/ cited[c] # 0 => Usable(c)

\* _ensure_confirmation_ready_locked
Ready(c) == /\ \A d \in premises : d.of = c => Full(d.on) = "confirmed"
            /\ c \in room.demanding \/ cited[c] # 0 => Usable(c)

\* A rival counts only while it is confirmed
RivalsStanding(c) ==
    {o \in Claims \ {c} :
        /\ Base(o) = "confirmed"
        /\ \E l \in LinksFrom(c, "supersedes") :
              \E m \in LinksFrom(o, "supersedes") : m.to = l.to}

\* _supersession_conflicts_locked
Rivals(c) ==
    {o \in Claims \ {c} :
        /\ EverConfirmed(o)
        /\ \E l \in LinksFrom(c, "supersedes") :
              \E m \in LinksFrom(o, "supersedes") : m.to = l.to}

Confirmable(c) ==
    /\ \/ Base(c) \in {"proposed", "challenged"}
       \/ Base(c) = "confirmed" /\ Full(c) = "needs_review"
    /\ Ready(c)

\* The predecessors' transitions, in the order of their links; one that is
\* superseded already is left as it is, one that ended otherwise undoes all
SupersededBy(order) ==
    [i \in DOMAIN order |-> Event(order[i].to, "superseded", "human", "claim_link", order[i])]

ConfirmClaim(p, c) ==
    LET old == {l \in LinksFrom(c, "supersedes") : Base(l.to) # "superseded"}
    IN /\ Decides(p, c, "confirm")
       /\ Confirmable(c) /\ Rivals(c) = {}
       /\ \A l \in old : "superseded" \in BaseTransitions(Base(l.to))
       /\ \E order \in SetToSeqs(old) :
             Record(<<ByPerson(c, "confirmed", "confirm", c)>> \o SupersededBy(order))
       /\ UNCHANGED <<links, retracted, premises, cited, gone, redacted, room>>

ConfirmLosesRace(p, c) ==
    /\ Decides(p, c, "confirm")
    /\ Confirmable(c) /\ Rivals(c) # {}
    /\ IF Full(c) = "needs_review"
       THEN UNCHANGED log
       ELSE Record(<<Event(c, "needs_review", "system", "conflict", Gesture("confirm", c))>>)
    /\ UNCHANGED <<links, retracted, premises, cited, gone, redacted, room>>

RejectClaim(p, c) ==
    /\ Decides(p, c, "reject")
    /\ Base(c) = "proposed"
    /\ Record(<<ByPerson(c, "rejected", "reject", c)>>)
    /\ ContentPolicy(c, Here + 1)
    /\ UNCHANGED <<links, retracted, premises, cited, gone, room>>

\* The negation is proposed in the same transaction unless it already is
RejectAsFalse(p, c, negation) ==
    LET new == New(negation)
        proposal == IF new THEN <<Proposal(negation)>> ELSE <<>>
    IN /\ c # negation
       /\ Decides(p, c, "reject_as_false")
       /\ Base(c) = "proposed"
       /\ new \/ Base(negation) = "proposed"
       /\ Ready(negation) /\ LinksFrom(negation, "supersedes") = {}
       /\ AddLink([Link(negation, "refutes", c) EXCEPT !.at = Here + Len(proposal)])
       /\ Record(proposal \o <<ByPerson(c, "rejected", "reject_as_false", negation),
                                ByPerson(negation, "confirmed", "reject_as_false", negation)>>)
       /\ ContentPolicy(c, Here + Len(proposal) + 2)
       /\ UNCHANGED <<retracted, premises, cited, gone, room>>

RedactClaim(p, c) ==
    /\ Decides(p, c, "redact")
    /\ ~IsRedacted(c)
    /\ redacted' = redacted \cup {[claim |-> c, at |-> Here, basis |-> "gesture"]}
    /\ IF Base(c) \in Terminal
       THEN UNCHANGED log
       ELSE Record(<<Event(c, "retracted", "human", "redaction", Gesture("redact", c))>>)
    /\ UNCHANGED <<links, retracted, premises, cited, gone, room>>

Operation ==
    \/ \E c \in Claims : \/ ProposeClaim(c) \/ AttachSupport(c) \/ RedactEvidence(c)
                         \/ MarkNeedsReview(c) \/ ExpireClaim(c)
    \/ \E c, d \in Claims : \/ AddDerivation(c, d) \/ SupersedeClaim(c, d)
                            \/ \E by \in {"agent", "human"} : ChallengeClaim(c, d, by)
    \/ \E l \in links : RetractLink(l)

Decision ==
    \E p \in People :
       \/ NoDecision(p)
       \/ \E c \in Claims :
             \/ \E s \in room.surfaces, act \in room.acts : ShowReview(p, s, c, act)
             \/ ConfirmClaim(p, c) \/ ConfirmLosesRace(p, c)
             \/ RejectClaim(p, c) \/ RedactClaim(p, c)
             \/ \E n \in Claims : RejectAsFalse(p, c, n)

Next == Operation \/ Decision

Spec == Init /\ [][Next]_vars

-----------------------------------------------------------------------------
\* What integrity_findings asks of an event, from the ledger before it

LinkStood(l, i) == /\ l \in links /\ l.at < i
                   /\ \A r \in retracted : r.link = l => r.at >= i
Supported(c, i) == cited[c] \in 1 .. i - 1 /\ gone[c] \notin 1 .. i - 1

AllowedStep(i) ==
    LET e == log[i]
        prior == BaseAt(e.claim, i - 1)
    IN IF e.status = "needs_review" THEN prior \notin Terminal
       ELSE \/ e.status \in BaseTransitions(prior)
            \/ OverlaidAt(e.claim, i - 1) /\ e.status = prior /\ ByGesture(e)

\* Who may append an event of this kind, and on what basis
Attested(e) ==
    /\ e.status \in {"confirmed", "rejected"} => ByGesture(e)
    /\ e.status = "proposed" => e.basis = "rule"
    /\ e.status = "expired" => e.by = "system" /\ e.basis = "rule"
    /\ e.status = "challenged" => e.by # "system" /\ e.basis = "conflict_link"
    /\ e.status = "superseded" => e.by = "human" /\ e.basis = "claim_link"
    /\ e.status = "retracted" => e.basis = "redaction"

\* The supports there were when it was confirmed; later ones say nothing of it
ConfirmedOnGrounds(i) ==
    log[i].status = "confirmed" =>
        LET c == log[i].claim
        IN /\ c \in room.demanding \/ cited[c] \in 1 .. i - 1 => Supported(c, i)
           /\ \A d \in premises :
                 d.of = c /\ d.at < i => ResolvedAt(d.on, i - 1) = "confirmed"

ChallengedOnGrounds(i) ==
    log[i].status = "challenged" =>
        LET l == log[i].ref
        IN /\ l.type = "conflicts_with" /\ l.to = log[i].claim /\ LinkStood(l, i)
           /\ BaseAt(l.from, i - 1) \notin Terminal \cup {"none"}
           /\ Supported(l.from, i)

SupersededOnGrounds(i) ==
    log[i].status = "superseded" =>
        LET l == log[i].ref
        IN /\ l.type = "supersedes" /\ l.to = log[i].claim /\ LinkStood(l, i)
           /\ \E j \in EventsOf(l.from, i - 1) :
                 log[j].status = "confirmed" /\ log[j].at = log[i].at

RedactedOnGrounds(r) ==
    /\ Base(r.claim) \in Terminal
    /\ r.basis = "policy" => /\ Base(r.claim) \in {"rejected", "expired"}
                             /\ ~EverConfirmed(r.claim)

SupersessionsInForce ==
    {l \in links : l.type = "supersedes" /\ ActiveLink(l) /\ EverConfirmed(l.from)}

\* The auditor of the store (queries.py integrity_findings) has nothing to
\* report of what follows, whatever agents, sweeps and people have done in
\* whatever order: each transition was allowed, came from whoever may make it
\* and had its grounds when it was appended, no authority has been withdrawn
\* since, and every supersession in force has ended its predecessor.  (Which
\* person made a gesture, and the gesture's own row, are not in the model.)
AuditIsClean ==
    /\ \A i \in 1 .. Here : /\ AllowedStep(i) /\ Attested(log[i])
                            /\ ConfirmedOnGrounds(i) /\ ChallengedOnGrounds(i)
                            /\ SupersededOnGrounds(i)
    /\ \A r \in redacted : RedactedOnGrounds(r)
    /\ \A r \in retracted : Authority(r.link.to) # r.link
    /\ \A l \in SupersessionsInForce :
          \E i \in EventsOf(l.to, Here) : log[i].status = "superseded" /\ log[i].ref = l
    /\ \A c \in Claims : Base(c) = "superseded" => \E l \in SupersessionsInForce : l.to = c

\* Following the links by which claims were superseded leads from each to one
\* claim that still speaks, never round in a circle, and no claim has two
\* successors that were ever confirmed (lifecycle.py: the conflicts are looked
\* for when a successor is confirmed, long after the links were proposed).
LineageHasOneHead ==
    /\ \A cycle \in (SUBSET Claims) \ {{}} :
          \E c \in cycle : Base(c) = "superseded" => Authority(c).from \notin cycle
    /\ \A l, m \in SupersessionsInForce : l.to = m.to => l.from = m.from

\* The writing side takes a premise for confirmed by its latest event, every
\* reader by base status and overlay: on that question the two always agree
\* (store.py _latest_status_locked, queries.py STATUS_RESOLUTION_CTE).
ResolversAgree ==
    \A c \in Claims : Full(c) = "confirmed" <=> ResolvedAt(c, Here) = "confirmed"

\* A claim is superseded only by a person deciding on its successor, and one
\* who decides on the dashboard was shown the link that ends the predecessor
\* (truth_surface.py binds the decision to the relations it displayed).
SupersededInSight ==
    [][\A c \in Claims :
         Base(c) # "superseded" /\ Base(c)' = "superseded" =>
             \E p \in People :
                 /\ screen[p].shown /\ ~screen[p].shown'
                 /\ screen[p].claim = Authority(c)'.from
                 /\ screen[p].surface = "dashboard" =>
                        Authority(c)' \in screen[p].context.links]_vars

=============================================================================
