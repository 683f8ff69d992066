-------------------------- MODULE TruthLedgerProofs --------------------------
(***************************************************************************)
(* Proofs about TruthLedger, for any finite set of claims and any people,  *)
(* rooms and policy.  IInv has two halves.  Every event was appended with  *)
(* its grounds and keeps them (EventsInv), since what grows behind it can  *)
(* not change how the ledger read at its place.  And the line of           *)
(* succession stands (LineInv): a supersession in force is the authority   *)
(* by which its predecessor ended, what is superseded is so by one in      *)
(* force, and a successor is superseded, if at all, after its predecessor  *)
(* was (RankInv).  A step either supersedes nothing (Quiet) or confirms a  *)
(* claim and ends its predecessors (Succeeds).                             *)
(***************************************************************************)
EXTENDS TruthLedger, FiniteSetTheorems, WellFoundedInduction, TLAPS

Statuses == {"proposed", "confirmed", "challenged", "needs_review"} \cup Terminal

LinkSet == [from : Claims, type : {"supersedes", "conflicts_with", "refutes"},
            to : Claims, at : Nat]

Gestures == [kind : {"confirm", "reject", "reject_as_false", "redact"}, subject : Claims]

Events == [claim : Claims, status : Statuses, by : {"agent", "human", "system"},
           basis : {"rule", "gesture", "conflict_link", "claim_link", "sweep", "conflict",
                    "redaction"},
           ref : LinkSet \cup Gestures \cup {NoRef}, at : Nat]

Types ==
    /\ log \in Seq(Events)
    /\ links \in SUBSET LinkSet /\ IsFiniteSet(links)
    /\ retracted \in SUBSET [link : links, at : Nat]
    /\ premises \in SUBSET [of : Claims, on : Claims, at : Nat]
    /\ cited \in [Claims -> Nat] /\ gone \in [Claims -> Nat]
    /\ redacted \in SUBSET [claim : Claims, at : Nat, basis : {"policy", "gesture"}]
    /\ screen = [p \in People |-> screen[p]]

\* A link, a citation and a premise name claims that were there before.
PastInv ==
    /\ \A l \in links : l.at <= Here /\ l.from # l.to
    /\ \A d \in premises : d.of # d.on
    /\ \A c \in Claims : cited[c] # 0 => cited[c] <= Here /\ Base(c) # "none"
    /\ \A p \in People : screen[p].shown => screen[p].claim \in Known

\* No claim is linked twice to the same predecessor at the same time.
DistinctInv ==
    \A l, m \in links :
        /\ l.type = "supersedes" /\ m.type = "supersedes"
        /\ l.from = m.from /\ l.to = m.to /\ ActiveLink(l) /\ ActiveLink(m)
        => l = m

\* Every transition was allowed and had its grounds when it was appended.
EventsInv ==
    \A i \in 1 .. Here : /\ AllowedStep(i) /\ ConfirmedOnGrounds(i)
                         /\ ChallengedOnGrounds(i) /\ SupersededOnGrounds(i)

\* Every event came from whoever may append it, on the basis it may have.
AttestedInv == \A i \in 1 .. Here : Attested(log[i])

\* A claim that is, or ended as, a proposal was never confirmed.
NeverInv ==
    \A c \in Claims : Base(c) \in {"none", "proposed", "rejected", "expired"} => ~EverConfirmed(c)

RedactedInv == \A r \in redacted : RedactedOnGrounds(r)

RetractedInv == \A r \in retracted : Authority(r.link.to) # r.link

\* A supersession in force has ended its predecessor, on its own authority, ...
ForceInv ==
    \A l \in SupersessionsInForce : Base(l.to) = "superseded" /\ Authority(l.to) = l

\* ... and what is superseded is so by one in force.
HeldInv ==
    \A c \in Claims :
        Base(c) = "superseded" => Authority(c) \in SupersessionsInForce /\ Authority(c).to = c

\* The place of a claim's last transition.
LastBase(c) == Latest({i \in EventsOf(c, Here) : log[i].status # "needs_review"})

\* A successor is superseded, if at all, after its predecessor was.
RankInv ==
    \A c \in Claims :
        Base(c) = "superseded" /\ Base(Authority(c).from) = "superseded" =>
            LastBase(c) < LastBase(Authority(c).from)

-----------------------------------------------------------------------------
(* Least and greatest.                                                     *)

LEMMA HasLeast == ASSUME NEW T \in SUBSET Nat, T # {} PROVE \E x \in T : \A y \in T : x <= y
<1>1. PICK x \in T : \A y \in T : ~(<<y, x>> \in OpToRel(<, Nat))
  BY NatLessThanWellFounded, WFMin
<1>2. \A y \in T : ~(y < x)
  BY <1>1 DEF OpToRel
<1>. QED
  BY <1>2

LEMMA HasGreatest ==
  ASSUME NEW n \in Nat, NEW T \in SUBSET (0 .. n), T # {}
  PROVE  \E x \in T : \A y \in T : y <= x
<1>. DEFINE U == {x \in Nat : n - x \in T}
<1>1. PICK t \in T : TRUE
  OBVIOUS
<1>2. t \in 0 .. n /\ n - t \in Nat /\ n - (n - t) = t
  OBVIOUS
<1>3. U # {} /\ U \in SUBSET Nat
  BY <1>1, <1>2
<1>4. PICK u \in U : \A v \in U : u <= v
  BY <1>3, HasLeast
<1>5. n - u \in T /\ u \in Nat
  BY <1>4
<1>6. ASSUME NEW y \in T PROVE y <= n - u
  <2>1. y \in 0 .. n /\ n - y \in Nat /\ n - (n - y) = y
    OBVIOUS
  <2>2. n - y \in U
    BY <2>1
  <2>3. u <= n - y
    BY <2>2, <1>4
  <2>. QED
    BY <2>1, <2>3, <1>5
<1>. QED
  BY <1>5, <1>6

LEMMA LatestOf ==
  ASSUME NEW n \in Nat, NEW T \in SUBSET (1 .. n), T # {}
  PROVE  Latest(T) \in T /\ \A y \in T : y <= Latest(T)
<1>1. T \in SUBSET (0 .. n)
  OBVIOUS
<1>2. \E x \in T : \A y \in T : y <= x
  BY <1>1, HasGreatest
<1>. QED
  BY <1>2 DEF Latest

LEMMA LatestIs ==
  ASSUME NEW T \in SUBSET Nat, NEW x \in T, \A y \in T : y <= x
  PROVE  Latest(T) = x
<1>1. \A z \in T : (\A y \in T : y <= z) => z = x
  OBVIOUS
<1>. QED
  BY <1>1 DEF Latest

-----------------------------------------------------------------------------
(* Reading the ledger.                                                     *)

Bases(c, n) == {i \in EventsOf(c, n) : log[i].status # "needs_review"}

LEMMA Logged ==
  Types => /\ Here \in Nat
           /\ \A i \in 1 .. Here : /\ log[i] \in Events /\ log[i].claim \in Claims
                                   /\ log[i].status \in Statuses
<1>. SUFFICES ASSUME Types PROVE /\ Here \in Nat
           /\ \A i \in 1 .. Here : /\ log[i] \in Events /\ log[i].claim \in Claims
                                   /\ log[i].status \in Statuses
  OBVIOUS
<1>1. log \in Seq(Events)
  BY Zenon DEF Types
<1>2. Here \in Nat /\ \A i \in 1 .. Here : log[i] \in Events
  BY <1>1 DEF Here
<1>3. \A e \in Events : e.claim \in Claims /\ e.status \in Statuses
  BY DEF Events
<1>. QED
  BY <1>2, <1>3

LEMMA PlacesOf ==
  \A c \in Claims, n \in Nat : EventsOf(c, n) \in SUBSET (1 .. n) /\ Bases(c, n) \in SUBSET (1 .. n)
  BY DEF EventsOf, Bases

\* What is read at one place is read at another if no event came between.
LEMMA SameReading ==
  \A c \in Claims, m, n \in Nat : EventsOf(c, m) = EventsOf(c, n) =>
      /\ StatusAt(c, m) = StatusAt(c, n) /\ BaseAt(c, m) = BaseAt(c, n)
      /\ OverlaidAt(c, m) = OverlaidAt(c, n) /\ ResolvedAt(c, m) = ResolvedAt(c, n)
  BY DEF StatusAt, BaseAt, OverlaidAt, ResolvedAt

LEMMA Untouched ==
  Types => \A c \in Claims, m, n \in 0 .. Here :
      m <= n /\ (\A j \in (m + 1) .. n : log[j].claim # c) =>
          /\ StatusAt(c, n) = StatusAt(c, m) /\ BaseAt(c, n) = BaseAt(c, m)
          /\ ResolvedAt(c, n) = ResolvedAt(c, m)
<1>. SUFFICES ASSUME Types, NEW c \in Claims, NEW m \in 0 .. Here, NEW n \in 0 .. Here, m <= n,
                     \A j \in (m + 1) .. n : log[j].claim # c
              PROVE  EventsOf(c, m) = EventsOf(c, n)
  BY SameReading, Logged
<1>. QED
  BY Logged DEF EventsOf

LEMMA Touched ==
  Types => \A c \in Claims, n \in 1 .. Here : log[n].claim = c =>
      /\ StatusAt(c, n) = log[n].status
      /\ log[n].status # "needs_review" => BaseAt(c, n) = log[n].status
<1>. SUFFICES ASSUME Types, NEW c \in Claims, NEW n \in 1 .. Here, log[n].claim = c
              PROVE  /\ StatusAt(c, n) = log[n].status
                     /\ log[n].status # "needs_review" => BaseAt(c, n) = log[n].status
  OBVIOUS
<1>1. n \in EventsOf(c, n) /\ EventsOf(c, n) \in SUBSET Nat /\ \A y \in EventsOf(c, n) : y <= n
  BY Logged DEF EventsOf
<1>2. Latest(EventsOf(c, n)) = n
  BY <1>1, LatestIs
<1>3. StatusAt(c, n) = log[n].status
  BY <1>1, <1>2 DEF StatusAt
<1>4. ASSUME log[n].status # "needs_review" PROVE BaseAt(c, n) = log[n].status
  <2>1. /\ n \in Bases(c, n) /\ Bases(c, n) \in SUBSET Nat
        /\ \A y \in Bases(c, n) : y <= n
    BY <1>1, <1>4 DEF Bases
  <2>2. Latest(Bases(c, n)) = n
    BY <2>1, LatestIs
  <2>. QED
    BY <2>1, <2>2 DEF BaseAt, Bases
<1>. QED
  BY <1>3, <1>4

\* The ledger of a later state begins with this one.
Extends == Here' \in Nat /\ Here <= Here' /\ \A i \in 1 .. Here : log'[i] = log[i]

LEMMA Settled ==
  ASSUME Types, Extends, NEW c \in Claims, NEW n \in 0 .. Here
  PROVE  /\ EventsOf(c, n)' = EventsOf(c, n) /\ Bases(c, n)' = Bases(c, n)
         /\ StatusAt(c, n)' = StatusAt(c, n) /\ BaseAt(c, n)' = BaseAt(c, n)
         /\ OverlaidAt(c, n)' = OverlaidAt(c, n) /\ ResolvedAt(c, n)' = ResolvedAt(c, n)
<1>1. n \in Nat /\ \A i \in 1 .. n : log'[i] = log[i]
  BY Logged DEF Extends
<1>2. EventsOf(c, n)' = EventsOf(c, n)
  BY <1>1 DEF EventsOf
<1>3. EventsOf(c, n) \in SUBSET (1 .. n) /\ Bases(c, n) \in SUBSET (1 .. n)
  BY <1>1, PlacesOf
<1>4. Bases(c, n)' = Bases(c, n)
  BY <1>1, <1>2, <1>3 DEF Bases
<1>5. EventsOf(c, n) # {} => Latest(EventsOf(c, n)) \in 1 .. n
  BY <1>1, <1>3, LatestOf
<1>6. Bases(c, n) # {} => Latest(Bases(c, n)) \in 1 .. n
  BY <1>1, <1>3, LatestOf
<1>7. StatusAt(c, n)' = StatusAt(c, n)
  BY <1>1, <1>2, <1>5 DEF StatusAt
<1>8. BaseAt(c, n)' = BaseAt(c, n)
  BY <1>1, <1>4, <1>6 DEF BaseAt, Bases
<1>9. OverlaidAt(c, n)' = OverlaidAt(c, n)
  BY <1>1, <1>2, <1>3, <1>8 DEF OverlaidAt, ByGesture
<1>. QED
  BY <1>2, <1>4, <1>7, <1>8, <1>9 DEF ResolvedAt

\* All that is read of a claim is read off its transitions.
ReadByBases ==
    \A d \in Claims :
      /\ Base(d) = IF Bases(d, Here) = {} THEN "none" ELSE log[LastBase(d)].status
      /\ Authority(d) = IF Bases(d, Here) = {} THEN NoRef ELSE log[LastBase(d)].ref
      /\ LastBase(d) = Latest(Bases(d, Here))
      /\ EverConfirmed(d) <=> \E i \in Bases(d, Here) : log[i].status = "confirmed"

LEMMA ByBases == ReadByBases
  BY DEF ReadByBases, Base, BaseAt, Authority, LastBase, EverConfirmed, Bases

\* A claim to whose history a step adds no transition.
Same(c) == /\ Base(c)' = Base(c) /\ (EverConfirmed(c)' <=> EverConfirmed(c))
           /\ Authority(c)' = Authority(c) /\ LastBase(c)' = LastBase(c)

LEMMA ClaimStays ==
  ASSUME Types, Types', Extends, NEW c \in Claims,
         \A j \in (Here + 1) .. Here' : log'[j].claim # c \/ log'[j].status = "needs_review"
  PROVE  Same(c) /\ Bases(c, Here)' = Bases(c, Here)
<1>1. Here \in Nat /\ Here' \in Nat /\ Here <= Here' /\ \A i \in 1 .. Here : log'[i] = log[i]
  BY Logged DEF Extends
<1>2. Bases(c, Here)' = Bases(c, Here)
  BY <1>1 DEF Bases, EventsOf
<1>3. Bases(c, Here) \in SUBSET (1 .. Here)
  BY <1>1, PlacesOf
<1>4. Bases(c, Here) # {} => Latest(Bases(c, Here)) \in 1 .. Here
  BY <1>1, <1>3, LatestOf
<1>5. ReadByBases'
  BY ByBases, PTL
<1>6. LastBase(c)' = LastBase(c)
  BY <1>2, <1>5, ByBases DEF ReadByBases
<1>7. Bases(c, Here) # {} => log'[LastBase(c)] = log[LastBase(c)]
  BY <1>1, <1>4, ByBases DEF ReadByBases
<1>8. Base(c)' = Base(c) /\ Authority(c)' = Authority(c)
  BY <1>2, <1>5, <1>6, <1>7, ByBases DEF ReadByBases
<1>9. EverConfirmed(c)' <=> EverConfirmed(c)
  BY <1>1, <1>2, <1>3, <1>5, ByBases DEF ReadByBases
<1>. QED
  BY <1>2, <1>6, <1>8, <1>9 DEF Same

\* A claim whose last transition a step adds, at place k.
LEMMA ClaimMoves ==
  ASSUME Types, Types', Extends, NEW c \in Claims, NEW k \in (Here + 1) .. Here',
         log'[k].claim = c, log'[k].status # "needs_review",
         \A j \in (k + 1) .. Here' : log'[j].claim # c
  PROVE  /\ Base(c)' = log'[k].status /\ Full(c)' = log'[k].status
         /\ Authority(c)' = log'[k].ref /\ LastBase(c)' = k
         /\ EverConfirmed(c)' <=>
               \/ EverConfirmed(c)
               \/ \E j \in (Here + 1) .. k : log'[j].claim = c /\ log'[j].status = "confirmed"
<1>1. Here \in Nat /\ Here' \in Nat /\ Here <= Here' /\ \A i \in 1 .. Here : log'[i] = log[i]
  BY Logged DEF Extends
<1>2. k \in Nat /\ 1 <= k /\ k <= Here'
  BY <1>1
<1>3. ReadByBases'
  BY ByBases, PTL
<1>4. Bases(c, Here)' = {i \in 1 .. Here' : log'[i].claim = c /\ log'[i].status # "needs_review"}
  BY DEF Bases, EventsOf
<1>5. /\ k \in Bases(c, Here)' /\ Bases(c, Here)' \in SUBSET Nat
      /\ \A y \in Bases(c, Here)' : y <= k
  BY <1>1, <1>2, <1>4
<1>6. LastBase(c)' = k
  BY <1>3, <1>5, LatestIs DEF ReadByBases
<1>7. Base(c)' = log'[k].status /\ Authority(c)' = log'[k].ref
  BY <1>3, <1>5, <1>6 DEF ReadByBases
<1>8. Full(c)' = log'[k].status
  <2>1. EventsOf(c, Here)' = {i \in 1 .. Here' : log'[i].claim = c}
    BY DEF EventsOf
  <2>2. /\ k \in EventsOf(c, Here)' /\ EventsOf(c, Here)' \in SUBSET Nat
        /\ \A y \in EventsOf(c, Here)' : y <= k
    BY <1>1, <1>2, <2>1
  <2>3. Latest(EventsOf(c, Here)') = k
    BY <2>2, LatestIs
  <2>. QED
    BY <2>2, <2>3 DEF Full, StatusAt
<1>9. EverConfirmed(c)' <=>
         \/ EverConfirmed(c)
         \/ \E j \in (Here + 1) .. k : log'[j].claim = c /\ log'[j].status = "confirmed"
  <2>1. Bases(c, Here) = {i \in 1 .. Here : log[i].claim = c /\ log[i].status # "needs_review"}
    BY DEF Bases, EventsOf
  <2>2. ASSUME EverConfirmed(c)' PROVE \/ EverConfirmed(c)
               \/ \E j \in (Here + 1) .. k : log'[j].claim = c /\ log'[j].status = "confirmed"
    <3>1. PICK i \in Bases(c, Here)' : log'[i].status = "confirmed"
      BY <1>3, <2>2 DEF ReadByBases
    <3>2. i \in 1 .. Here' /\ i <= k /\ log'[i].claim = c
      BY <3>1, <1>4, <1>5
    <3>3. CASE i <= Here
      <4>1. i \in Bases(c, Here) /\ log[i].status = "confirmed"
        BY <1>1, <2>1, <3>1, <3>2, <3>3
      <4>. QED
        BY <4>1, ByBases DEF ReadByBases
    <3>4. CASE ~(i <= Here)
      BY <1>1, <1>2, <3>1, <3>2, <3>4
    <3>. QED
      BY <3>3, <3>4
  <2>3. ASSUME EverConfirmed(c) PROVE EverConfirmed(c)'
    <3>1. PICK i \in Bases(c, Here) : log[i].status = "confirmed"
      BY <2>3, ByBases DEF ReadByBases
    <3>2. i \in Bases(c, Here)' /\ log'[i].status = "confirmed"
      BY <1>1, <1>4, <2>1, <3>1
    <3>. QED
      BY <3>2, <1>3 DEF ReadByBases
  <2>4. ASSUME NEW j \in (Here + 1) .. k, log'[j].claim = c, log'[j].status = "confirmed"
        PROVE EverConfirmed(c)'
    <3>1. j \in Bases(c, Here)'
      BY <1>1, <1>2, <1>4, <2>4
    <3>. QED
      BY <3>1, <2>4, <1>3 DEF ReadByBases
  <2>. QED
    BY <2>2, <2>3, <2>4
<1>. QED
  BY <1>6, <1>7, <1>8, <1>9

-----------------------------------------------------------------------------
(* What was appended with its grounds keeps them.                          *)

\* Every step: nothing is taken back, and what is added is placed here.
Grows ==
    /\ Extends
    /\ links \subseteq links'
    /\ \A r \in retracted' : r \in retracted \/ r.at = Here
    /\ \A d \in premises' : d \in premises \/ d.at = Here
    /\ \A c \in Claims : cited'[c] = cited[c] \/ (cited[c] = 0 /\ cited'[c] = Here)
    /\ \A c \in Claims : gone'[c] = gone[c] \/ (gone[c] = 0 /\ gone'[c] = Here)
    /\ UNCHANGED room

LEMMA LinkStoodStays ==
  ASSUME Types, Grows, NEW i \in 1 .. Here, NEW l, LinkStood(l, i)
  PROVE  LinkStood(l, i)'
<1>1. i <= Here /\ Here \in Nat /\ i \in Nat
  BY Logged
<1>2. \A r \in retracted' : r.link = l => r.at >= i
  BY <1>1 DEF Grows, LinkStood
<1>. QED
  BY <1>2 DEF Grows, LinkStood

LEMMA SupportedStays ==
  ASSUME Types, Grows, NEW i \in 1 .. Here, NEW c \in Claims
  PROVE  /\ Supported(c, i) => Supported(c, i)'
         /\ cited'[c] \in 1 .. i - 1 => cited[c] = cited'[c]
<1>1. /\ i <= Here /\ Here \in Nat /\ i \in Nat
      /\ cited[c] \in Nat /\ gone[c] \in Nat
  BY Logged DEF Types
<1>2. Here \notin 1 .. i - 1 /\ 0 \notin 1 .. i - 1
  BY <1>1
<1>3. /\ cited'[c] = cited[c] \/ (cited[c] = 0 /\ cited'[c] = Here)
      /\ gone'[c] = gone[c] \/ (gone[c] = 0 /\ gone'[c] = Here)
  BY DEF Grows
<1>. QED
  BY <1>2, <1>3, Zenon DEF Supported

LEMMA OldEvents ==
  ASSUME Types, Grows, EventsInv, NEW i \in 1 .. Here
  PROVE  /\ AllowedStep(i)' /\ ConfirmedOnGrounds(i)'
         /\ ChallengedOnGrounds(i)' /\ SupersededOnGrounds(i)'
<1>1. /\ Here \in Nat /\ log'[i] = log[i] /\ log[i] \in Events
      /\ Extends /\ log[i].claim \in Claims /\ (i - 1) \in 0 .. Here
  BY Logged DEF Grows, Extends
<1>2. /\ AllowedStep(i) /\ ConfirmedOnGrounds(i)
      /\ ChallengedOnGrounds(i) /\ SupersededOnGrounds(i)
  BY DEF EventsInv
<1>3. \A c \in Claims :
        /\ EventsOf(c, i - 1)' = EventsOf(c, i - 1) /\ BaseAt(c, i - 1)' = BaseAt(c, i - 1)
        /\ OverlaidAt(c, i - 1)' = OverlaidAt(c, i - 1)
        /\ ResolvedAt(c, i - 1)' = ResolvedAt(c, i - 1)
  BY <1>1, Settled
<1>4. AllowedStep(i)'
  BY <1>1, <1>2, <1>3 DEF AllowedStep, ByGesture
<1>5. ConfirmedOnGrounds(i)'
  <2>. SUFFICES ASSUME log[i].status = "confirmed"
                PROVE  LET c == log[i].claim
                       IN /\ (c \in room.demanding \/ cited[c] \in 1 .. i - 1 => Supported(c, i))'
                          /\ \A d \in premises' :
                                d.of = c /\ d.at < i => ResolvedAt(d.on, i - 1)' = "confirmed"
    BY <1>1 DEF ConfirmedOnGrounds
  <2>. DEFINE c == log[i].claim
  <2>1. (c \in room.demanding \/ cited[c] \in 1 .. i - 1 => Supported(c, i))'
    <3>1. c \in room.demanding \/ cited[c] \in 1 .. i - 1 => Supported(c, i)
      BY <1>2 DEF ConfirmedOnGrounds
    <3>2. c' = c /\ room' = room
      BY <1>1 DEF Grows
    <3>. QED
      BY <1>1, <3>1, <3>2, SupportedStays
  <2>2. ASSUME NEW d \in premises', d.of = c, d.at < i
        PROVE  ResolvedAt(d.on, i - 1)' = "confirmed"
    <3>1. d \in premises
      BY <1>1, <2>2 DEF Grows
    <3>2. ResolvedAt(d.on, i - 1) = "confirmed" /\ d.on \in Claims
      BY <1>2, <2>2, <3>1 DEF ConfirmedOnGrounds, Types
    <3>. QED
      BY <1>3, <3>2
  <2>. QED
    BY <2>1, <2>2
<1>6. PICK l : l = log[i].ref
  OBVIOUS
<1>7. ChallengedOnGrounds(i)'
  <2>. SUFFICES ASSUME log[i].status = "challenged"
                PROVE  /\ l.type = "conflicts_with" /\ l.to = log[i].claim /\ LinkStood(l, i)'
                       /\ BaseAt(l.from, i - 1)' \notin Terminal \cup {"none"}
                       /\ Supported(l.from, i)'
    BY <1>1, <1>6 DEF ChallengedOnGrounds
  <2>1. /\ l.type = "conflicts_with" /\ l.to = log[i].claim /\ LinkStood(l, i)
        /\ BaseAt(l.from, i - 1) \notin Terminal \cup {"none"}
        /\ Supported(l.from, i)
    BY <1>2, <1>6 DEF ChallengedOnGrounds
  <2>2. l.from \in Claims
    BY <2>1 DEF LinkStood, Types, LinkSet
  <2>3. LinkStood(l, i)' /\ Supported(l.from, i)' /\ BaseAt(l.from, i - 1)' = BaseAt(l.from, i - 1)
    BY <1>3, <2>1, <2>2, LinkStoodStays, SupportedStays
  <2>. QED
    BY <2>1, <2>3
<1>8. SupersededOnGrounds(i)'
  <2>. SUFFICES ASSUME log[i].status = "superseded"
                PROVE  /\ l.type = "supersedes" /\ l.to = log[i].claim /\ LinkStood(l, i)'
                       /\ \E j \in EventsOf(l.from, i - 1)' :
                             log'[j].status = "confirmed" /\ log'[j].at = log[i].at
    BY <1>1, <1>6 DEF SupersededOnGrounds
  <2>1. /\ l.type = "supersedes" /\ l.to = log[i].claim /\ LinkStood(l, i)
        /\ \E j \in EventsOf(l.from, i - 1) :
              log[j].status = "confirmed" /\ log[j].at = log[i].at
    BY <1>2, <1>6 DEF SupersededOnGrounds
  <2>2. l.from \in Claims
    BY <2>1 DEF LinkStood, Types, LinkSet
  <2>3. PICK j \in EventsOf(l.from, i - 1) : log[j].status = "confirmed" /\ log[j].at = log[i].at
    BY <2>1
  <2>4. j \in 1 .. Here
    BY <1>1, <2>3 DEF EventsOf
  <2>5. log'[j] = log[j] /\ j \in EventsOf(l.from, i - 1)'
    BY <1>1, <1>3, <2>2, <2>3, <2>4 DEF Extends
  <2>6. LinkStood(l, i)'
    BY <2>1, LinkStoodStays
  <2>. QED
    BY <2>1, <2>3, <2>5, <2>6
<1>. QED
  BY <1>4, <1>5, <1>7, <1>8

-----------------------------------------------------------------------------
(* What a step keeps that supersedes nothing.                              *)

\* A transition that ends no claim as superseded and rests on no dead link.
Moves(c) ==
    /\ Base(c) \notin Terminal /\ Base(c)' \notin {"none", "superseded"}
    /\ Base(c)' \in {"proposed", "rejected", "expired"} => ~EverConfirmed(c)'
    /\ EverConfirmed(c) => EverConfirmed(c)'
    /\ \A r \in retracted' : Authority(c)' # r.link

Quiet ==
    /\ \A c \in Claims : Same(c) \/ Moves(c)
    /\ SupersessionsInForce' \subseteq SupersessionsInForce
    /\ \A l \in SupersessionsInForce \ SupersessionsInForce' : Authority(l.to) # l
    /\ \A r \in retracted' \ retracted : Authority(r.link.to) # r.link
    /\ \A r \in redacted' \ redacted : RedactedOnGrounds(r)'

LineInv == NeverInv /\ RedactedInv /\ RetractedInv /\ ForceInv /\ HeldInv /\ RankInv

LEMMA Forces ==
  ASSUME Types
  PROVE  SupersessionsInForce \subseteq LinkSet
  BY DEF SupersessionsInForce, Types

LEMMA QuietKeepsLine ==
  ASSUME Types, Types', LineInv, Quiet
  PROVE  LineInv'
<1>. USE DEF Quiet
<1>1. \A c \in Claims : Base(c) \in Terminal => Same(c)
  BY DEF Moves
<1>2. "superseded" \in Terminal
  BY DEF Terminal
<1>3. NeverInv'
  <2>. SUFFICES ASSUME NEW c \in Claims,
                       Base(c)' \in {"none", "proposed", "rejected", "expired"}
                PROVE  ~EverConfirmed(c)'
    BY DEF NeverInv
  <2>. QED
    BY DEF LineInv, NeverInv, Same, Moves
<1>4. RedactedInv'
  <2>. SUFFICES ASSUME NEW r \in redacted' PROVE RedactedOnGrounds(r)'
    BY DEF RedactedInv
  <2>1. CASE r \in redacted
    <3>1. RedactedOnGrounds(r) /\ r.claim \in Claims
      BY <2>1 DEF LineInv, RedactedInv, Types
    <3>2. Same(r.claim)
      BY <1>1, <3>1 DEF RedactedOnGrounds
    <3>. QED
      BY <3>1, <3>2 DEF RedactedOnGrounds, Same
  <2>. QED
    BY <2>1
<1>5. RetractedInv'
  <2>. SUFFICES ASSUME NEW r \in retracted' PROVE Authority(r.link.to)' # r.link
    BY DEF RetractedInv
  <2>1. r.link.to \in Claims
    <3>1. r.link \in links' /\ links' \in SUBSET LinkSet
      BY DEF Types
    <3>. QED
      BY <3>1 DEF LinkSet
  <2>2. Authority(r.link.to) # r.link
    BY DEF LineInv, RetractedInv
  <2>. QED
    BY <2>1, <2>2 DEF Same, Moves
<1>6. ForceInv'
  <2>. SUFFICES ASSUME NEW l \in SupersessionsInForce'
                PROVE  Base(l.to)' = "superseded" /\ Authority(l.to)' = l
    BY DEF ForceInv
  <2>1. Base(l.to) = "superseded" /\ Authority(l.to) = l /\ l.to \in Claims
    BY Forces DEF LineInv, ForceInv, LinkSet
  <2>2. Same(l.to)
    BY <1>1, <1>2, <2>1
  <2>. QED
    BY <2>1, <2>2 DEF Same
<1>7. \A c \in Claims : Base(c)' = "superseded" => Same(c)
  BY DEF Moves
<1>8. HeldInv'
  <2>. SUFFICES ASSUME NEW c \in Claims, Base(c)' = "superseded"
                PROVE  Authority(c)' \in SupersessionsInForce' /\ Authority(c)'.to = c
    BY DEF HeldInv
  <2>1. Same(c) /\ Base(c) = "superseded"
    BY <1>7 DEF Same
  <2>2. Authority(c) \in SupersessionsInForce /\ Authority(c).to = c
    BY <2>1 DEF LineInv, HeldInv
  <2>3. Authority(c) \in SupersessionsInForce'
    BY <2>2
  <2>. QED
    BY <2>1, <2>2, <2>3 DEF Same
<1>9. RankInv'
  <2>. SUFFICES ASSUME NEW c \in Claims, Base(c)' = "superseded",
                       Base(Authority(c).from)' = "superseded"
                PROVE  LastBase(c)' < LastBase(Authority(c).from)'
    BY DEF RankInv
  <2>1. Same(c) /\ Base(c) = "superseded"
    BY <1>7 DEF Same
  <2>2. PICK d : d = Authority(c).from
    OBVIOUS
  <2>3. d \in Claims
    BY <2>1, <2>2, Forces DEF LineInv, HeldInv, LinkSet
  <2>4. Authority(c)' = Authority(c)
    BY <2>1 DEF Same
  <2>5. Base(d)' = "superseded"
    BY <2>2, <2>4
  <2>6. Same(d)
    BY <1>7, <2>3, <2>5
  <2>7. LastBase(c) < LastBase(d)
    BY <2>1, <2>2, <2>5, <2>6 DEF LineInv, RankInv, Same
  <2>8. LastBase(c)' < LastBase(d)'
    BY <2>1, <2>6, <2>7 DEF Same
  <2>. QED
    BY <2>2, <2>4, <2>8
<1>. QED
  BY <1>3, <1>4, <1>5, <1>6, <1>8, <1>9 DEF LineInv

-----------------------------------------------------------------------------
(* The invariant, and the steps that supersede nothing.                    *)

IInv == Types /\ PastInv /\ DistinctInv /\ EventsInv /\ AttestedInv /\ LineInv

\* What holds of the events a step appends.
NewEvents ==
    \A i \in (Here + 1) .. Here' :
        /\ AllowedStep(i)' /\ ConfirmedOnGrounds(i)'
        /\ ChallengedOnGrounds(i)' /\ SupersededOnGrounds(i)'
        /\ Attested(log'[i])

\* What holds of everything else it adds.
NewEntries ==
    /\ retracted \subseteq retracted'
    /\ \A l, m \in links' \ links : l = m
    /\ \A l \in links' \ links :
          /\ l.at <= Here' /\ l.from # l.to
          /\ l.type = "supersedes" =>
                \A m \in LinksFrom(l.from, "supersedes") : m.to # l.to
    /\ \A d \in premises' \ premises : d.of # d.on
    /\ \A c \in Claims : cited'[c] # cited[c] => Base(c) # "none"
    /\ \A p \in People : \/ screen'[p] = screen[p]
                         \/ screen'[p].shown => screen'[p].claim \in Known

LEMMA EventsHold ==
  ASSUME Types, Grows, EventsInv, AttestedInv, NewEvents
  PROVE  EventsInv' /\ AttestedInv'
<1>1. Here \in Nat /\ Here' \in Nat /\ \A i \in 1 .. Here : log'[i] = log[i]
  BY Logged DEF Grows, Extends
<1>2. EventsInv'
  <2>. SUFFICES ASSUME NEW i \in 1 .. Here'
                PROVE  /\ AllowedStep(i)' /\ ConfirmedOnGrounds(i)'
                       /\ ChallengedOnGrounds(i)' /\ SupersededOnGrounds(i)'
    BY DEF EventsInv
  <2>1. CASE i <= Here
    <3>1. i \in 1 .. Here
      BY <1>1, <2>1
    <3>. QED
      BY <3>1, OldEvents
  <2>2. CASE ~(i <= Here)
    <3>1. i \in (Here + 1) .. Here'
      BY <1>1, <2>2
    <3>. QED
      BY <3>1 DEF NewEvents
  <2>. QED
    BY <2>1, <2>2
<1>3. AttestedInv'
  <2>. SUFFICES ASSUME NEW i \in 1 .. Here' PROVE Attested(log'[i])
    BY DEF AttestedInv, Attested, ByGesture
  <2>1. i \in 1 .. Here \/ i \in (Here + 1) .. Here'
    BY <1>1
  <2>. QED
    BY <1>1, <2>1 DEF AttestedInv, NewEvents
<1>. QED
  BY <1>2, <1>3

LEMMA EntriesHold ==
  ASSUME Types, Types', Grows, PastInv, DistinctInv, NewEntries,
         \A c \in Claims : Base(c)' = Base(c) \/ Base(c)' # "none"
  PROVE  PastInv' /\ DistinctInv'
<1>1. Here \in Nat /\ Here' \in Nat /\ Here <= Here'
  BY Logged DEF Grows, Extends
<1>2. \A c \in Claims : Base(c) # "none" => Base(c)' # "none"
  OBVIOUS
<1>3. (\A l \in links : l.at <= Here /\ l.from # l.to)'
  <2>. SUFFICES ASSUME NEW l \in links' PROVE l.at <= Here' /\ l.from # l.to
    OBVIOUS
  <2>1. CASE l \in links
    <3>1. l.at <= Here /\ l.at \in Nat /\ l.from # l.to
      BY <2>1 DEF PastInv, Types, LinkSet
    <3>. QED
      BY <1>1, <3>1
  <2>. QED
    BY <2>1 DEF NewEntries
<1>4. (\A d \in premises : d.of # d.on)'
  BY DEF PastInv, NewEntries
<1>5. (\A c \in Claims : cited[c] # 0 => cited[c] <= Here /\ Base(c) # "none")'
  <2>. SUFFICES ASSUME NEW c \in Claims, cited'[c] # 0
                PROVE  cited'[c] <= Here' /\ Base(c)' # "none"
    OBVIOUS
  <2>1. CASE cited'[c] = cited[c]
    <3>1. cited[c] <= Here /\ cited[c] \in Nat /\ Base(c) # "none"
      BY <2>1 DEF PastInv, Types
    <3>. QED
      BY <1>1, <1>2, <2>1, <3>1
  <2>2. CASE cited'[c] # cited[c]
    <3>1. cited'[c] = Here /\ Base(c) # "none"
      BY <2>2 DEF Grows, NewEntries
    <3>. QED
      BY <1>1, <1>2, <3>1
  <2>. QED
    BY <2>1, <2>2
<1>6. (\A p \in People : screen[p].shown => screen[p].claim \in Known)'
  <2>. SUFFICES ASSUME NEW p \in People, screen'[p].shown PROVE screen'[p].claim \in Known'
    OBVIOUS
  <2>1. screen'[p].claim \in Known
    BY DEF PastInv, NewEntries
  <2>. QED
    BY <1>2, <2>1 DEF Known
<1>7. DistinctInv'
  <2>. SUFFICES ASSUME NEW l \in links', NEW m \in links',
                       l.type = "supersedes" /\ m.type = "supersedes"
                         /\ l.from = m.from /\ l.to = m.to /\ ActiveLink(l)' /\ ActiveLink(m)'
                PROVE  l = m
    BY DEF DistinctInv
  <2>1. ActiveLink(l) /\ ActiveLink(m)
    BY DEF NewEntries, ActiveLink
  <2>2. CASE l \in links /\ m \in links
    BY <2>1, <2>2 DEF DistinctInv
  <2>3. CASE l \notin links /\ m \notin links
    BY <2>3 DEF NewEntries
  <2>4. CASE l \notin links /\ m \in links
    BY <2>1, <2>4 DEF NewEntries, LinksFrom
  <2>5. CASE l \in links /\ m \notin links
    BY <2>1, <2>5 DEF NewEntries, LinksFrom
  <2>. QED
    BY <2>2, <2>3, <2>4, <2>5
<1>. QED
  BY <1>3, <1>4, <1>5, <1>6, <1>7 DEF PastInv

LEMMA QuietStep ==
  ASSUME IInv, Types', Grows, Quiet, NewEvents, NewEntries
  PROVE  IInv' /\ Quiet
<1>1. \A c \in Claims : Base(c)' = Base(c) \/ Base(c)' # "none"
  BY DEF Quiet, Same, Moves
<1>2. LineInv' /\ EventsInv' /\ AttestedInv' /\ PastInv' /\ DistinctInv'
  BY <1>1, QuietKeepsLine, EventsHold, EntriesHold DEF IInv
<1>. QED
  BY <1>2 DEF IInv

\* A step that leaves the log alone appends nothing and moves no claim.
LEMMA LogStays ==
  ASSUME Types, Types', log' = log
  PROVE  Extends /\ Here' = Here /\ NewEvents /\ \A c \in Claims : Same(c)
<1>1. Here' = Here /\ Here \in Nat
  BY Logged DEF Here
<1>2. Extends /\ (Here + 1) .. Here' = {}
  BY <1>1 DEF Extends
<1>3. \A c \in Claims : Same(c)
  BY <1>2, ClaimStays
<1>. QED
  BY <1>1, <1>2, <1>3 DEF NewEvents

\* A single event moves at most the claim it is about.
LEMMA LogGrowsByOne ==
  ASSUME Types, Types', NEW e \in Events, log' = log \o <<e>>
  PROVE  /\ Extends /\ Here' = Here + 1 /\ log'[Here + 1] = e
         /\ \A c \in Claims : c # e.claim \/ e.status = "needs_review" => Same(c)
         /\ e.status # "needs_review" =>
               /\ Base(e.claim)' = e.status /\ Authority(e.claim)' = e.ref
               /\ EverConfirmed(e.claim)' <=> EverConfirmed(e.claim) \/ e.status = "confirmed"
<1>1. Here \in Nat /\ e.claim \in Claims /\ log \in Seq(Events)
  BY Logged DEF Events, Types
<1>2. Here' = Here + 1 /\ log'[Here + 1] = e /\ \A i \in 1 .. Here : log'[i] = log[i]
  BY <1>1 DEF Here
<1>3. Extends /\ (Here + 1) .. Here' = {Here + 1}
  <2>1. \A n \in Nat : (n + 1) .. (n + 1) = {n + 1} /\ n <= n + 1 /\ n + 1 \in Nat
    OBVIOUS
  <2>. QED
    BY <1>1, <1>2, <2>1, Zenon DEF Extends
<1>4. \A c \in Claims : c # e.claim \/ e.status = "needs_review" => Same(c)
  BY <1>2, <1>3, ClaimStays
<1>5. ASSUME e.status # "needs_review"
      PROVE  /\ Base(e.claim)' = e.status /\ Authority(e.claim)' = e.ref
             /\ EverConfirmed(e.claim)' <=> EverConfirmed(e.claim) \/ e.status = "confirmed"
  <2>1. PICK k \in (Here + 1) .. Here' : k = Here + 1
    BY <1>3
  <2>2. \A n \in Nat : (n + 1) .. (n + 1) = {n + 1} /\ (n + 1 + 1) .. (n + 1) = {}
    OBVIOUS
  <2>3. log'[k] = e /\ (k + 1) .. Here' = {} /\ (Here + 1) .. k = {k}
    BY <1>1, <1>2, <2>1, <2>2, Zenon
  <2>4. /\ log'[k].claim = e.claim /\ log'[k].status # "needs_review"
        /\ \A j \in (k + 1) .. Here' : log'[j].claim # e.claim
    BY <1>5, <2>3
  <2>5. /\ Base(e.claim)' = log'[k].status /\ Authority(e.claim)' = log'[k].ref
        /\ EverConfirmed(e.claim)' <=>
               \/ EverConfirmed(e.claim)
               \/ \E j \in (Here + 1) .. k : log'[j].claim = e.claim /\ log'[j].status = "confirmed"
    <3>1. e.claim \in Claims /\ Extends
      BY <1>1, <1>3
    <3>. QED
      BY <2>4, <3>1, ClaimMoves
  <2>. QED
    BY <2>3, <2>5
<1>. QED
  BY <1>2, <1>3, <1>4, <1>5

-----------------------------------------------------------------------------
(* Single events.                                                          *)

LEMMA Built ==
  ASSUME NEW n \in Nat, NEW c \in Claims, NEW status \in Statuses,
         NEW by \in {"agent", "human", "system"},
         NEW basis \in {"rule", "gesture", "conflict_link", "claim_link", "sweep", "conflict",
                        "redaction"},
         NEW ref \in LinkSet \cup Gestures \cup {NoRef}
  PROVE  /\ EventAt(n, c, status, by, basis, ref) \in Events
         /\ EventAt(n, c, status, by, basis, ref).claim = c
         /\ EventAt(n, c, status, by, basis, ref).status = status
         /\ EventAt(n, c, status, by, basis, ref).by = by
         /\ EventAt(n, c, status, by, basis, ref).basis = basis
         /\ EventAt(n, c, status, by, basis, ref).ref = ref
         /\ EventAt(n, c, status, by, basis, ref).at = n
  BY DEF EventAt, Events

\* Only a link is mistaken for a link.
LEMMA RefsDiffer ==
  /\ NoRef \notin LinkSet /\ \A g \in Gestures : g \notin LinkSet
  /\ \A kind \in {"confirm", "reject", "reject_as_false", "redact"}, c \in Claims :
        Gesture(kind, c) \in Gestures
  BY DEF NoRef, LinkSet, Gestures, Gesture

LEMMA Transitions ==
  \A base, status : status \in BaseTransitions(base) =>
      \/ base = "none" /\ status = "proposed"
      \/ base = "proposed" /\ status \in {"confirmed", "rejected", "expired", "retracted"}
      \/ base = "confirmed" /\ status \in {"challenged", "superseded", "retracted"}
      \/ base = "challenged" /\ status \in {"confirmed", "superseded", "retracted"}
<1>. SUFFICES ASSUME NEW base, NEW status, status \in BaseTransitions(base)
              PROVE  \/ base = "none" /\ status = "proposed"
                     \/ base = "proposed" /\ status \in {"confirmed", "rejected", "expired", "retracted"}
                     \/ base = "confirmed" /\ status \in {"challenged", "superseded", "retracted"}
                     \/ base = "challenged" /\ status \in {"confirmed", "superseded", "retracted"}
  OBVIOUS
<1>1. CASE base = "none"
  BY <1>1 DEF BaseTransitions
<1>2. CASE base = "proposed"
  BY <1>2 DEF BaseTransitions
<1>3. CASE base = "confirmed"
  BY <1>3 DEF BaseTransitions
<1>4. CASE base = "challenged"
  BY <1>4 DEF BaseTransitions
<1>5. CASE base \notin {"none", "proposed", "confirmed", "challenged"}
  BY <1>5 DEF BaseTransitions
<1>. QED
  BY <1>1, <1>2, <1>3, <1>4, <1>5

LEMMA Allows ==
  /\ "proposed" \in BaseTransitions("none")
  /\ \A s \in {"confirmed", "rejected", "expired", "retracted"} : s \in BaseTransitions("proposed")
  /\ \A s \in {"challenged", "superseded", "retracted"} : s \in BaseTransitions("confirmed")
  /\ \A s \in {"confirmed", "superseded", "retracted"} : s \in BaseTransitions("challenged")
  BY DEF BaseTransitions

\* What a claim may be, and that it was there if it may be moved at all.
LEMMA BasesAre ==
  ASSUME Types, NEW c \in Claims
  PROVE  Base(c) \in {"none", "proposed", "confirmed", "challenged"} \cup Terminal
<1>1. Bases(c, Here) # {} => LastBase(c) \in Bases(c, Here)
  BY PlacesOf, LatestOf, ByBases, Logged DEF ReadByBases
<1>2. Bases(c, Here) # {} => Base(c) \in Statuses /\ Base(c) # "needs_review"
  BY <1>1, ByBases, Logged, PlacesOf DEF ReadByBases, Bases
<1>3. Bases(c, Here) = {} => Base(c) = "none"
  BY ByBases DEF ReadByBases
<1>. QED
  BY <1>2, <1>3 DEF Statuses

\* The step the code takes with the event, judged by the auditor.
MayFollow(e) ==
    IF e.status = "needs_review" THEN Base(e.claim) \notin Terminal
    ELSE \/ e.status \in BaseTransitions(Base(e.claim))
         \/ OverlaidAt(e.claim, Here) /\ e.status = Base(e.claim) /\ ByGesture(e)

LEMMA Allowed ==
  ASSUME Types, Types', NEW e \in Events, log' = log \o <<e>>, MayFollow(e),
         NEW k, k = Here + 1
  PROVE  AllowedStep(k)'
<1>1. PICK n : n = Here
  OBVIOUS
<1>2. /\ n \in 0 .. Here /\ k - 1 = n /\ log'[k] = e /\ Extends /\ e.claim \in Claims
  <2>1. n \in 0 .. Here /\ k - 1 = n /\ e.claim \in Claims
    BY <1>1, Logged DEF Events
  <2>2. log'[Here + 1] = e /\ Extends
    BY LogGrowsByOne
  <2>. QED
    BY <2>1, <2>2, Zenon
<1>3. /\ BaseAt(e.claim, n)' = BaseAt(e.claim, n)
      /\ OverlaidAt(e.claim, n)' = OverlaidAt(e.claim, n)
  BY <1>2, Settled
<1>4. BaseAt(e.claim, n) = Base(e.claim) /\ OverlaidAt(e.claim, n) = OverlaidAt(e.claim, Here)
  BY <1>1 DEF Base
<1>. QED
  BY <1>2, <1>3, <1>4 DEF AllowedStep, MayFollow, ByGesture

\* An event that neither confirms, challenges nor supersedes needs no grounds.
LEMMA PlainStep ==
  ASSUME IInv, Types', NEW e \in Events, log' = log \o <<e>>, MayFollow(e),
         e.status \in {"proposed", "needs_review", "rejected", "expired", "retracted"},
         e.ref \notin LinkSet, Attested(e),
         Grows, UNCHANGED <<links, retracted>>, NewEntries,
         \A r \in redacted' \ redacted : RedactedOnGrounds(r)'
  PROVE  IInv' /\ Quiet
<1>1. Types /\ LineInv /\ e.claim \in Claims
  BY DEF IInv, Events
<1>2. /\ Here' = Here + 1 /\ log'[Here + 1] = e
      /\ \A c \in Claims : c # e.claim \/ e.status = "needs_review" => Same(c)
      /\ e.status # "needs_review" =>
               /\ Base(e.claim)' = e.status /\ Authority(e.claim)' = e.ref
               /\ EverConfirmed(e.claim)' <=> EverConfirmed(e.claim)
  BY <1>1, LogGrowsByOne
<1>3. NewEvents
  <2>. SUFFICES ASSUME NEW k \in (Here + 1) .. Here'
                PROVE  /\ AllowedStep(k)' /\ ConfirmedOnGrounds(k)'
                       /\ ChallengedOnGrounds(k)' /\ SupersededOnGrounds(k)'
                       /\ Attested(log'[k])
    BY DEF NewEvents
  <2>1. k = Here + 1 /\ log'[k] = e
    <3>1. \A n \in Nat : \A j \in (n + 1) .. (n + 1) : j = n + 1
      OBVIOUS
    <3>2. Here \in Nat
      BY <1>1, Logged
    <3>3. k = Here + 1
      BY <1>2, <3>1, <3>2, Zenon
    <3>. QED
      BY <1>2, <3>3, Zenon
  <2>. QED
    BY <1>1, <2>1, Allowed DEF ConfirmedOnGrounds, ChallengedOnGrounds, SupersededOnGrounds
<1>4. e.status # "needs_review" => Moves(e.claim)
  <2>. SUFFICES ASSUME e.status # "needs_review" PROVE Moves(e.claim)
    OBVIOUS
  <2>1. /\ Base(e.claim) \notin Terminal
        /\ e.status \in {"proposed", "rejected", "expired"} => Base(e.claim) \in {"none", "proposed"}
    <3>1. CASE e.status \in BaseTransitions(Base(e.claim))
      BY <3>1, Transitions DEF Terminal
    <3>2. CASE e.status = Base(e.claim) /\ ByGesture(e) /\ OverlaidAt(e.claim, Here)
      <4>1. Base(e.claim) \notin Terminal
        BY <3>2 DEF OverlaidAt, Base
      <4>. QED
        BY <3>2, <4>1 DEF Terminal
    <3>. QED
      BY <3>1, <3>2 DEF MayFollow
  <2>2. e.status \in {"proposed", "rejected", "expired"} => ~EverConfirmed(e.claim)
    BY <1>1, <2>1 DEF LineInv, NeverInv
  <2>3. \A r \in retracted' : Authority(e.claim)' # r.link
    BY <1>2 DEF Types
  <2>. QED
    BY <1>2, <2>1, <2>2, <2>3 DEF Moves
<1>5. SupersessionsInForce' = SupersessionsInForce
  <2>1. \A c \in Claims : EverConfirmed(c)' <=> EverConfirmed(c)
    BY <1>2 DEF Same
  <2>2. \A l \in links : l.from \in Claims
    BY <1>1 DEF Types, LinkSet
  <2>3. \A l \in links : ActiveLink(l)' <=> ActiveLink(l)
    BY DEF ActiveLink
  <2>. QED
    BY <2>1, <2>2, <2>3 DEF SupersessionsInForce
<1>6. Quiet
  BY <1>2, <1>4, <1>5 DEF Quiet
<1>. QED
  BY <1>3, <1>6, QuietStep

LEMMA Screens ==
  ASSUME Types, \/ screen' = screen
                \/ \E p \in People : screen' = [screen EXCEPT ![p] = NoScreen]
  PROVE  /\ screen' = [q \in People |-> screen'[q]]
         /\ \A q \in People : screen'[q] = screen[q] \/ ~screen'[q].shown
<1>1. screen = [q \in People |-> screen[q]]
  BY DEF Types
<1>2. ~NoScreen.shown
  BY DEF NoScreen
<1>3. CASE screen' = screen
  BY <1>1, <1>3
<1>4. ASSUME NEW p \in People, screen' = [screen EXCEPT ![p] = NoScreen]
      PROVE  /\ screen' = [q \in People |-> screen'[q]]
             /\ \A q \in People : screen'[q] = screen[q] \/ ~screen'[q].shown
  <2>. HIDE DEF NoScreen
  <2>1. screen' = [q \in People |-> IF q = p THEN NoScreen ELSE screen[q]]
    BY <1>1, <1>4
  <2>2. \A q \in People : screen'[q] = IF q = p THEN NoScreen ELSE screen[q]
    BY <2>1
  <2>. QED
    BY <1>2, <2>1, <2>2
<1>. QED
  BY <1>3, <1>4

Redactions == [claim : Claims, at : Nat, basis : {"policy", "gesture"}]

\* Most steps touch nothing but the log, the redactions and a screen.
LEMMA Frame ==
  ASSUME Types, PastInv, log' \in Seq(Events), Extends,
         UNCHANGED <<links, retracted, premises, cited, gone, room>>,
         redacted' \in SUBSET Redactions,
         \/ screen' = screen
         \/ \E p \in People : screen' = [screen EXCEPT ![p] = NoScreen]
  PROVE  Types' /\ Grows /\ NewEntries
<1>1. /\ screen' = [q \in People |-> screen'[q]]
      /\ \A q \in People : screen'[q] = screen[q] \/ ~screen'[q].shown
  BY Screens
<1>2. Types'
  BY <1>1, Zenon DEF Types, Redactions
<1>3. Grows
  BY DEF Grows
<1>4. NewEntries
  BY <1>1 DEF NewEntries
<1>. QED
  BY <1>2, <1>3, <1>4

\* The log a single event leaves.
LEMMA OneMore ==
  ASSUME Types, NEW e \in Events, log' = log \o <<e>>
  PROVE  log' \in Seq(Events) /\ Extends
<1>1. log \in Seq(Events)
  BY DEF Types
<1>2. log' \in Seq(Events) /\ Len(log') = Len(log) + 1 /\ Len(log) \in Nat
      /\ \A i \in 1 .. Len(log) : log'[i] = log[i]
  BY <1>1
<1>. QED
  BY <1>2 DEF Extends, Here

LEMMA Proposes ==
  ASSUME IInv, NEW c \in Claims, ProposeClaim(c)
  PROVE  IInv' /\ Quiet
<1>1. Types /\ PastInv /\ Here \in Nat
  BY Logged DEF IInv
<1>2. PICK e : e = Proposal(c)
  OBVIOUS
<1>3. /\ e \in Events /\ e.claim = c /\ e.status = "proposed" /\ e.ref = NoRef
      /\ Attested(e)
  <2>1. /\ e \in Events /\ e.claim = c /\ e.status = "proposed" /\ e.ref = NoRef
        /\ e.basis = "rule"
    BY <1>1, <1>2, Built DEF Proposal, ProposalAt, Statuses
  <2>. QED
    BY <2>1 DEF Attested
<1>4. /\ Base(c) = "none" /\ log' = log \o <<e>>
      /\ UNCHANGED <<links, retracted, premises, cited, gone, redacted, screen, room>>
  BY <1>2 DEF ProposeClaim, New, Known, Record
<1>5. Types' /\ Grows /\ NewEntries
  BY <1>1, <1>3, <1>4, OneMore, Frame DEF Types, Redactions
<1>6. MayFollow(e)
  BY <1>3, <1>4, Allows DEF MayFollow
<1>. QED
  BY <1>3, <1>4, <1>5, <1>6, PlainStep, RefsDiffer

LEMMA MarksForReview ==
  ASSUME IInv, NEW c \in Claims, MarkNeedsReview(c)
  PROVE  IInv' /\ Quiet
<1>1. Types /\ PastInv /\ Here \in Nat
  BY Logged DEF IInv
<1>2. PICK e : e = Event(c, "needs_review", "system", "sweep", NoRef)
  OBVIOUS
<1>3. /\ e \in Events /\ e.claim = c /\ e.status = "needs_review" /\ e.ref = NoRef
      /\ Attested(e)
  <2>1. /\ e \in Events /\ e.claim = c /\ e.status = "needs_review" /\ e.ref = NoRef
    BY <1>1, <1>2, Built DEF Event, Statuses
  <2>. QED
    BY <2>1 DEF Attested
<1>4. /\ Base(c) \notin Terminal /\ log' = log \o <<e>>
      /\ UNCHANGED <<links, retracted, premises, cited, gone, redacted, screen, room>>
  BY <1>2 DEF MarkNeedsReview, Record
<1>5. Types' /\ Grows /\ NewEntries
  BY <1>1, <1>3, <1>4, OneMore, Frame DEF Types, Redactions
<1>6. MayFollow(e)
  BY <1>3, <1>4 DEF MayFollow
<1>. QED
  BY <1>3, <1>4, <1>5, <1>6, PlainStep, RefsDiffer

\* The terminal content policy redacts only what was never confirmed.
LEMMA PolicyRedacts ==
  ASSUME Types, NEW c \in Claims, NEW n \in Nat, ContentPolicy(c, n),
         Base(c)' \in {"rejected", "expired"}, ~EverConfirmed(c)'
  PROVE  \A r \in redacted' \ redacted : RedactedOnGrounds(r)'
<1>1. \A r \in redacted' \ redacted : r = [claim |-> c, at |-> n, basis |-> "policy"]
  BY DEF ContentPolicy
<1>. QED
  BY <1>1 DEF RedactedOnGrounds, Terminal

LEMMA PolicyTypes ==
  ASSUME Types, NEW c \in Claims, NEW n \in Nat, ContentPolicy(c, n)
  PROVE  redacted' \in SUBSET Redactions
<1>1. redacted \in SUBSET Redactions
  BY Zenon DEF Types, Redactions
<1>2. [claim |-> c, at |-> n, basis |-> "policy"] \in Redactions
  BY DEF Redactions
<1>. QED
  BY <1>1, <1>2 DEF ContentPolicy

\* A proposal ends, by the clock or by a person.
LEMMA ProposalEnds ==
  ASSUME IInv, NEW e \in Events, log' = log \o <<e>>, Base(e.claim) = "proposed",
         e.status \in {"rejected", "expired"}, e.ref \notin LinkSet, Attested(e),
         ContentPolicy(e.claim, Here + 1),
         UNCHANGED <<links, retracted, premises, cited, gone, room>>,
         \/ screen' = screen
         \/ \E p \in People : screen' = [screen EXCEPT ![p] = NoScreen]
  PROVE  IInv' /\ Quiet
<1>1. Types /\ PastInv /\ Here + 1 \in Nat /\ e.claim \in Claims /\ LineInv
  BY Logged DEF IInv, Events
<1>2. Types' /\ Grows /\ NewEntries
  BY <1>1, OneMore, PolicyTypes, Frame
<1>3. Base(e.claim)' = e.status /\ ~EverConfirmed(e.claim)'
  <2>1. ~EverConfirmed(e.claim)
    BY <1>1 DEF LineInv, NeverInv
  <2>. QED
    BY <1>1, <1>2, <2>1, LogGrowsByOne
<1>4. \A r \in redacted' \ redacted : RedactedOnGrounds(r)'
  BY <1>1, <1>3, PolicyRedacts
<1>5. MayFollow(e)
  BY Allows DEF MayFollow
<1>. QED
  BY <1>2, <1>4, <1>5, PlainStep

LEMMA Expires ==
  ASSUME IInv, NEW c \in Claims, ExpireClaim(c)
  PROVE  IInv' /\ Quiet
<1>1. Here \in Nat
  BY Logged DEF IInv
<1>2. PICK e : e = Event(c, "expired", "system", "rule", NoRef)
  OBVIOUS
<1>3. /\ e \in Events /\ e.claim = c /\ e.status = "expired" /\ e.ref = NoRef
      /\ Attested(e)
  <2>1. "expired" \in Statuses
    BY DEF Statuses, Terminal
  <2>. QED
    BY <1>1, <1>2, <2>1, Built DEF Event, Attested
<1>4. /\ Base(c) = "proposed" /\ log' = log \o <<e>> /\ ContentPolicy(c, Here + 1)
      /\ UNCHANGED <<links, retracted, premises, cited, gone, screen, room>>
  BY <1>2 DEF ExpireClaim, Record
<1>. QED
  BY <1>3, <1>4, ProposalEnds, RefsDiffer

LEMMA GestureIs ==
  ASSUME Types, NEW c \in Claims, NEW status \in Statuses, NEW subject \in Claims,
         NEW kind \in {"confirm", "reject", "reject_as_false", "redact"}
  PROVE  LET e == ByPerson(c, status, kind, subject)
         IN /\ e \in Events /\ e.claim = c /\ e.status = status /\ e.ref \in Gestures
            /\ e.at = Here /\ (status # "needs_review" => ByGesture(e))
            /\ status \in {"confirmed", "rejected"} => Attested(e)
<1>1. PICK g : g = Gesture(kind, subject)
  OBVIOUS
<1>2. PICK n : n = Here
  OBVIOUS
<1>3. g \in Gestures /\ n \in Nat
  BY <1>1, <1>2, RefsDiffer, Logged
<1>4. ByPerson(c, status, kind, subject) = EventAt(n, c, status, "human", "gesture", g)
  BY <1>1, <1>2 DEF ByPerson, Event
<1>5. PICK e : e = EventAt(n, c, status, "human", "gesture", g)
  OBVIOUS
<1>6. /\ e \in Events /\ e.claim = c /\ e.status = status /\ e.ref = g /\ e.at = n
      /\ e.by = "human" /\ e.basis = "gesture"
  BY <1>3, <1>5, Built
<1>7. status # "needs_review" => ByGesture(e)
  BY <1>6 DEF ByGesture
<1>8. status \in {"confirmed", "rejected"} => Attested(e)
  BY <1>6, <1>7 DEF Attested
<1>. QED
  BY <1>2, <1>3, <1>4, <1>5, <1>6, <1>7, <1>8

LEMMA Rejects ==
  ASSUME IInv, NEW p \in People, NEW c \in Claims, RejectClaim(p, c)
  PROVE  IInv' /\ Quiet
<1>1. Types
  BY DEF IInv
<1>2. PICK e : e = ByPerson(c, "rejected", "reject", c)
  OBVIOUS
<1>3. /\ e \in Events /\ e.claim = c /\ e.status = "rejected" /\ e.ref \in Gestures
      /\ Attested(e)
  BY <1>1, <1>2, GestureIs DEF Statuses, Terminal
<1>4. /\ Base(c) = "proposed" /\ log' = log \o <<e>> /\ ContentPolicy(c, Here + 1)
      /\ UNCHANGED <<links, retracted, premises, cited, gone, room>>
      /\ screen' = [screen EXCEPT ![p] = NoScreen]
  BY <1>2 DEF RejectClaim, Record, Decides
<1>. QED
  BY <1>3, <1>4, ProposalEnds, RefsDiffer

\* A refused race marks its claim and changes nothing else.
LEMMA LosesRace ==
  ASSUME IInv, NEW p \in People, NEW c \in Claims, ConfirmLosesRace(p, c)
  PROVE  IInv' /\ Quiet
<1>1. Types /\ PastInv /\ Here \in Nat
  BY Logged DEF IInv
<1>2. /\ UNCHANGED <<links, retracted, premises, cited, gone, redacted, room>>
      /\ screen' = [screen EXCEPT ![p] = NoScreen]
      /\ Base(c) \in {"proposed", "challenged", "confirmed"}
  BY DEF ConfirmLosesRace, Confirmable, Decides
<1>3. redacted' \in SUBSET Redactions
  BY <1>1, <1>2, Zenon DEF Types, Redactions
<1>4. CASE log' = log
  <2>1. Extends /\ NewEvents /\ (\A d \in Claims : Same(d)) /\ log' \in Seq(Events)
    <3>1. Here' = Here /\ log' \in Seq(Events)
      BY <1>1, <1>4 DEF Here, Types
    <3>2. Extends
      BY <1>1, <1>4, <3>1 DEF Extends
    <3>3. Types'
      BY <1>1, <1>2, <1>3, <3>1, <3>2, Frame
    <3>. QED
      BY <1>1, <1>4, <3>1, <3>3, LogStays
  <2>2. Types' /\ Grows /\ NewEntries
    BY <1>1, <1>2, <1>3, <2>1, Frame
  <2>3. SupersessionsInForce' = SupersessionsInForce
    BY <1>1, <1>2, <2>1 DEF SupersessionsInForce, Same, ActiveLink, Types, LinkSet
  <2>. QED
    BY <1>2, <2>1, <2>2, <2>3, QuietStep DEF Quiet
<1>5. CASE log' # log
  <2>1. PICK e : e = Event(c, "needs_review", "system", "conflict", Gesture("confirm", c))
    OBVIOUS
  <2>2. Gesture("confirm", c) \in Gestures
    BY RefsDiffer
  <2>3. /\ e \in Events /\ e.claim = c /\ e.status = "needs_review" /\ e.ref \in Gestures
        /\ Attested(e)
    BY <1>1, <2>1, <2>2, Built DEF Event, Statuses, Attested
  <2>4. log' = log \o <<e>>
    BY <1>5, <2>1 DEF ConfirmLosesRace, Record
  <2>5. Types' /\ Grows /\ NewEntries
    BY <1>1, <1>2, <1>3, <2>3, <2>4, OneMore, Frame
  <2>6. MayFollow(e)
    BY <1>2, <2>3 DEF MayFollow, Terminal
  <2>. QED
    BY <1>2, <2>3, <2>4, <2>5, <2>6, PlainStep, RefsDiffer
<1>. QED
  BY <1>4, <1>5

LEMMA Redacts ==
  ASSUME IInv, NEW p \in People, NEW c \in Claims, RedactClaim(p, c)
  PROVE  IInv' /\ Quiet
<1>1. Types /\ PastInv /\ Here \in Nat
  BY Logged DEF IInv
<1>. DEFINE r == [claim |-> c, at |-> Here, basis |-> "gesture"]
<1>2. /\ UNCHANGED <<links, retracted, premises, cited, gone, room>>
      /\ screen' = [screen EXCEPT ![p] = NoScreen]
      /\ redacted' = redacted \cup {r}
      /\ screen[p].shown /\ screen[p].claim = c
  BY DEF RedactClaim, Decides
<1>3. Base(c) # "none"
  BY <1>1, <1>2 DEF PastInv, Known
<1>4. redacted' \in SUBSET Redactions
  <2>1. redacted \in SUBSET Redactions
    BY <1>1, Zenon DEF Types, Redactions
  <2>2. r \in Redactions
    BY <1>1 DEF Redactions
  <2>. QED
    BY <1>2, <2>1, <2>2
<1>5. Base(c)' \in Terminal => \A s \in redacted' \ redacted : RedactedOnGrounds(s)'
  BY <1>2 DEF RedactedOnGrounds
<1>6. CASE Base(c) \in Terminal
  <2>1. log' = log
    BY <1>6 DEF RedactClaim
  <2>2. Extends /\ NewEvents /\ (\A d \in Claims : Same(d)) /\ log' \in Seq(Events)
    <3>1. Here' = Here /\ log' \in Seq(Events)
      BY <1>1, <2>1 DEF Here, Types
    <3>2. Extends
      BY <1>1, <2>1, <3>1 DEF Extends
    <3>3. Types'
      BY <1>1, <1>2, <1>4, <3>1, <3>2, Frame
    <3>. QED
      BY <1>1, <2>1, <3>1, <3>3, LogStays
  <2>3. Types' /\ Grows /\ NewEntries
    BY <1>1, <1>2, <1>4, <2>2, Frame
  <2>4. SupersessionsInForce' = SupersessionsInForce
    BY <1>1, <1>2, <2>2 DEF SupersessionsInForce, Same, ActiveLink, Types, LinkSet
  <2>5. Base(c)' \in Terminal
    BY <1>6, <2>2 DEF Same
  <2>. QED
    BY <1>2, <1>5, <2>2, <2>3, <2>4, <2>5, QuietStep DEF Quiet
<1>7. CASE Base(c) \notin Terminal
  <2>1. PICK e : e = Event(c, "retracted", "human", "redaction", Gesture("redact", c))
    OBVIOUS
  <2>2. Gesture("redact", c) \in Gestures
    BY RefsDiffer
  <2>3. "retracted" \in Statuses /\ "retracted" \in Terminal
    BY DEF Statuses, Terminal
  <2>4. /\ e \in Events /\ e.claim = c /\ e.status = "retracted" /\ e.ref \in Gestures
        /\ Attested(e)
    BY <1>1, <2>1, <2>2, <2>3, Built DEF Event, Attested
  <2>5. log' = log \o <<e>>
    BY <1>7, <2>1 DEF RedactClaim, Record
  <2>6. Types' /\ Grows /\ NewEntries
    BY <1>1, <1>2, <1>4, <2>4, <2>5, OneMore, Frame
  <2>7. MayFollow(e)
    <3>1. Base(c) \in {"proposed", "confirmed", "challenged"}
      BY <1>1, <1>3, <1>7, BasesAre
    <3>. QED
      BY <2>4, <3>1, Allows DEF MayFollow
  <2>8. Base(c)' \in Terminal
    BY <1>1, <2>3, <2>4, <2>5, <2>6, LogGrowsByOne
  <2>. QED
    BY <1>2, <1>5, <2>4, <2>5, <2>6, <2>7, <2>8, PlainStep, RefsDiffer
<1>. QED
  BY <1>6, <1>7

-----------------------------------------------------------------------------
(* Steps that leave the log alone.                                         *)

LEMMA Still ==
  ASSUME Types, log' = log
  PROVE  Here' = Here /\ Extends /\ log' \in Seq(Events)
<1>1. Here' = Here /\ Here \in Nat /\ log' \in Seq(Events)
  BY Logged DEF Here, Types
<1>. QED
  BY <1>1 DEF Extends

LEMMA Unlogged ==
  ASSUME IInv, Types', Grows, NewEntries, log' = log, redacted' = redacted,
         \A r \in retracted' \ retracted : Authority(r.link.to) # r.link,
         \A l \in links' \ links : l.type = "supersedes" => ~EverConfirmed(l.from)
  PROVE  IInv' /\ Quiet
<1>1. NewEvents /\ \A c \in Claims : Same(c)
  BY LogStays DEF IInv
<1>2. \A l \in links' : l.from \in Claims
  BY DEF Types, LinkSet
<1>3. \A l \in links' : EverConfirmed(l.from)' <=> EverConfirmed(l.from)
  BY <1>1, <1>2 DEF Same
<1>4. \A l \in links' : ActiveLink(l)' => ActiveLink(l)
  BY DEF ActiveLink, NewEntries
<1>5. SupersessionsInForce' \subseteq SupersessionsInForce
  BY <1>3, <1>4 DEF SupersessionsInForce
<1>6. ASSUME NEW l \in SupersessionsInForce \ SupersessionsInForce'
      PROVE  Authority(l.to) # l
  <2>1. ~ActiveLink(l)' /\ ActiveLink(l)
    BY <1>3 DEF SupersessionsInForce, Grows
  <2>. QED
    BY <2>1 DEF ActiveLink
<1>7. Quiet
  BY <1>1, <1>5, <1>6 DEF Quiet
<1>. QED
  BY <1>1, <1>7, QuietStep

LEMMA AddsDerivation ==
  ASSUME IInv, NEW c \in Claims, NEW premise \in Claims, AddDerivation(c, premise)
  PROVE  IInv' /\ Quiet
<1>1. Types /\ Here \in Nat
  BY Logged DEF IInv
<1>2. PICK d : d = [of |-> c, on |-> premise, at |-> Here]
  OBVIOUS
<1>3. /\ premises' = premises \cup {d} /\ log' = log
      /\ UNCHANGED <<links, retracted, cited, gone, redacted, screen, room>>
  BY <1>2 DEF AddDerivation
<1>4. d \in [of : Claims, on : Claims, at : Nat] /\ d.of # d.on /\ d.at = Here
  BY <1>1, <1>2 DEF AddDerivation
<1>5. Here' = Here /\ Extends /\ log' \in Seq(Events)
  BY <1>1, <1>3, Still
<1>6. Types'
  <2>1. premises' \in SUBSET [of : Claims, on : Claims, at : Nat]
    BY <1>1, <1>3, <1>4 DEF Types
  <2>. QED
    BY <1>1, <1>3, <1>5, <2>1, Zenon DEF Types
<1>7. Grows /\ NewEntries
  BY <1>3, <1>4, <1>5 DEF Grows, NewEntries
<1>. QED
  BY <1>3, <1>6, <1>7, Unlogged

LEMMA AttachesSupport ==
  ASSUME IInv, NEW c \in Claims, AttachSupport(c)
  PROVE  IInv' /\ Quiet
<1>1. Types /\ Here \in Nat
  BY Logged DEF IInv
<1>2. /\ Base(c) # "none" /\ cited[c] = 0 /\ cited' = [cited EXCEPT ![c] = Here] /\ log' = log
      /\ UNCHANGED <<links, retracted, premises, gone, redacted, screen, room>>
  BY DEF AttachSupport
<1>3. /\ cited' \in [Claims -> Nat] /\ cited'[c] = Here
      /\ \A d \in Claims : d # c => cited'[d] = cited[d]
  BY <1>1, <1>2 DEF Types
<1>5. Here' = Here /\ Extends /\ log' \in Seq(Events)
  BY <1>1, <1>2, Still
<1>6. Types'
  BY <1>1, <1>2, <1>3, <1>5, Zenon DEF Types
<1>7. Grows /\ NewEntries
  BY <1>2, <1>3, <1>5 DEF Grows, NewEntries
<1>. QED
  BY <1>2, <1>6, <1>7, Unlogged

LEMMA RedactsEvidence ==
  ASSUME IInv, NEW c \in Claims, RedactEvidence(c)
  PROVE  IInv' /\ Quiet
<1>1. Types /\ Here \in Nat
  BY Logged DEF IInv
<1>2. /\ gone[c] = 0 /\ gone' = [gone EXCEPT ![c] = Here] /\ log' = log
      /\ UNCHANGED <<links, retracted, premises, cited, redacted, screen, room>>
  BY DEF RedactEvidence, Usable
<1>3. /\ gone' \in [Claims -> Nat] /\ gone'[c] = Here
      /\ \A d \in Claims : d # c => gone'[d] = gone[d]
  BY <1>1, <1>2 DEF Types
<1>5. Here' = Here /\ Extends /\ log' \in Seq(Events)
  BY <1>1, <1>2, Still
<1>6. Types'
  BY <1>1, <1>2, <1>3, <1>5, Zenon DEF Types
<1>7. Grows /\ NewEntries
  BY <1>2, <1>3, <1>5 DEF Grows, NewEntries
<1>. QED
  BY <1>2, <1>6, <1>7, Unlogged

LEMMA LinkIs ==
  ASSUME Types, NEW from \in Claims, NEW to \in Claims, NEW n \in Nat,
         NEW type \in {"supersedes", "conflicts_with", "refutes"},
         NEW l, l = [from |-> from, type |-> type, to |-> to, at |-> n]
  PROVE  /\ l \in LinkSet /\ l.from = from /\ l.type = type /\ l.to = to /\ l.at = n
         /\ links \cup {l} \in SUBSET LinkSet /\ IsFiniteSet(links \cup {l})
<1>1. l \in LinkSet /\ l.from = from /\ l.type = type /\ l.to = to /\ l.at = n
  BY DEF LinkSet
<1>2. links \in SUBSET LinkSet /\ IsFiniteSet(links)
  BY Zenon DEF Types
<1>3. IsFiniteSet(links \cup {l})
  BY <1>2, FS_AddElement
<1>. QED
  BY <1>1, <1>2, <1>3, Zenon

LEMMA Supersedes ==
  ASSUME IInv, NEW c \in Claims, NEW predecessor \in Claims, SupersedeClaim(c, predecessor)
  PROVE  IInv' /\ Quiet
<1>1. Types /\ Here \in Nat
  BY Logged DEF IInv
<1>2. PICK l : l = Link(c, "supersedes", predecessor)
  OBVIOUS
<1>3. /\ Base(c) = "proposed" /\ Base(predecessor) \in {"confirmed", "challenged"}
      /\ \A m \in LinksFrom(c, "supersedes") : m.to # predecessor
      /\ links' = links \cup {l} /\ log' = log
      /\ UNCHANGED <<retracted, premises, cited, gone, redacted, screen, room>>
  BY <1>2 DEF SupersedeClaim, AddLink
<1>4. /\ l \in LinkSet /\ l.from = c /\ l.to = predecessor /\ l.at = Here
      /\ links' \in SUBSET LinkSet /\ IsFiniteSet(links')
  <2>1. PICK n : n = Here
    OBVIOUS
  <2>2. l = [from |-> c, type |-> "supersedes", to |-> predecessor, at |-> n] /\ n \in Nat
    BY <1>1, <1>2, <2>1 DEF Link
  <2>3. "supersedes" \in {"supersedes", "conflicts_with", "refutes"}
    OBVIOUS
  <2>4. /\ l \in LinkSet /\ l.from = c /\ l.to = predecessor /\ l.at = n
        /\ links \cup {l} \in SUBSET LinkSet /\ IsFiniteSet(links \cup {l})
    BY <1>1, <2>2, <2>3, LinkIs
  <2>. QED
    BY <1>3, <2>1, <2>4, Zenon
<1>5. Here' = Here /\ Extends /\ log' \in Seq(Events)
  BY <1>1, <1>3, Still
<1>6. Types'
  <2>1. retracted' \in SUBSET [link : links', at : Nat]
    BY <1>1, <1>3 DEF Types
  <2>. QED
    BY <1>1, <1>3, <1>4, <1>5, <2>1, Zenon DEF Types
<1>7. Grows /\ NewEntries
  BY <1>1, <1>3, <1>4, <1>5 DEF Grows, NewEntries
<1>8. ~EverConfirmed(c)
  BY <1>3 DEF IInv, LineInv, NeverInv
<1>. QED
  BY <1>3, <1>4, <1>6, <1>7, <1>8, Unlogged

LEMMA RetractsLink ==
  ASSUME IInv, NEW l \in links, RetractLink(l)
  PROVE  IInv' /\ Quiet
<1>1. Types /\ Here \in Nat
  BY Logged DEF IInv
<1>2. PICK r : r = [link |-> l, at |-> Here]
  OBVIOUS
<1>3. /\ Authority(l.to) # l /\ retracted' = retracted \cup {r} /\ log' = log
      /\ UNCHANGED <<links, premises, cited, gone, redacted, screen, room>>
  BY <1>2 DEF RetractLink
<1>4. r.link = l /\ r.at = Here /\ r \in [link : links, at : Nat]
  BY <1>1, <1>2
<1>5. Here' = Here /\ Extends /\ log' \in Seq(Events)
  BY <1>1, <1>3, Still
<1>6. Types'
  <2>1. retracted' \in SUBSET [link : links', at : Nat]
    BY <1>1, <1>3, <1>4 DEF Types
  <2>. QED
    BY <1>1, <1>3, <1>5, <2>1, Zenon DEF Types
<1>7. Grows /\ NewEntries
  BY <1>3, <1>4, <1>5 DEF Grows, NewEntries
<1>. QED
  BY <1>3, <1>4, <1>6, <1>7, Unlogged

LEMMA ShowsReview ==
  ASSUME IInv, NEW p \in People, NEW surface, NEW c \in Claims, NEW act,
         ShowReview(p, surface, c, act)
  PROVE  IInv' /\ Quiet
<1>1. Types
  BY DEF IInv
<1>2. PICK s : s = [shown |-> TRUE, surface |-> surface, claim |-> c,
                    act |-> act, context |-> Context(surface, c)]
  OBVIOUS
<1>3. /\ c \in Known /\ screen' = [screen EXCEPT ![p] = s]
      /\ UNCHANGED <<log, links, retracted, premises, cited, gone, redacted, room>>
  BY <1>2 DEF ShowReview, Reviewable, ledger
<1>4. s.claim = c
  BY <1>2
<1>5. /\ screen' = [q \in People |-> screen'[q]]
      /\ \A q \in People : screen'[q] = IF q = p THEN s ELSE screen[q]
  <2>1. screen = [q \in People |-> screen[q]]
    BY <1>1 DEF Types
  <2>2. screen' = [q \in People |-> IF q = p THEN s ELSE screen[q]]
    BY <1>3, <2>1
  <2>. QED
    BY <2>2
<1>6. Here' = Here /\ Extends /\ log' \in Seq(Events)
  BY <1>1, <1>3, Still
<1>7. Types'
  BY <1>1, <1>3, <1>5, <1>6, Zenon DEF Types
<1>8. Grows /\ NewEntries
  BY <1>3, <1>4, <1>5, <1>6 DEF Grows, NewEntries
<1>. QED
  BY <1>3, <1>7, <1>8, Unlogged

LEMMA TurnsAway ==
  ASSUME IInv, NEW p \in People, NoDecision(p)
  PROVE  IInv' /\ Quiet
<1>1. Types /\ PastInv
  BY DEF IInv
<1>2. /\ screen' = [screen EXCEPT ![p] = NoScreen]
      /\ UNCHANGED <<log, links, retracted, premises, cited, gone, redacted, room>>
  BY DEF NoDecision, ledger
<1>3. Extends /\ log' \in Seq(Events)
  BY <1>1, <1>2, Still
<1>4. Types' /\ Grows /\ NewEntries
  <2>1. redacted' \in SUBSET Redactions
    BY <1>1, <1>2, Zenon DEF Types, Redactions
  <2>. QED
    BY <1>1, <1>2, <1>3, <2>1, Frame
<1>. QED
  BY <1>2, <1>4, Unlogged

-----------------------------------------------------------------------------
(* A challenge.                                                            *)

LEMMA ChallengeGrounds ==
  ASSUME IInv, Types', NEW l \in LinkSet, NEW e \in Events, log' = log \o <<e>>,
         e.status = "challenged", e.ref = l, l.type = "conflicts_with", l.to = e.claim,
         l \in links', l.at <= Here, \A r \in retracted : r.link # l,
         UNCHANGED <<retracted, cited, gone, room>>,
         Base(l.from) \notin Terminal, Usable(l.from),
         NEW k, k = Here + 1
  PROVE  ChallengedOnGrounds(k)'
<1>1. PICK n : n = Here
  OBVIOUS
<1>2. /\ Types /\ PastInv /\ n \in Nat /\ n \in 0 .. Here /\ k - 1 = n /\ k = n + 1
      /\ l.from \in Claims /\ l.at \in Nat
  BY <1>1, Logged DEF IInv, LinkSet
<1>3. log'[k] = e /\ Extends
  BY <1>2, LogGrowsByOne
<1>4. PICK d : d = l.from
  OBVIOUS
<1>5. BaseAt(d, n)' = BaseAt(d, n)
  BY <1>2, <1>3, <1>4, Settled
<1>6. BaseAt(d, n) \notin Terminal \cup {"none"} /\ cited[d] # 0 /\ gone[d] = 0 /\ cited[d] <= n
  BY <1>1, <1>2, <1>4 DEF Base, PastInv, Usable
<1>7. LinkStood(l, k)'
  <2>1. l.at < k
    BY <1>1, <1>2
  <2>. QED
    BY <2>1 DEF LinkStood
<1>8. Supported(d, k)'
  <2>1. cited[d] \in Nat
    BY <1>2, <1>4 DEF Types
  <2>2. cited[d] \in 1 .. k - 1 /\ gone[d] \notin 1 .. k - 1
    BY <1>2, <1>6, <2>1
  <2>. QED
    BY <2>2 DEF Supported
<1>9. /\ l.type = "conflicts_with" /\ l.to = log'[k].claim /\ LinkStood(l, k)'
      /\ BaseAt(l.from, k - 1)' \notin Terminal \cup {"none"}
      /\ Supported(l.from, k)'
  BY <1>2, <1>3, <1>4, <1>5, <1>6, <1>7, <1>8
<1>. QED
  BY <1>3, <1>9 DEF ChallengedOnGrounds

LEMMA Challenges ==
  ASSUME IInv, NEW target \in Claims, NEW challenger \in Claims, NEW by \in {"agent", "human"},
         ChallengeClaim(target, challenger, by)
  PROVE  IInv' /\ Quiet
<1>1. Types /\ PastInv /\ Here \in Nat
  BY Logged DEF IInv
<1>. DEFINE own == {l \in LinksFrom(challenger, "conflicts_with") : l.to = target}
<1>2. PICK l : l = IF own = {} THEN Link(challenger, "conflicts_with", target)
                               ELSE CHOOSE o \in own : TRUE
  OBVIOUS
<1>3. /\ target # challenger
      /\ Base(target) \in {"confirmed", "challenged"}
      /\ Base(challenger) \notin Terminal /\ Usable(challenger)
      /\ IF own = {} THEN AddLink(l) ELSE UNCHANGED links
      /\ IF Base(target) = "challenged"
         THEN UNCHANGED log
         ELSE Record(<<Event(target, "challenged", by, "conflict_link", l)>>)
      /\ UNCHANGED <<retracted, premises, cited, gone, redacted, screen, room>>
  BY <1>2, Zenon DEF ChallengeClaim
<1>4. /\ l \in LinkSet /\ l.from = challenger /\ l.type = "conflicts_with" /\ l.to = target
      /\ l \in links' /\ links' \in SUBSET LinkSet /\ IsFiniteSet(links')
      /\ links' = links \cup {l} /\ l.at \in Nat /\ l.at <= Here
      /\ \A r \in retracted : r.link # l
  <2>1. CASE own = {}
    <3>1. PICK n : n = Here
      OBVIOUS
    <3>2. l = [from |-> challenger, type |-> "conflicts_with", to |-> target, at |-> n] /\ n \in Nat
      BY <1>1, <1>2, <2>1, <3>1 DEF Link
    <3>3. "conflicts_with" \in {"supersedes", "conflicts_with", "refutes"}
      OBVIOUS
    <3>4. /\ l \in LinkSet /\ l.from = challenger /\ l.type = "conflicts_with" /\ l.to = target
          /\ l.at = n /\ links \cup {l} \in SUBSET LinkSet /\ IsFiniteSet(links \cup {l})
      BY <1>1, <3>2, <3>3, LinkIs
    <3>5. l \notin links /\ links' = links \cup {l}
      BY <1>3, <2>1 DEF AddLink
    <3>6. \A r \in retracted : r.link \in links
      BY <1>1 DEF Types
    <3>7. l.at \in Nat /\ l.at <= Here
      BY <1>1, <3>1, <3>4
    <3>. QED
      BY <3>4, <3>5, <3>6, <3>7
  <2>2. CASE own # {}
    <3>1. l \in own /\ links' = links
      BY <1>2, <1>3, <2>2
    <3>2. /\ l \in links /\ l.from = challenger /\ l.type = "conflicts_with" /\ l.to = target
          /\ \A r \in retracted : r.link # l
      BY <3>1 DEF LinksFrom, ActiveLink
    <3>3. links \in SUBSET LinkSet /\ IsFiniteSet(links)
      BY <1>1, Zenon DEF Types
    <3>4. l.at \in Nat /\ l.at <= Here
      BY <1>1, <3>2, <3>3 DEF LinkSet, PastInv
    <3>. QED
      BY <3>1, <3>2, <3>3, <3>4
  <2>. QED
    BY <2>1, <2>2
<1>5. ASSUME log' \in Seq(Events), Extends PROVE Types' /\ Grows /\ NewEntries
  <2>1. retracted' \in SUBSET [link : links', at : Nat]
    BY <1>1, <1>3, <1>4 DEF Types
  <2>2. Types'
    BY <1>1, <1>3, <1>4, <1>5, <2>1, Zenon DEF Types
  <2>3. Here <= Here' /\ Here' \in Nat
    BY <1>5 DEF Extends
  <2>4. l.at <= Here'
    BY <1>1, <1>4, <2>3
  <2>5. \A m \in links' \ links : m = l
    BY <1>4
  <2>. QED
    BY <1>3, <1>4, <1>5, <2>2, <2>4, <2>5 DEF Grows, NewEntries
<1>6. CASE Base(target) = "challenged"
  <2>1. log' = log /\ Extends /\ log' \in Seq(Events)
    BY <1>1, <1>3, <1>6, Still
  <2>. QED
    BY <1>3, <1>4, <1>5, <2>1, Unlogged
<1>7. CASE Base(target) # "challenged"
  <2>1. PICK n : n = Here
    OBVIOUS
  <2>2. PICK e : e = EventAt(n, target, "challenged", by, "conflict_link", l)
    OBVIOUS
  <2>3. /\ e \in Events /\ e.claim = target /\ e.status = "challenged" /\ e.ref = l
        /\ Attested(e)
    <3>1. "challenged" \in Statuses /\ n \in Nat
      BY <1>1, <2>1 DEF Statuses
    <3>2. by \in {"agent", "human", "system"}
      OBVIOUS
    <3>. QED
      BY <1>4, <2>2, <3>1, <3>2, Built DEF Attested
  <2>4. log' = log \o <<e>>
    BY <1>3, <1>7, <2>1, <2>2 DEF Event, Record
  <2>5. Types' /\ Grows /\ NewEntries
    BY <1>1, <1>5, <2>3, <2>4, OneMore
  <2>6. /\ Here' = Here + 1 /\ log'[Here + 1] = e
        /\ \A c \in Claims : c # target => Same(c)
        /\ Base(target)' = "challenged" /\ Authority(target)' = l
        /\ EverConfirmed(target)' <=> EverConfirmed(target)
    BY <1>1, <2>3, <2>4, <2>5, LogGrowsByOne
  <2>7. MayFollow(e)
    BY <1>3, <1>7, <2>3, Allows DEF MayFollow
  <2>8. NewEvents
    <3>. SUFFICES ASSUME NEW k \in (Here + 1) .. Here'
                  PROVE  /\ AllowedStep(k)' /\ ConfirmedOnGrounds(k)'
                         /\ ChallengedOnGrounds(k)' /\ SupersededOnGrounds(k)'
                         /\ Attested(log'[k])
      BY DEF NewEvents
    <3>1. k = Here + 1
      <4>1. \A m \in Nat : \A j \in (m + 1) .. (m + 1) : j = m + 1
        OBVIOUS
      <4>. QED
        BY <1>1, <2>6, <4>1, Zenon
    <3>2. AllowedStep(k)'
      BY <1>1, <2>3, <2>4, <2>5, <2>7, <3>1, Allowed
    <3>3. ChallengedOnGrounds(k)'
      BY <1>3, <1>4, <2>3, <2>4, <2>5, <3>1, ChallengeGrounds
    <3>4. log'[k].status = "challenged" /\ Attested(log'[k])
      BY <2>3, <2>6, <3>1
    <3>. QED
      BY <3>2, <3>3, <3>4 DEF ConfirmedOnGrounds, SupersededOnGrounds
  <2>9. Moves(target)
    BY <1>3, <1>4, <2>6 DEF Moves, Terminal
  <2>10. SupersessionsInForce' = SupersessionsInForce
    <3>1. \A c \in Claims : EverConfirmed(c)' <=> EverConfirmed(c)
      BY <2>6 DEF Same
    <3>2. \A m \in links' : m.from \in Claims
      BY <1>4 DEF LinkSet
    <3>3. \A m : ActiveLink(m)' <=> ActiveLink(m)
      BY <1>3 DEF ActiveLink
    <3>. QED
      BY <1>4, <3>1, <3>2, <3>3 DEF SupersessionsInForce
  <2>11. Quiet
    BY <1>3, <2>6, <2>9, <2>10 DEF Quiet
  <2>. QED
    BY <2>5, <2>8, <2>11, QuietStep
<1>. QED
  BY <1>6, <1>7

-----------------------------------------------------------------------------
(* The two resolvers.                                                      *)

LEMMA ReadersAgree ==
  ASSUME Types, AttestedInv
  PROVE  ResolversAgree
<1>. SUFFICES ASSUME NEW c \in Claims
              PROVE  Full(c) = "confirmed" <=> ResolvedAt(c, Here) = "confirmed"
  BY DEF ResolversAgree
<1>1. /\ Here \in Nat /\ EventsOf(c, Here) \in SUBSET (1 .. Here)
      /\ Bases(c, Here) \in SUBSET (1 .. Here)
      /\ Bases(c, Here) = {i \in EventsOf(c, Here) : log[i].status # "needs_review"}
  BY Logged, PlacesOf DEF Bases
<1>. DEFINE m == Latest(EventsOf(c, Here))
            b == Latest(Bases(c, Here))
<1>2. EventsOf(c, Here) # {} => m \in EventsOf(c, Here) /\ \A i \in EventsOf(c, Here) : i <= m
  BY <1>1, LatestOf
<1>3. Bases(c, Here) # {} => b \in Bases(c, Here) /\ \A i \in Bases(c, Here) : i <= b
  BY <1>1, LatestOf
<1>4. /\ Full(c) = IF EventsOf(c, Here) = {} THEN "none" ELSE log[m].status
      /\ BaseAt(c, Here) = IF Bases(c, Here) = {} THEN "none" ELSE log[b].status
  BY DEF Full, StatusAt, BaseAt, Bases
<1>5. ASSUME Full(c) = "confirmed" PROVE ResolvedAt(c, Here) = "confirmed"
  <2>1. EventsOf(c, Here) # {} /\ m \in EventsOf(c, Here) /\ log[m].status = "confirmed"
    BY <1>2, <1>4, <1>5
  <2>2. ByGesture(log[m])
    BY <1>1, <2>1 DEF AttestedInv, Attested
  <2>3. m \in Bases(c, Here)
    BY <1>1, <2>1
  <2>4. b <= m /\ m <= b /\ b \in 1 .. Here /\ m \in 1 .. Here
    BY <1>1, <1>2, <1>3, <2>1, <2>3
  <2>5. b = m
    BY <1>1, <2>4
  <2>6. BaseAt(c, Here) = "confirmed"
    BY <1>4, <2>1, <2>3, <2>5
  <2>7. ~OverlaidAt(c, Here)
    <3>. SUFFICES ASSUME NEW o \in EventsOf(c, Here),
                         \A i \in EventsOf(c, Here) : ByGesture(log[i]) => i < o
                  PROVE  FALSE
      BY DEF OverlaidAt
    <3>1. m < o /\ o <= m /\ o \in 1 .. Here
      BY <1>1, <1>2, <2>1, <2>2
    <3>. QED
      BY <1>1, <2>4, <3>1
  <2>. QED
    BY <2>6, <2>7 DEF ResolvedAt
<1>6. ASSUME ResolvedAt(c, Here) = "confirmed" PROVE Full(c) = "confirmed"
  <2>1. ~OverlaidAt(c, Here) /\ BaseAt(c, Here) = "confirmed"
    BY <1>6 DEF ResolvedAt
  <2>2. Bases(c, Here) # {} /\ log[b].status = "confirmed"
    BY <1>4, <2>1
  <2>3. b \in Bases(c, Here) /\ b \in EventsOf(c, Here)
    BY <1>1, <1>3, <2>2
  <2>4. m \in EventsOf(c, Here) /\ b <= m /\ m \in 1 .. Here /\ b \in 1 .. Here
    BY <1>1, <1>2, <2>3
  <2>5. log[m].status # "needs_review"
    <3>. SUFFICES ASSUME log[m].status = "needs_review" PROVE FALSE
      OBVIOUS
    <3>1. \A i \in EventsOf(c, Here) : ByGesture(log[i]) => i <= m /\ i # m /\ i \in Nat
      BY <1>1, <1>2, <2>4 DEF ByGesture
    <3>2. \A i \in EventsOf(c, Here) : ByGesture(log[i]) => i < m
      BY <2>4, <3>1
    <3>. QED
      BY <2>1, <2>4, <3>2 DEF OverlaidAt, Terminal
  <2>6. m \in Bases(c, Here)
    BY <1>1, <2>4, <2>5
  <2>7. m <= b
    BY <1>3, <2>6
  <2>8. m = b
    BY <1>1, <2>4, <2>7
  <2>. QED
    BY <1>4, <2>2, <2>4, <2>8
<1>. QED
  BY <1>5, <1>6

-----------------------------------------------------------------------------
(* Several events.                                                         *)

LEMMA LogGrows ==
  ASSUME Types, NEW s \in Seq(Events), log' = log \o s
  PROVE  /\ log' \in Seq(Events) /\ Extends /\ Here' = Here + Len(s)
         /\ \A i \in 1 .. Len(s) : log'[Here + i] = s[i]
<1>1. log \in Seq(Events)
  BY DEF Types
<1>2. /\ log' \in Seq(Events) /\ Len(log') = Len(log) + Len(s) /\ Len(log) \in Nat
      /\ Len(s) \in Nat /\ \A i \in 1 .. Len(log) : log'[i] = log[i]
      /\ \A i \in 1 .. Len(s) : log'[Len(log) + i] = s[i]
  BY <1>1
<1>. QED
  BY <1>2 DEF Extends, Here

\* A reading settled at one place lasts until the next event of the claim.
ReadByPlaces ==
    Types =>
      /\ \A c \in Claims, m, n \in 0 .. Here :
            m <= n /\ (\A j \in (m + 1) .. n : log[j].claim # c) =>
               /\ StatusAt(c, n) = StatusAt(c, m) /\ BaseAt(c, n) = BaseAt(c, m)
               /\ ResolvedAt(c, n) = ResolvedAt(c, m)
      /\ \A c \in Claims, n \in 1 .. Here : log[n].claim = c =>
            /\ StatusAt(c, n) = log[n].status
            /\ log[n].status # "needs_review" => BaseAt(c, n) = log[n].status

LEMMA ByPlaces == ReadByPlaces
  BY Untouched, Touched DEF ReadByPlaces

LEMMA StillRead ==
  ASSUME Types', NEW c \in Claims, NEW m \in 0 .. Here', NEW n \in 0 .. Here', m <= n,
         \A j \in (m + 1) .. n : log'[j].claim # c
  PROVE  /\ StatusAt(c, n)' = StatusAt(c, m)' /\ BaseAt(c, n)' = BaseAt(c, m)'
         /\ ResolvedAt(c, n)' = ResolvedAt(c, m)'
<1>1. ReadByPlaces'
  BY ByPlaces, PTL
<1>. QED
  BY <1>1 DEF ReadByPlaces

\* What a claim was before the step it still is, until the step adds to it.
LEMMA NotYet ==
  ASSUME Types, Types', Extends, NEW c \in Claims, NEW n \in Here .. Here',
         \A j \in (Here + 1) .. n : log'[j].claim # c
  PROVE  /\ StatusAt(c, n)' = Full(c) /\ BaseAt(c, n)' = Base(c)
         /\ ResolvedAt(c, n)' = ResolvedAt(c, Here)
<1>1. PICK h : h = Here
  OBVIOUS
<1>2. Here \in Nat /\ Here' \in Nat /\ Here <= Here'
  BY Logged DEF Extends
<1>3. h \in 0 .. Here /\ h \in 0 .. Here' /\ n \in 0 .. Here' /\ h <= n /\ n \in Nat
  BY <1>1, <1>2
<1>4. \A j \in (h + 1) .. n : log'[j].claim # c
  BY <1>1
<1>5. /\ StatusAt(c, n)' = StatusAt(c, h)' /\ BaseAt(c, n)' = BaseAt(c, h)'
      /\ ResolvedAt(c, n)' = ResolvedAt(c, h)'
  BY <1>3, <1>4, StillRead
<1>6. /\ StatusAt(c, h)' = StatusAt(c, h) /\ BaseAt(c, h)' = BaseAt(c, h)
      /\ ResolvedAt(c, h)' = ResolvedAt(c, h)
  BY <1>3, Settled
<1>. QED
  BY <1>1, <1>5, <1>6 DEF Full, Base

\* The confirmation gate of the code gives the auditor its grounds.
LEMMA ConfirmGrounds ==
  ASSUME IInv, Types', Extends, NEW c \in Claims, NEW k \in (Here + 1) .. Here',
         log'[k].claim = c, UNCHANGED <<premises, cited, gone, room>>, Ready(c),
         \A d \in premises : d.of = c => \A j \in (Here + 1) .. (k - 1) : log'[j].claim # d.on
  PROVE  ConfirmedOnGrounds(k)'
<1>1. Types /\ AttestedInv /\ Here \in Nat /\ Here' \in Nat /\ k \in Nat /\ k - 1 \in Here .. Here'
  BY Logged DEF IInv, Extends
<1>2. c \in room'.demanding \/ cited'[c] \in 1 .. k - 1 => Supported(c, k)'
  <2>1. \A n \in Nat : 0 \notin 1 .. n
    OBVIOUS
  <2>2. k - 1 \in Nat /\ Here <= k - 1 /\ cited[c] \in Nat
    BY <1>1 DEF Types
  <2>3. cited[c] # 0 => cited[c] \in 1 .. k - 1
    <3>1. cited[c] # 0 => cited[c] <= Here
      BY DEF IInv, PastInv
    <3>. QED
      BY <1>1, <2>2, <3>1
  <2>. QED
    BY <2>1, <2>2, <2>3 DEF Ready, Usable, Supported
<1>3. ASSUME NEW d \in premises, d.of = c
      PROVE  ResolvedAt(d.on, k - 1)' = "confirmed"
  <2>1. PICK x : x = d.on
    OBVIOUS
  <2>2. x \in Claims
    BY <1>1, <2>1 DEF Types
  <2>3. Full(x) = "confirmed"
    BY <1>3, <2>1 DEF Ready
  <2>4. ResolvedAt(x, Here) = "confirmed"
    BY <1>1, <2>2, <2>3, ReadersAgree DEF ResolversAgree
  <2>5. PICK n : n = k - 1
    OBVIOUS
  <2>6. ResolvedAt(x, n)' = ResolvedAt(x, Here)
    BY <1>1, <1>3, <2>1, <2>2, <2>5, NotYet
  <2>. QED
    BY <2>1, <2>4, <2>5, <2>6
<1>. QED
  BY <1>2, <1>3 DEF ConfirmedOnGrounds

-----------------------------------------------------------------------------
(* Rejecting a claim as false confirms its negation.                       *)

\* What the step leaves in the log: a may be 1, when the negation is new.
Negated(c, negation, h, a) ==
    /\ h = Here /\ a \in {0, 1} /\ Here' = h + a + 2
    /\ log' \in Seq(Events) /\ Extends
    /\ a = 1 => /\ Base(negation) = "none" /\ Attested(log'[h + 1])
                /\ log'[h + 1].claim = negation /\ log'[h + 1].status = "proposed"
    /\ a = 0 => Base(negation) = "proposed"
    /\ log'[h + a + 1].claim = c /\ log'[h + a + 1].status = "rejected"
    /\ log'[h + a + 1].ref \in Gestures /\ Attested(log'[h + a + 1])
    /\ log'[h + a + 2].claim = negation /\ log'[h + a + 2].status = "confirmed"
    /\ log'[h + a + 2].ref \in Gestures /\ Attested(log'[h + a + 2])

LEMMA NegationLogged ==
  ASSUME Types, NEW p \in People, NEW c \in Claims, NEW negation \in Claims,
         RejectAsFalse(p, c, negation)
  PROVE  \E h, a : /\ Negated(c, negation, h, a)
                   /\ a = Len(IF New(negation) THEN <<Proposal(negation)>> ELSE <<>>)
<1>1. PICK e1 : e1 = Proposal(negation)
  OBVIOUS
<1>2. PICK e2 : e2 = ByPerson(c, "rejected", "reject_as_false", negation)
  OBVIOUS
<1>3. PICK e3 : e3 = ByPerson(negation, "confirmed", "reject_as_false", negation)
  OBVIOUS
<1>4. /\ Here \in Nat /\ log \in Seq(Events)
      /\ "proposed" \in Statuses /\ "rejected" \in Statuses /\ "confirmed" \in Statuses
      /\ "reject_as_false" \in {"confirm", "reject", "reject_as_false", "redact"}
  BY Logged DEF Types, Statuses, Terminal
<1>5. e1 \in Events /\ e1.claim = negation /\ e1.status = "proposed" /\ Attested(e1)
  BY <1>1, <1>4, Built DEF Proposal, ProposalAt, Attested
<1>6. /\ e2 \in Events /\ e2.claim = c /\ e2.status = "rejected" /\ e2.ref \in Gestures
      /\ Attested(e2)
  BY <1>2, <1>4, GestureIs
<1>7. /\ e3 \in Events /\ e3.claim = negation /\ e3.status = "confirmed" /\ e3.ref \in Gestures
      /\ Attested(e3)
  BY <1>3, <1>4, GestureIs
<1>8. PICK h : h = Here
  OBVIOUS
<1>9. CASE New(negation)
  <2>1. PICK s : s = <<e1>> \o <<e2, e3>>
    OBVIOUS
  <2>2. log' = log \o s
    BY <1>1, <1>2, <1>3, <1>9, <2>1 DEF RejectAsFalse, Record
  <2>3. s \in Seq(Events) /\ Len(s) = 3 /\ s[1] = e1 /\ s[2] = e2 /\ s[3] = e3
    BY <1>5, <1>6, <1>7, <2>1
  <2>4. /\ log' \in Seq(Events) /\ Extends /\ Here' = Here + 3
        /\ \A i \in 1 .. 3 : log'[Here + i] = s[i]
    BY <2>2, <2>3, LogGrows
  <2>5. h + 1 + 1 = h + 2 /\ h + 1 + 2 = h + 3
    BY <1>4, <1>8
  <2>6. log'[h + 1] = e1 /\ log'[h + 1 + 1] = e2 /\ log'[h + 1 + 2] = e3 /\ Here' = h + 1 + 2
    BY <1>8, <2>3, <2>4, <2>5
  <2>7. Base(negation) = "none"
    BY <1>9 DEF New, Known
  <2>8. Negated(c, negation, h, 1)
    BY <1>5, <1>6, <1>7, <1>8, <2>4, <2>6, <2>7 DEF Negated
  <2>. QED
    BY <1>9, <2>8
<1>10. CASE ~New(negation)
  <2>1. PICK s : s = <<>> \o <<e2, e3>>
    OBVIOUS
  <2>2. log' = log \o s
    BY <1>1, <1>2, <1>3, <1>10, <2>1 DEF RejectAsFalse, Record
  <2>3. s \in Seq(Events) /\ Len(s) = 2 /\ s[1] = e2 /\ s[2] = e3
    BY <1>6, <1>7, <2>1
  <2>4. /\ log' \in Seq(Events) /\ Extends /\ Here' = Here + 2
        /\ \A i \in 1 .. 2 : log'[Here + i] = s[i]
    BY <2>2, <2>3, LogGrows
  <2>5. h + 0 + 1 = h + 1 /\ h + 0 + 2 = h + 2
    BY <1>4, <1>8
  <2>6. log'[h + 0 + 1] = e2 /\ log'[h + 0 + 2] = e3 /\ Here' = h + 0 + 2
    BY <1>8, <2>3, <2>4, <2>5
  <2>7. Base(negation) = "proposed"
    BY <1>10 DEF RejectAsFalse
  <2>8. Negated(c, negation, h, 0)
    BY <1>6, <1>7, <1>8, <2>4, <2>6, <2>7 DEF Negated
  <2>. QED
    BY <1>10, <2>8
<1>. QED
  BY <1>9, <1>10

LEMMA NegationPlaces ==
  ASSUME NEW h \in Nat, NEW a \in {0, 1}
  PROVE  /\ h + a + 1 \in (h + 1) .. (h + a + 2) /\ h + a + 2 \in (h + 1) .. (h + a + 2)
         /\ a = 1 => h + 1 \in (h + 1) .. (h + a + 2)
         /\ \A k \in (h + 1) .. (h + a + 2) :
               k = h + a + 2 \/ k = h + a + 1 \/ (a = 1 /\ k = h + 1)
         /\ \A k \in (h + 1) .. (h + a) : a = 1 /\ k = h + 1
         /\ \A k \in (h + 1) .. (h + a + 1) : k = h + a + 1 \/ (a = 1 /\ k = h + 1)
         /\ \A k \in (h + a + 1) .. (h + a + 1) : k = h + a + 1
         /\ \A k \in (h + 2) .. (h + a + 1) : k = h + a + 1
         /\ \A k \in (h + a + 2) .. (h + a + 2) : k = h + a + 2
         /\ (h + 1) .. h = {} /\ (h + a + 3) .. (h + a + 2) = {}
         /\ h + a + 2 - 1 = h + a + 1 /\ h + a + 1 - 1 = h + a /\ h + 1 - 1 = h
         /\ h + a + 1 + 1 = h + a + 2 /\ h + a + 2 + 1 = h + a + 3
         /\ h \in h .. (h + a + 2) /\ h + a \in h .. (h + a + 2)
         /\ h + a + 1 \in h .. (h + a + 2)
         /\ h + 1 <= h + a + 1 /\ h + a <= h + a + 2
  OBVIOUS

LEMMA NegationMoves ==
  ASSUME IInv, Types', NEW c \in Claims, NEW negation \in Claims, c # negation,
         NEW h, NEW a, Negated(c, negation, h, a), Base(c) = "proposed"
  PROVE  /\ Base(c)' = "rejected" /\ ~EverConfirmed(c) /\ ~EverConfirmed(c)'
         /\ Authority(c)' \in Gestures
         /\ Base(negation)' = "confirmed" /\ ~EverConfirmed(negation) /\ EverConfirmed(negation)'
         /\ Authority(negation)' \in Gestures
         /\ \A d \in Claims : d # c /\ d # negation => Same(d)
<1>. USE DEF Negated
<1>1. Types /\ LineInv /\ h \in Nat /\ Extends /\ h = Here /\ Here' = h + a + 2 /\ a \in {0, 1}
  BY Logged DEF IInv
<1>2. ~EverConfirmed(c) /\ ~EverConfirmed(negation)
  BY <1>1 DEF LineInv, NeverInv
<1>3. ASSUME NEW d \in Claims, d # c, d # negation PROVE Same(d)
  <2>1. \A j \in (h + 1) .. Here' : j = h + a + 2 \/ j = h + a + 1 \/ (a = 1 /\ j = h + 1)
    BY <1>1, NegationPlaces
  <2>2. \A j \in (Here + 1) .. Here' : log'[j].claim # d
    BY <1>1, <1>3, <2>1
  <2>. QED
    BY <1>1, <2>2, ClaimStays
<1>4. /\ Base(c)' = "rejected" /\ ~EverConfirmed(c)' /\ Authority(c)' \in Gestures
  <2>1. PICK k : k = h + a + 1
    OBVIOUS
  <2>2. /\ k \in (Here + 1) .. Here' /\ log'[k].claim = c /\ log'[k].status = "rejected"
        /\ log'[k].ref \in Gestures
    BY <1>1, <2>1, NegationPlaces
  <2>3. \A j \in (k + 1) .. Here' : log'[j].claim # c
    BY <1>1, <2>1, NegationPlaces
  <2>4. \A j \in (Here + 1) .. k : log'[j].claim = c => log'[j].status # "confirmed"
    BY <1>1, <2>1, NegationPlaces
  <2>. QED
    BY <1>1, <1>2, <2>2, <2>3, <2>4, ClaimMoves
<1>5. /\ Base(negation)' = "confirmed" /\ EverConfirmed(negation)' /\ Authority(negation)' \in Gestures
  <2>1. PICK k : k = h + a + 2
    OBVIOUS
  <2>2. /\ k \in (Here + 1) .. Here' /\ log'[k].claim = negation /\ log'[k].status = "confirmed"
        /\ log'[k].ref \in Gestures
    BY <1>1, <2>1, NegationPlaces
  <2>3. \A j \in (k + 1) .. Here' : log'[j].claim # negation
    BY <1>1, <2>1, NegationPlaces
  <2>4. k \in (Here + 1) .. k
    BY <1>1, <2>1, NegationPlaces
  <2>. QED
    BY <1>1, <2>2, <2>3, <2>4, ClaimMoves
<1>. QED
  BY <1>2, <1>3, <1>4, <1>5

LEMMA NegationEvents ==
  ASSUME IInv, Types', NEW c \in Claims, NEW negation \in Claims, c # negation,
         NEW h, NEW a, Negated(c, negation, h, a), Base(c) = "proposed", Ready(negation),
         UNCHANGED <<premises, cited, gone, room>>
  PROVE  NewEvents
<1>. USE DEF Negated
<1>1. /\ Types /\ PastInv /\ h \in Nat /\ Extends /\ h = Here /\ Here' = h + a + 2
      /\ a \in {0, 1}
  BY Logged DEF IInv
<1>2. PICK k2, k3, m2, m3 : k2 = h + a + 1 /\ k3 = h + a + 2 /\ m2 = k2 - 1 /\ m3 = k3 - 1
  OBVIOUS
<1>3. /\ m2 = h + a /\ m3 = h + a + 1 /\ m2 \in Here .. Here' /\ m3 \in Here .. Here'
      /\ h \in Here .. Here' /\ k3 \in (Here + 1) .. Here'
  BY <1>1, <1>2, NegationPlaces
<1>4. AllowedStep(k2)'
  <2>1. \A j \in (Here + 1) .. m2 : log'[j].claim # c
    BY <1>1, <1>3, NegationPlaces
  <2>2. BaseAt(c, m2)' = "proposed"
    BY <1>1, <1>3, <2>1, NotYet
  <2>3. log'[k2].claim = c /\ log'[k2].status = "rejected"
    BY <1>2
  <2>. QED
    BY <1>2, <2>2, <2>3, Allows DEF AllowedStep
<1>5. AllowedStep(k3)'
  <2>1. BaseAt(negation, m3)' = "proposed"
    <3>1. CASE a = 0
      <4>1. \A j \in (Here + 1) .. m3 : log'[j].claim # negation
        BY <1>1, <1>3, <3>1, NegationPlaces
      <4>. QED
        BY <1>1, <1>3, <3>1, <4>1, NotYet
    <3>2. CASE a = 1
      <4>1. PICK k1 : k1 = h + 1
        OBVIOUS
      <4>2. /\ k1 \in 1 .. Here' /\ k1 \in 0 .. Here' /\ m3 \in 0 .. Here' /\ k1 <= m3
            /\ k1 + 1 = h + 2
        BY <1>1, <1>3, <3>2, <4>1
      <4>3. \A j \in (k1 + 1) .. m3 : log'[j].claim # negation
        BY <1>1, <1>3, <4>2, NegationPlaces
      <4>4. ReadByPlaces'
        BY ByPlaces, PTL
      <4>5. log'[k1].claim = negation /\ log'[k1].status = "proposed"
        BY <3>2, <4>1
      <4>6. BaseAt(negation, k1)' = "proposed"
        BY <4>2, <4>4, <4>5 DEF ReadByPlaces
      <4>. QED
        BY <4>2, <4>3, <4>6, StillRead
    <3>. QED
      BY <1>1, <3>1, <3>2
  <2>2. log'[k3].claim = negation /\ log'[k3].status = "confirmed"
    BY <1>2
  <2>. QED
    BY <1>2, <2>1, <2>2, Allows DEF AllowedStep
<1>6. ConfirmedOnGrounds(k3)'
  <2>1. \A d \in premises : d.of = negation => d.on # negation /\ d.on # c
    <3>1. Full(c) # "confirmed"
      <4>1. BaseAt(c, Here) = "proposed"
        BY DEF Base
      <4>2. ResolvedAt(c, Here) # "confirmed"
        BY <4>1 DEF ResolvedAt
      <4>. QED
        BY <4>2, ReadersAgree DEF ResolversAgree, IInv
    <3>. QED
      BY <1>1, <3>1 DEF Ready, PastInv
  <2>2. \A j \in (Here + 1) .. m3 : log'[j].claim \in {c, negation}
    <3>1. \A j \in (h + 1) .. m3 : j = h + a + 1 \/ (a = 1 /\ j = h + 1)
      BY <1>1, <1>3, NegationPlaces
    <3>. QED
      BY <1>1, <3>1
  <2>3. \A d \in premises : d.of = negation => \A j \in (Here + 1) .. (k3 - 1) : log'[j].claim # d.on
    BY <1>2, <2>1, <2>2
  <2>4. log'[k3].claim = negation
    BY <1>2
  <2>. QED
    BY <1>1, <1>3, <2>3, <2>4, ConfirmGrounds
<1>7. ASSUME NEW k, k = h + 1, a = 1 PROVE AllowedStep(k)'
  <2>1. \A j \in (Here + 1) .. h : log'[j].claim # negation
    BY <1>1, NegationPlaces
  <2>2. BaseAt(negation, h)' = "none"
    BY <1>1, <1>3, <1>7, <2>1, NotYet
  <2>3. log'[k].claim = negation /\ log'[k].status = "proposed" /\ k - 1 = h
    BY <1>1, <1>7
  <2>. QED
    BY <2>2, <2>3, Allows DEF AllowedStep
<1>8. ASSUME NEW k \in (Here + 1) .. Here'
      PROVE  /\ AllowedStep(k)' /\ ConfirmedOnGrounds(k)'
             /\ log'[k].status \notin {"challenged", "superseded"}
             /\ Attested(log'[k])
  <2>1. k = k3 \/ k = k2 \/ (a = 1 /\ k = h + 1)
    <3>1. k \in (h + 1) .. (h + a + 2)
      BY <1>1
    <3>2. k = h + a + 2 \/ k = h + a + 1 \/ (a = 1 /\ k = h + 1)
      BY <1>1, <3>1, NegationPlaces
    <3>. QED
      BY <1>2, <3>2
  <2>2. CASE k = k3
    BY <1>2, <1>5, <1>6, <2>2
  <2>3. CASE k = k2
    BY <1>2, <1>4, <2>3 DEF ConfirmedOnGrounds
  <2>4. CASE a = 1 /\ k = h + 1
    BY <1>7, <2>4 DEF ConfirmedOnGrounds
  <2>. QED
    BY <2>1, <2>2, <2>3, <2>4
<1>. QED
  BY <1>8 DEF NewEvents, ChallengedOnGrounds, SupersededOnGrounds

LEMMA RejectsAsFalse ==
  ASSUME IInv, NEW p \in People, NEW c \in Claims, NEW negation \in Claims,
         RejectAsFalse(p, c, negation)
  PROVE  IInv' /\ Quiet
<1>1. Types /\ PastInv /\ LineInv /\ Here \in Nat
  BY Logged DEF IInv
<1>2. PICK h, a : /\ Negated(c, negation, h, a)
                  /\ a = Len(IF New(negation) THEN <<Proposal(negation)>> ELSE <<>>)
  BY <1>1, NegationLogged
<1>3. PICK l : l = [Link(negation, "refutes", c) EXCEPT !.at = h + a]
  OBVIOUS
<1>4. PICK n : n = h + a + 2
  OBVIOUS
<1>5. /\ c # negation /\ Base(c) = "proposed" /\ Ready(negation)
      /\ LinksFrom(negation, "supersedes") = {}
      /\ UNCHANGED <<retracted, premises, cited, gone, room>>
      /\ screen' = [screen EXCEPT ![p] = NoScreen]
  BY DEF RejectAsFalse, Decides
<1>6. links' = links \cup {l} /\ ContentPolicy(c, n)
  BY <1>2, <1>3, <1>4 DEF RejectAsFalse, AddLink, Negated
<1>7. h \in Nat /\ a \in {0, 1} /\ n \in Nat /\ h + a \in Nat /\ h + a <= Here' /\ Extends
  BY <1>1, <1>2, <1>4, NegationPlaces DEF Negated
<1>8. /\ l \in LinkSet /\ l.from = negation /\ l.type = "refutes" /\ l.to = c /\ l.at = h + a
      /\ links' \in SUBSET LinkSet /\ IsFiniteSet(links')
  <2>1. PICK m : m = h + a
    OBVIOUS
  <2>2. l = [from |-> negation, type |-> "refutes", to |-> c, at |-> m] /\ m \in Nat
    BY <1>3, <1>7, <2>1 DEF Link
  <2>3. "refutes" \in {"supersedes", "conflicts_with", "refutes"}
    OBVIOUS
  <2>4. /\ l \in LinkSet /\ l.from = negation /\ l.type = "refutes" /\ l.to = c /\ l.at = m
        /\ links \cup {l} \in SUBSET LinkSet /\ IsFiniteSet(links \cup {l})
    BY <1>1, <2>2, <2>3, LinkIs
  <2>. QED
    BY <1>6, <2>1, <2>4, Zenon
<1>9. Types'
  <2>1. retracted' \in SUBSET [link : links', at : Nat]
    BY <1>1, <1>5, <1>6 DEF Types
  <2>2. redacted' \in SUBSET Redactions
    BY <1>1, <1>6, <1>7, PolicyTypes
  <2>3. screen' = [q \in People |-> screen'[q]]
    BY <1>1, <1>5, Screens
  <2>4. log' \in Seq(Events)
    BY <1>2 DEF Negated
  <2>. QED
    BY <1>1, <1>5, <1>8, <2>1, <2>2, <2>3, <2>4, Zenon DEF Types, Redactions
<1>10. Grows
  BY <1>5, <1>6, <1>7 DEF Grows
<1>11. NewEntries
  <2>1. \A q \in People : screen'[q] = screen[q] \/ ~screen'[q].shown
    BY <1>1, <1>5, Screens
  <2>2. \A m \in links' \ links : m = l
    BY <1>6
  <2>. QED
    BY <1>5, <1>7, <1>8, <2>1, <2>2 DEF NewEntries
<1>12. /\ Base(c)' = "rejected" /\ ~EverConfirmed(c) /\ ~EverConfirmed(c)'
       /\ Authority(c)' \in Gestures
       /\ Base(negation)' = "confirmed" /\ ~EverConfirmed(negation) /\ EverConfirmed(negation)'
       /\ Authority(negation)' \in Gestures
       /\ \A d \in Claims : d # c /\ d # negation => Same(d)
  BY <1>2, <1>5, <1>9, NegationMoves
<1>13. \A r \in redacted' \ redacted : RedactedOnGrounds(r)'
  BY <1>1, <1>6, <1>7, <1>12, PolicyRedacts
<1>14. NewEvents
  BY <1>2, <1>5, <1>9, NegationEvents
<1>15. \A r \in retracted' : r.link \in LinkSet
  BY <1>1, <1>5 DEF Types
<1>16. Moves(c)
  BY <1>5, <1>12, <1>15, RefsDiffer DEF Moves, Terminal
<1>17. Moves(negation)
  <2>1. Base(negation) \in {"none", "proposed"}
    BY <1>2 DEF Negated
  <2>. QED
    BY <1>12, <1>15, <2>1, RefsDiffer DEF Moves, Terminal
<1>18. SupersessionsInForce' = SupersessionsInForce
  <2>1. \A m : ActiveLink(m)' <=> ActiveLink(m)
    BY <1>5 DEF ActiveLink
  <2>2. \A d \in Claims : d # negation => (EverConfirmed(d)' <=> EverConfirmed(d))
    BY <1>12 DEF Same
  <2>3. \A m \in links : m.from \in Claims
    BY <1>1 DEF Types, LinkSet
  <2>4. \A m \in links : m.type = "supersedes" /\ ActiveLink(m) => m.from # negation
    BY <1>5 DEF LinksFrom
  <2>. QED
    BY <1>6, <1>8, <2>1, <2>2, <2>3, <2>4 DEF SupersessionsInForce
<1>19. Quiet
  <2>1. \A d \in Claims : Same(d) \/ Moves(d)
    BY <1>12, <1>16, <1>17
  <2>. QED
    BY <1>5, <1>13, <1>18, <2>1 DEF Quiet
<1>. QED
  BY <1>9, <1>10, <1>11, <1>14, <1>19, QuietStep

-----------------------------------------------------------------------------
(* Confirming a claim ends its predecessors.                               *)

LEMMA Orders ==
  ASSUME NEW S, IsFiniteSet(S), NEW order \in SetToSeqs(S)
  PROVE  /\ Cardinality(S) \in Nat /\ order \in [1 .. Cardinality(S) -> S]
         /\ order \in Seq(S) /\ Len(order) = Cardinality(S)
         /\ \A i, j \in 1 .. Cardinality(S) : order[i] = order[j] => i = j
         /\ \A x \in S : \E i \in 1 .. Cardinality(S) : order[i] = x
<1>1. PICK n : n = Cardinality(S)
  OBVIOUS
<1>2. n \in Nat
  BY <1>1, FS_CardinalityType
<1>3. order \in [1 .. n -> S] /\ \A i, j \in 1 .. n : i # j => order[i] # order[j]
  BY <1>1 DEF SetToSeqs
<1>4. order \in Injection(1 .. n, S)
  BY <1>3 DEF Injection, IsInjective
<1>5. IsFiniteSet(1 .. n) /\ Cardinality(1 .. n) = n
  BY <1>2, FS_Interval
<1>6. order \in Surjection(1 .. n, S)
  BY <1>1, <1>4, <1>5, FS_Injection
<1>7. \A x \in S : \E i \in 1 .. n : order[i] = x
  BY <1>6 DEF Surjection
<1>8. order \in Seq(S) /\ Len(order) = n
  BY <1>2, <1>3
<1>. QED
  BY <1>1, <1>2, <1>3, <1>7, <1>8

\* The predecessors a confirmation of c has to end.
Old(c) == {l \in LinksFrom(c, "supersedes") : Base(l.to) # "superseded"}

\* What the step leaves in the log after its first h events.
Succeeds(c, h) ==
    /\ h = Here /\ log' \in Seq(Events) /\ Extends /\ h + 1 \in (h + 1) .. Here'
    /\ log'[h + 1].claim = c /\ log'[h + 1].status = "confirmed" /\ log'[h + 1].at = h
    /\ log'[h + 1].ref \in Gestures /\ ByGesture(log'[h + 1])
    /\ \A k \in (h + 1) .. Here' : Attested(log'[k])
    /\ \A k \in (h + 2) .. Here' :
          \E l \in Old(c) : /\ log'[k].claim = l.to /\ log'[k].status = "superseded"
                            /\ log'[k].ref = l /\ log'[k].at = h
    /\ \A l \in Old(c) : \E k \in (h + 2) .. Here' : log'[k].ref = l
    /\ \A j, k \in (h + 2) .. Here' : log'[j].ref = log'[k].ref => j = k

LEMMA ConfirmLogged ==
  ASSUME Types, NEW p \in People, NEW c \in Claims, ConfirmClaim(p, c)
  PROVE  \E h \in Nat : Succeeds(c, h)
<1>1. PICK h : h = Here
  OBVIOUS
<1>2. h \in Nat
  BY <1>1, Logged
<1>3. PICK old : old = Old(c)
  OBVIOUS
<1>4. IsFiniteSet(old) /\ old \in SUBSET LinkSet
  <2>1. IsFiniteSet(links) /\ links \in SUBSET LinkSet
    BY Zenon DEF Types
  <2>2. old \in SUBSET links
    BY <1>3 DEF Old, LinksFrom
  <2>. QED
    BY <2>1, <2>2, FS_Subset
<1>5. PICK order \in SetToSeqs(old) :
         log' = log \o (<<ByPerson(c, "confirmed", "confirm", c)>> \o SupersededBy(order))
  BY <1>3 DEF ConfirmClaim, Record, Old
<1>6. PICK n : n = Cardinality(old)
  OBVIOUS
<1>7. /\ n \in Nat /\ order \in [1 .. n -> old] /\ DOMAIN order = 1 .. n
      /\ \A i, j \in 1 .. n : order[i] = order[j] => i = j
      /\ \A x \in old : \E i \in 1 .. n : order[i] = x
  BY <1>4, <1>6, Orders
<1>8. PICK e : e = ByPerson(c, "confirmed", "confirm", c)
  OBVIOUS
<1>9. /\ e \in Events /\ e.claim = c /\ e.status = "confirmed" /\ e.at = h
      /\ e.ref \in Gestures /\ ByGesture(e) /\ Attested(e)
  <2>1. "confirmed" \in Statuses /\ "confirm" \in {"confirm", "reject", "reject_as_false", "redact"}
    BY DEF Statuses
  <2>. QED
    BY <1>1, <1>8, <2>1, GestureIs
<1>10. PICK s : s = SupersededBy(order)
  OBVIOUS
<1>11. s = [i \in 1 .. n |-> EventAt(h, order[i].to, "superseded", "human", "claim_link", order[i])]
  BY <1>1, <1>7, <1>10 DEF SupersededBy, Event
<1>12. ASSUME NEW i \in 1 .. n
       PROVE  /\ s[i] \in Events /\ s[i].claim = order[i].to /\ s[i].status = "superseded"
              /\ s[i].ref = order[i] /\ s[i].at = h /\ order[i] \in old
              /\ Attested(s[i])
  <2>1. PICK l : l = order[i]
    OBVIOUS
  <2>2. l \in old /\ l \in LinkSet /\ l.to \in Claims
    BY <1>4, <1>7, <2>1 DEF LinkSet
  <2>3. s[i] = EventAt(h, l.to, "superseded", "human", "claim_link", l)
    BY <1>11, <2>1
  <2>4. "superseded" \in Statuses
    BY DEF Statuses, Terminal
  <2>5. /\ s[i] \in Events /\ s[i].claim = l.to /\ s[i].status = "superseded"
        /\ s[i].ref = l /\ s[i].at = h /\ s[i].by = "human" /\ s[i].basis = "claim_link"
    BY <1>2, <2>2, <2>3, <2>4, Built
  <2>6. Attested(s[i])
    BY <2>5 DEF Attested
  <2>. QED
    BY <2>1, <2>2, <2>5, <2>6
<1>13. s \in Seq(Events) /\ Len(s) = n
  <2>1. s \in [1 .. n -> Events]
    BY <1>11, <1>12
  <2>. QED
    BY <1>7, <2>1
<1>14. PICK t : t = <<e>> \o s
  OBVIOUS
<1>15. /\ t \in Seq(Events) /\ Len(t) = n + 1 /\ t[1] = e
       /\ \A i \in 1 .. n : t[i + 1] = s[i]
  BY <1>7, <1>9, <1>13, <1>14
<1>16. /\ log' \in Seq(Events) /\ Extends /\ Here' = h + (n + 1)
       /\ \A i \in 1 .. (n + 1) : log'[h + i] = t[i]
  BY <1>1, <1>5, <1>8, <1>10, <1>14, <1>15, LogGrows
<1>17. /\ 1 \in 1 .. (n + 1) /\ h + 1 \in (h + 1) .. Here'
       /\ \A k \in (h + 2) .. Here' : k - h - 1 \in 1 .. n /\ k = h + ((k - h - 1) + 1)
       /\ \A i \in 1 .. n : h + (i + 1) \in (h + 2) .. Here' /\ i + 1 \in 1 .. (n + 1)
       /\ \A j, k \in (h + 2) .. Here' : j - h - 1 = k - h - 1 => j = k
  BY <1>2, <1>7, <1>16
<1>18. log'[h + 1] = e
  BY <1>15, <1>16, <1>17
<1>19. \A i \in 1 .. n : log'[h + (i + 1)] = s[i]
  BY <1>15, <1>16, <1>17
<1>20. \A k \in (h + 2) .. Here' : log'[k] = s[k - h - 1]
  BY <1>17, <1>19
<1>21. \A k \in (h + 2) .. Here' :
          \E l \in Old(c) : /\ log'[k].claim = l.to /\ log'[k].status = "superseded"
                            /\ log'[k].ref = l /\ log'[k].at = h
  BY <1>3, <1>12, <1>17, <1>20
<1>22. \A k \in (h + 1) .. Here' : Attested(log'[k])
  <2>1. \A k \in (h + 1) .. Here' : k = h + 1 \/ k \in (h + 2) .. Here'
    BY <1>2, <1>7, <1>16
  <2>. QED
    BY <1>9, <1>12, <1>17, <1>18, <1>20, <2>1
<1>23. \A l \in Old(c) : \E k \in (h + 2) .. Here' : log'[k].ref = l
  <2>. SUFFICES ASSUME NEW l \in Old(c) PROVE \E k \in (h + 2) .. Here' : log'[k].ref = l
    OBVIOUS
  <2>1. PICK i \in 1 .. n : order[i] = l
    BY <1>3, <1>7
  <2>2. log'[h + (i + 1)].ref = l
    BY <1>12, <1>19, <2>1
  <2>. QED
    BY <1>17, <2>2
<1>24. \A j, k \in (h + 2) .. Here' : log'[j].ref = log'[k].ref => j = k
  <2>. SUFFICES ASSUME NEW j \in (h + 2) .. Here', NEW k \in (h + 2) .. Here',
                       log'[j].ref = log'[k].ref
                PROVE  j = k
    OBVIOUS
  <2>1. j - h - 1 \in 1 .. n /\ k - h - 1 \in 1 .. n
    BY <1>17
  <2>2. order[j - h - 1] = order[k - h - 1]
    BY <1>12, <1>20, <2>1
  <2>3. j - h - 1 = k - h - 1
    BY <1>7, <2>1, <2>2
  <2>. QED
    BY <1>17, <2>3
<1>. QED
  BY <1>1, <1>2, <1>9, <1>16, <1>17, <1>18, <1>21, <1>22, <1>23, <1>24
     DEF Succeeds

LEMMA Predecessors ==
  ASSUME IInv, NEW c \in Claims
  PROVE  /\ \A l \in Old(c) : /\ l \in links /\ l \in LinkSet /\ l.type = "supersedes"
                              /\ l.from = c /\ l.to \in Claims /\ l.to # c /\ l.at <= Here
                              /\ ActiveLink(l)
         /\ \A l, m \in Old(c) : l.to = m.to => l = m
<1>1. \A l \in Old(c) : l \in links /\ l.type = "supersedes" /\ l.from = c /\ ActiveLink(l)
  BY DEF Old, LinksFrom
<1>2. links \in SUBSET LinkSet
  BY DEF IInv, Types
<1>3. \A l \in LinkSet : l.to \in Claims
  BY DEF LinkSet
<1>4. \A l \in links : l.at <= Here /\ l.from # l.to
  BY DEF IInv, PastInv
<1>5. \A l, m \in Old(c) : l.to = m.to => l = m
  BY <1>1 DEF IInv, DistinctInv
<1>. QED
  BY <1>1, <1>2, <1>3, <1>4, <1>5

LEMMA SuccessionPlaces ==
  ASSUME NEW h \in Nat, NEW n \in Nat, h + 1 <= n
  PROVE  /\ h + 1 \in (h + 1) .. n /\ h + 1 \in h .. n /\ h \in h .. n /\ h \in 0 .. n
         /\ \A k \in (h + 1) .. n : k = h + 1 \/ k \in (h + 2) .. n
         /\ \A k \in (h + 2) .. n : /\ k \in (h + 1) .. n /\ k \in Nat
                                    /\ \A j \in (k + 1) .. n : j \in (h + 2) .. n /\ j # k
                                    /\ \A j \in (h + 1) .. (k - 1) :
                                          j = h + 1 \/ (j \in (h + 2) .. n /\ j # k)
                                    /\ k - 1 \in h .. n /\ h + 1 \in 1 .. (k - 1)
         /\ \A j \in (h + 1 + 1) .. n : j \in (h + 2) .. n
         /\ h + 1 - 1 = h /\ (h + 1) .. h = {}
         /\ \A k \in (h + 2) .. n : \A j \in (h + 1) .. k : j = h + 1 \/ j \in (h + 2) .. n
  OBVIOUS

\* Each claim is moved at most once.
LEMMA SuccessionMoves ==
  ASSUME IInv, Types', NEW c \in Claims, NEW h \in Nat, Succeeds(c, h)
  PROVE  /\ \A k \in (h + 2) .. Here' :
               /\ log'[k].claim # c
               /\ \A j \in (h + 2) .. Here' : j # k => log'[j].claim # log'[k].claim
         /\ Base(c)' = "confirmed" /\ Authority(c)' \in Gestures /\ EverConfirmed(c)'
         /\ \A l \in Old(c) : \E k \in (h + 2) .. Here' :
               /\ Base(l.to)' = "superseded" /\ Authority(l.to)' = l /\ LastBase(l.to)' = k
               /\ EverConfirmed(l.to)' <=> EverConfirmed(l.to)
         /\ \A d \in Claims : d # c /\ (\A l \in Old(c) : l.to # d) => Same(d)
<1>1. /\ Types /\ h = Here /\ Extends /\ Here' \in Nat /\ h + 1 <= Here'
  BY Logged DEF IInv, Succeeds, Extends
<1>2. \A k \in (h + 2) .. Here' : \E l \in Old(c) : /\ log'[k].claim = l.to
                            /\ log'[k].status = "superseded" /\ log'[k].ref = l
  BY DEF Succeeds
<1>3. ASSUME NEW k \in (h + 2) .. Here'
      PROVE  /\ log'[k].claim # c
             /\ \A j \in (h + 2) .. Here' : j # k => log'[j].claim # log'[k].claim
  <2>1. PICK l \in Old(c) : log'[k].claim = l.to /\ log'[k].ref = l
    BY <1>2
  <2>2. ASSUME NEW j \in (h + 2) .. Here', j # k PROVE log'[j].claim # log'[k].claim
    <3>1. PICK m \in Old(c) : log'[j].claim = m.to /\ log'[j].ref = m
      BY <1>2
    <3>2. l # m
      BY <2>1, <2>2, <3>1 DEF Succeeds
    <3>. QED
      BY <2>1, <3>1, <3>2, Predecessors
  <2>. QED
    BY <2>1, <2>2, Predecessors
<1>4. Base(c)' = "confirmed" /\ Authority(c)' \in Gestures /\ EverConfirmed(c)'
  <2>1. PICK k : k = h + 1
    OBVIOUS
  <2>2. /\ k \in (Here + 1) .. Here' /\ k \in (Here + 1) .. k /\ log'[k].claim = c
        /\ log'[k].status = "confirmed" /\ log'[k].ref \in Gestures
    BY <1>1, <2>1, SuccessionPlaces DEF Succeeds
  <2>3. \A j \in (k + 1) .. Here' : log'[j].claim # c
    BY <1>1, <1>3, <2>1, SuccessionPlaces
  <2>. QED
    BY <1>1, <2>2, <2>3, ClaimMoves
<1>5. ASSUME NEW l \in Old(c)
      PROVE  \E k \in (h + 2) .. Here' :
               /\ Base(l.to)' = "superseded" /\ Authority(l.to)' = l /\ LastBase(l.to)' = k
               /\ EverConfirmed(l.to)' <=> EverConfirmed(l.to)
  <2>1. PICK k \in (h + 2) .. Here' : log'[k].ref = l
    BY DEF Succeeds
  <2>2. log'[k].claim = l.to /\ log'[k].status = "superseded"
    BY <1>2, <2>1
  <2>3. PICK d : d = l.to
    OBVIOUS
  <2>4. d \in Claims /\ d # c /\ log'[k].claim = d
    BY <2>2, <2>3, Predecessors
  <2>5. k \in (Here + 1) .. Here' /\ \A j \in (k + 1) .. Here' : log'[j].claim # d
    BY <1>1, <1>3, <2>4, SuccessionPlaces
  <2>6. \A j \in (Here + 1) .. k : log'[j].claim = d => log'[j].status # "confirmed"
    <3>1. \A j \in (h + 1) .. k : j = h + 1 \/ j \in (h + 2) .. Here'
      BY <1>1, SuccessionPlaces
    <3>2. log'[h + 1].claim # d
      BY <2>4 DEF Succeeds
    <3>. QED
      BY <1>1, <1>2, <3>1, <3>2
  <2>7. /\ Base(d)' = "superseded" /\ Authority(d)' = l /\ LastBase(d)' = k
        /\ EverConfirmed(d)' <=> EverConfirmed(d)
    BY <1>1, <2>1, <2>2, <2>4, <2>5, <2>6, ClaimMoves
  <2>. QED
    BY <2>3, <2>7
<1>6. ASSUME NEW d \in Claims, d # c, \A l \in Old(c) : l.to # d PROVE Same(d)
  <2>1. \A j \in (h + 1) .. Here' : j = h + 1 \/ j \in (h + 2) .. Here'
    BY <1>1, SuccessionPlaces
  <2>2. log'[h + 1].claim # d
    BY <1>6 DEF Succeeds
  <2>3. \A j \in (h + 2) .. Here' : log'[j].claim # d
    BY <1>2, <1>6
  <2>4. \A j \in (h + 1) .. Here' : log'[j].claim # d
    BY <2>1, <2>2, <2>3
  <2>. QED
    BY <1>1, <2>4, ClaimStays
<1>. QED
  BY <1>3, <1>4, <1>5, <1>6

LEMMA OverlayStands ==
  ASSUME Types, NEW c \in Claims, Full(c) = "needs_review", Base(c) \notin Terminal
  PROVE  OverlaidAt(c, Here)
<1>1. Here \in Nat /\ EventsOf(c, Here) \in SUBSET (1 .. Here)
  BY Logged, PlacesOf
<1>. DEFINE m == Latest(EventsOf(c, Here))
<1>2. EventsOf(c, Here) # {} /\ log[m].status = "needs_review"
  BY DEF Full, StatusAt
<1>3. m \in EventsOf(c, Here) /\ \A i \in EventsOf(c, Here) : i <= m
  BY <1>1, <1>2, LatestOf
<1>4. \A i \in EventsOf(c, Here) : ByGesture(log[i]) => i <= m /\ i # m /\ i \in Nat
  BY <1>1, <1>2, <1>3 DEF ByGesture
<1>5. m \in Nat
  BY <1>1, <1>3
<1>6. \A i \in EventsOf(c, Here) : ByGesture(log[i]) => i < m
  BY <1>4, <1>5
<1>. QED
  BY <1>2, <1>3, <1>6 DEF OverlaidAt, Base


LEMMA SuccessionEvents ==
  ASSUME IInv, Types', NEW c \in Claims, NEW h \in Nat, Succeeds(c, h), Confirmable(c),
         \A l \in Old(c) : "superseded" \in BaseTransitions(Base(l.to)),
         UNCHANGED <<links, retracted, premises, cited, gone, room>>
  PROVE  NewEvents
<1>1. /\ Types /\ h = Here /\ Extends /\ Here' \in Nat /\ h + 1 <= Here'
  BY Logged DEF IInv, Succeeds, Extends
<1>2. PICK k1 : k1 = h + 1
  OBVIOUS
<1>3. /\ log'[k1].claim = c /\ log'[k1].status = "confirmed" /\ log'[k1].at = h
      /\ ByGesture(log'[k1]) /\ k1 - 1 = h /\ k1 \in (Here + 1) .. Here'
  BY <1>1, <1>2, SuccessionPlaces DEF Succeeds
<1>4. /\ Confirmable(c) /\ Ready(c)
  BY DEF Confirmable
<1>5. AllowedStep(k1)'
  <2>1. BaseAt(c, h)' = Base(c) /\ OverlaidAt(c, h)' = OverlaidAt(c, Here)
    <3>1. h \in 0 .. Here
      BY <1>1, SuccessionPlaces
    <3>. QED
      BY <1>1, <3>1, Settled DEF Base
  <2>2. CASE Base(c) \in {"proposed", "challenged"}
    BY <1>3, <2>1, <2>2, Allows DEF AllowedStep
  <2>3. CASE Base(c) = "confirmed" /\ Full(c) = "needs_review"
    <3>1. OverlaidAt(c, Here)
      BY <1>1, <2>3, OverlayStands DEF Terminal
    <3>. QED
      BY <1>3, <2>1, <2>3, <3>1 DEF AllowedStep, ByGesture
  <2>. QED
    BY <1>4, <2>2, <2>3 DEF Confirmable
<1>6. ConfirmedOnGrounds(k1)'
  <2>1. (Here + 1) .. (k1 - 1) = {}
    BY <1>1, <1>3, SuccessionPlaces
  <2>2. \A d \in premises : d.of = c => \A j \in (Here + 1) .. (k1 - 1) : log'[j].claim # d.on
    BY <2>1
  <2>. QED
    BY <1>1, <1>3, <1>4, <2>2, ConfirmGrounds
<1>7. ASSUME NEW k \in (h + 2) .. Here'
      PROVE  /\ AllowedStep(k)' /\ SupersededOnGrounds(k)' /\ log'[k].status = "superseded"
  <2>1. PICK l \in Old(c) : /\ log'[k].claim = l.to /\ log'[k].status = "superseded"
                            /\ log'[k].ref = l /\ log'[k].at = h
    BY DEF Succeeds
  <2>2. PICK d : d = l.to
    OBVIOUS
  <2>3. /\ d \in Claims /\ d # c /\ log'[k].claim = d
        /\ l \in links /\ l \in LinkSet /\ l.type = "supersedes" /\ l.from = c /\ l.to = d
        /\ l.at <= Here /\ ActiveLink(l)
    BY <2>1, <2>2, Predecessors
  <2>4. PICK m : m = k - 1
    OBVIOUS
  <2>5. m \in Here .. Here' /\ k1 \in 1 .. m
    BY <1>1, <1>2, <2>4, SuccessionPlaces
  <2>6. \A j \in (Here + 1) .. m : log'[j].claim # d
    <3>1. \A j \in (h + 1) .. m : j = h + 1 \/ (j \in (h + 2) .. Here' /\ j # k)
      BY <1>1, <2>4, SuccessionPlaces
    <3>2. \A j \in (h + 2) .. Here' : j # k => log'[j].claim # d
      BY <2>3, SuccessionMoves
    <3>. QED
      BY <1>1, <1>2, <1>3, <2>3, <3>1, <3>2
  <2>7. BaseAt(d, m)' = Base(d)
    BY <1>1, <2>3, <2>5, <2>6, NotYet
  <2>8. AllowedStep(k)'
    BY <2>1, <2>2, <2>3, <2>4, <2>7 DEF AllowedStep
  <2>9. LinkStood(l, k)'
    <3>1. l.at < k
      <4>1. l.at \in Nat /\ l.at <= h /\ k \in (h + 2) .. Here'
        BY <1>1, <2>3 DEF LinkSet
      <4>. QED
        BY <4>1
    <3>2. \A r \in retracted' : r.link # l
      BY <2>3 DEF ActiveLink
    <3>. QED
      BY <2>3, <3>1, <3>2 DEF LinkStood
  <2>10. k1 \in EventsOf(c, m)'
    BY <1>3, <2>5 DEF EventsOf
  <2>11. SupersededOnGrounds(k)'
    <3>1. /\ l.type = "supersedes" /\ l.to = log'[k].claim /\ LinkStood(l, k)'
          /\ log'[k1].status = "confirmed" /\ log'[k1].at = log'[k].at
          /\ k1 \in EventsOf(l.from, k - 1)'
      BY <1>3, <2>1, <2>3, <2>4, <2>9, <2>10
    <3>. QED
      BY <2>1, <3>1 DEF SupersededOnGrounds
  <2>. QED
    BY <2>1, <2>8, <2>11
<1>8. ASSUME NEW k \in (Here + 1) .. Here'
      PROVE  /\ AllowedStep(k)' /\ ConfirmedOnGrounds(k)'
             /\ ChallengedOnGrounds(k)' /\ SupersededOnGrounds(k)'
             /\ Attested(log'[k])
  <2>1. k = k1 \/ k \in (h + 2) .. Here'
    BY <1>1, <1>2, SuccessionPlaces
  <2>2. Attested(log'[k])
    BY <1>1 DEF Succeeds
  <2>3. CASE k = k1
    BY <1>3, <1>5, <1>6, <2>3, <2>2 DEF ChallengedOnGrounds, SupersededOnGrounds
  <2>4. CASE k \in (h + 2) .. Here'
    BY <1>7, <2>4, <2>2 DEF ConfirmedOnGrounds, ChallengedOnGrounds
  <2>. QED
    BY <2>1, <2>3, <2>4
<1>. QED
  BY <1>8 DEF NewEvents

\* How the line of succession stands after the step.
LEMMA SuccessionKeepsLine ==
  ASSUME IInv, Types', NEW c \in Claims, NEW h \in Nat, Succeeds(c, h), Confirmable(c),
         Rivals(c) = {}, \A l \in Old(c) : "superseded" \in BaseTransitions(Base(l.to)),
         UNCHANGED <<links, retracted, redacted>>
  PROVE  LineInv' /\ \A d \in Claims : Base(d)' = Base(d) \/ Base(d)' # "none"
<1>1. Types /\ LineInv /\ DistinctInv /\ h = Here /\ links \in SUBSET LinkSet
  BY DEF IInv, Succeeds, Types
<1>2. /\ Base(c)' = "confirmed" /\ Authority(c)' \in Gestures /\ EverConfirmed(c)'
      /\ \A l \in Old(c) : \E k \in (h + 2) .. Here' :
               /\ Base(l.to)' = "superseded" /\ Authority(l.to)' = l /\ LastBase(l.to)' = k
               /\ EverConfirmed(l.to)' <=> EverConfirmed(l.to)
      /\ \A d \in Claims : d # c /\ (\A l \in Old(c) : l.to # d) => Same(d)
  BY <1>1, SuccessionMoves
<1>3. Base(c) \in {"proposed", "challenged", "confirmed"}
  BY DEF Confirmable
<1>4. \A l \in Old(c) : Base(l.to) \in {"confirmed", "challenged"}
  BY Transitions
<1>5. \A d \in Claims : Base(d) \in Terminal => Same(d)
  BY <1>2, <1>3, <1>4 DEF Terminal
<1>6. "superseded" \in Terminal
  BY DEF Terminal
<1>7. \A l \in links : l.from \in Claims /\ l.to \in Claims
  BY <1>1 DEF LinkSet
<1>8. \A d \in Claims : d # c => (EverConfirmed(d)' <=> EverConfirmed(d))
  <2>. SUFFICES ASSUME NEW d \in Claims, d # c PROVE EverConfirmed(d)' <=> EverConfirmed(d)
    OBVIOUS
  <2>1. CASE \E l \in Old(c) : l.to = d
    BY <1>2, <2>1
  <2>2. CASE \A l \in Old(c) : l.to # d
    BY <1>2, <2>2 DEF Same
  <2>. QED
    BY <2>1, <2>2
<1>9. \A l : ActiveLink(l)' <=> ActiveLink(l)
  BY DEF ActiveLink
<1>10. /\ SupersessionsInForce \subseteq SupersessionsInForce'
       /\ LinksFrom(c, "supersedes") \subseteq SupersessionsInForce'
       /\ \A l \in SupersessionsInForce' :
             l \in SupersessionsInForce \/ l \in LinksFrom(c, "supersedes")
  BY <1>2, <1>7, <1>8, <1>9 DEF SupersessionsInForce, LinksFrom
<1>11. Old(c) \subseteq LinksFrom(c, "supersedes")
  BY DEF Old
<1>12. \A d \in Claims : Base(d)' = "superseded" =>
          Same(d) \/ \E l \in Old(c) : l.to = d /\ Authority(d)' = l
  BY <1>2
<1>13. NeverInv'
  <2>. SUFFICES ASSUME NEW d \in Claims,
                       Base(d)' \in {"none", "proposed", "rejected", "expired"}
                PROVE  ~EverConfirmed(d)'
    BY DEF NeverInv
  <2>1. Same(d)
    BY <1>2
  <2>. QED
    BY <1>1, <2>1 DEF Same, LineInv, NeverInv
<1>14. RedactedInv'
  <2>. SUFFICES ASSUME NEW r \in redacted' PROVE RedactedOnGrounds(r)'
    BY DEF RedactedInv
  <2>1. RedactedOnGrounds(r) /\ r.claim \in Claims
    BY <1>1 DEF LineInv, RedactedInv, Types
  <2>2. Same(r.claim)
    BY <1>5, <2>1 DEF RedactedOnGrounds
  <2>. QED
    BY <2>1, <2>2 DEF RedactedOnGrounds, Same
<1>15. RetractedInv'
  <2>. SUFFICES ASSUME NEW r \in retracted' PROVE Authority(r.link.to)' # r.link
    BY DEF RetractedInv
  <2>1. r \in retracted /\ r.link \in links /\ r.link \in LinkSet
    BY <1>1 DEF Types
  <2>2. PICK d : d = r.link.to
    OBVIOUS
  <2>3. d \in Claims /\ Authority(d) # r.link
    BY <1>1, <1>7, <2>1, <2>2 DEF LineInv, RetractedInv
  <2>4. CASE d = c
    BY <1>2, <2>1, <2>2, <2>4, RefsDiffer
  <2>5. CASE \E l \in Old(c) : l.to = d
    <3>1. PICK l \in Old(c) : l.to = d
      BY <2>5
    <3>2. Authority(d)' = l /\ ActiveLink(l)
      BY <1>2, <3>1, Predecessors
    <3>. QED
      BY <2>1, <2>2, <3>2 DEF ActiveLink
  <2>6. CASE d # c /\ \A l \in Old(c) : l.to # d
    BY <1>2, <2>2, <2>3, <2>6 DEF Same
  <2>. QED
    BY <2>4, <2>5, <2>6
<1>16. ForceInv'
  <2>. SUFFICES ASSUME NEW l \in SupersessionsInForce'
                PROVE  Base(l.to)' = "superseded" /\ Authority(l.to)' = l
    BY DEF ForceInv
  <2>1. CASE l \in Old(c)
    BY <1>2, <2>1
  <2>2. ASSUME Base(l.to) = "superseded", Authority(l.to) = l, l.to \in Claims
        PROVE  Base(l.to)' = "superseded" /\ Authority(l.to)' = l
    <3>1. Same(l.to)
      BY <1>5, <1>6, <2>2
    <3>. QED
      BY <2>2, <3>1 DEF Same
  <2>3. CASE l \in SupersessionsInForce
    <3>1. Base(l.to) = "superseded" /\ Authority(l.to) = l
      BY <1>1, <2>3 DEF LineInv, ForceInv
    <3>2. l.to \in Claims
      BY <1>7, <2>3 DEF SupersessionsInForce
    <3>. QED
      BY <2>2, <3>1, <3>2
  <2>4. CASE l \in LinksFrom(c, "supersedes") /\ l \notin Old(c)
    <3>1. Base(l.to) = "superseded" /\ l \in links /\ l.to \in Claims
      BY <1>7, <2>4 DEF Old, LinksFrom
    <3>2. PICK a : a = Authority(l.to)
      OBVIOUS
    <3>3. a \in SupersessionsInForce /\ a.to = l.to
      BY <1>1, <3>1, <3>2 DEF LineInv, HeldInv
    <3>4. a \in links /\ a.type = "supersedes" /\ ActiveLink(a) /\ EverConfirmed(a.from)
          /\ a.from \in Claims
      BY <1>7, <3>3 DEF SupersessionsInForce
    <3>5. a \in LinksFrom(a.from, "supersedes")
      BY <3>4 DEF LinksFrom
    <3>6. a.from = c
      <4>. SUFFICES ASSUME a.from # c PROVE FALSE
        OBVIOUS
      <4>1. a.from \in Rivals(c)
        BY <2>4, <3>3, <3>4, <3>5 DEF Rivals
      <4>. QED
        BY <4>1
    <3>7. a = l
      BY <1>1, <2>4, <3>3, <3>4, <3>6 DEF DistinctInv, LinksFrom
    <3>. QED
      BY <2>2, <3>1, <3>2, <3>7
  <2>. QED
    BY <1>10, <2>1, <2>3, <2>4
<1>17. HeldInv'
  <2>. SUFFICES ASSUME NEW d \in Claims, Base(d)' = "superseded"
                PROVE  Authority(d)' \in SupersessionsInForce' /\ Authority(d)'.to = d
    BY DEF HeldInv
  <2>1. CASE Same(d)
    <3>1. Base(d) = "superseded" /\ Authority(d)' = Authority(d)
      BY <2>1 DEF Same
    <3>2. Authority(d) \in SupersessionsInForce /\ Authority(d).to = d
      BY <1>1, <3>1 DEF LineInv, HeldInv
    <3>. QED
      BY <1>10, <3>1, <3>2
  <2>2. CASE \E l \in Old(c) : l.to = d /\ Authority(d)' = l
    BY <1>10, <1>11, <2>2
  <2>. QED
    BY <1>12, <2>1, <2>2
<1>18. RankInv'
  <2>. SUFFICES ASSUME NEW d \in Claims, Base(d)' = "superseded",
                       Base(Authority(d).from)' = "superseded"
                PROVE  LastBase(d)' < LastBase(Authority(d).from)'
    BY DEF RankInv
  <2>1. PICK f : f = Authority(d)'.from
    OBVIOUS
  <2>2. Base(f)' = "superseded" /\ f # c
    BY <1>2, <2>1
  <2>3. Same(d)
    <3>1. CASE \E l \in Old(c) : l.to = d /\ Authority(d)' = l
      <4>1. PICK l \in Old(c) : Authority(d)' = l
        BY <3>1
      <4>2. f = c
        BY <2>1, <4>1, Predecessors
      <4>. QED
        BY <2>2, <4>2
    <3>. QED
      BY <1>12, <3>1
  <2>4. Base(d) = "superseded" /\ Authority(d)' = Authority(d) /\ LastBase(d)' = LastBase(d)
    BY <2>3 DEF Same
  <2>5. f = Authority(d).from /\ f \in Claims
    <3>1. Authority(d) \in SupersessionsInForce
      BY <1>1, <2>4 DEF LineInv, HeldInv
    <3>2. Authority(d) \in links
      BY <3>1 DEF SupersessionsInForce
    <3>. QED
      BY <1>7, <2>1, <2>4, <3>2
  <2>6. LastBase(d) \in 1 .. h
    <3>1. Bases(d, Here) # {}
      BY <2>4, ByBases DEF ReadByBases
    <3>2. Bases(d, Here) \in SUBSET (1 .. Here) /\ Here \in Nat
      BY <1>1, PlacesOf
    <3>3. Latest(Bases(d, Here)) \in 1 .. Here
      BY <3>1, <3>2, LatestOf
    <3>. QED
      BY <1>1, <3>3, ByBases DEF ReadByBases
  <2>7. LastBase(d) < LastBase(f)'
    <3>1. CASE Same(f)
      <4>1. Base(f) = "superseded" /\ LastBase(f)' = LastBase(f)
        BY <2>2, <3>1 DEF Same
      <4>2. LastBase(d) < LastBase(f)
        BY <1>1, <2>4, <2>5, <4>1 DEF LineInv, RankInv
      <4>. QED
        BY <4>1, <4>2
    <3>2. CASE \E l \in Old(c) : l.to = f
      <4>1. PICK k \in (h + 2) .. Here' : LastBase(f)' = k
        BY <1>2, <3>2
      <4>2. \A x \in 1 .. h, y \in (h + 2) .. Here' : x < y
        OBVIOUS
      <4>. QED
        BY <2>6, <4>1, <4>2
    <3>. QED
      BY <1>12, <2>2, <2>5, <3>1, <3>2
  <2>. QED
    BY <2>1, <2>4, <2>7
<1>19. \A d \in Claims : Base(d)' = Base(d) \/ Base(d)' # "none"
  BY <1>2 DEF Same
<1>. QED
  BY <1>13, <1>14, <1>15, <1>16, <1>17, <1>18, <1>19 DEF LineInv

LEMMA Confirms ==
  ASSUME IInv, NEW p \in People, NEW c \in Claims, ConfirmClaim(p, c)
  PROVE  IInv'
<1>1. Types /\ PastInv
  BY DEF IInv
<1>2. PICK h \in Nat : Succeeds(c, h)
  BY <1>1, ConfirmLogged
<1>3. /\ Confirmable(c) /\ Rivals(c) = {}
      /\ \A l \in Old(c) : "superseded" \in BaseTransitions(Base(l.to))
      /\ UNCHANGED <<links, retracted, premises, cited, gone, redacted, room>>
      /\ screen' = [screen EXCEPT ![p] = NoScreen]
  BY DEF ConfirmClaim, Decides, Old
<1>4. Types' /\ Grows /\ NewEntries
  <2>1. redacted' \in SUBSET Redactions
    BY <1>1, <1>3, Zenon DEF Types, Redactions
  <2>2. log' \in Seq(Events) /\ Extends
    BY <1>2 DEF Succeeds
  <2>. QED
    BY <1>1, <1>3, <2>1, <2>2, Frame
<1>5. NewEvents
  BY <1>2, <1>3, <1>4, SuccessionEvents
<1>6. LineInv' /\ \A d \in Claims : Base(d)' = Base(d) \/ Base(d)' # "none"
  BY <1>2, <1>3, <1>4, SuccessionKeepsLine
<1>7. EventsInv' /\ AttestedInv' /\ PastInv' /\ DistinctInv'
  BY <1>4, <1>5, <1>6, EventsHold, EntriesHold DEF IInv
<1>. QED
  BY <1>4, <1>6, <1>7 DEF IInv

-----------------------------------------------------------------------------
(* Every behaviour.                                                        *)

\* A ledger of proposals, each of a claim of its own.
LEMMA InitHolds == Init => IInv
<1>. SUFFICES ASSUME Init PROVE IInv
  OBVIOUS
<1>1. PICK early \in kSubset(room.early, Claims) : \E order \in SetToSeqs(early) :
          log = [i \in DOMAIN order |-> ProposalAt(i - 1, order[i])]
  BY Zenon DEF Init
<1>2. PICK order \in SetToSeqs(early) :
          log = [i \in DOMAIN order |-> ProposalAt(i - 1, order[i])]
  BY <1>1
<1>3. /\ links = {} /\ retracted = {} /\ premises = {} /\ redacted = {}
      /\ cited = [c \in Claims |-> 0] /\ gone = [c \in Claims |-> 0]
      /\ screen = [p \in People |-> NoScreen]
  BY DEF Init
<1>4. IsFiniteSet(early) /\ early \in SUBSET Claims
  <2>1. early \in SUBSET Claims
    BY DEF kSubset
  <2>. QED
    BY <2>1, LedgerAssumption, FS_Subset
<1>5. PICK n : n = Cardinality(early)
  OBVIOUS
<1>6. /\ n \in Nat /\ order \in [1 .. n -> early] /\ DOMAIN order = 1 .. n
      /\ \A i, j \in 1 .. n : order[i] = order[j] => i = j
  BY <1>4, <1>5, Orders
<1>7. \A i \in 1 .. n : i - 1 \in Nat
  OBVIOUS
<1>8. log = [i \in 1 .. n |-> ProposalAt(i - 1, order[i])]
  BY <1>2, <1>6
<1>9. ASSUME NEW i \in 1 .. n
      PROVE  /\ log[i] \in Events /\ log[i].claim = order[i] /\ log[i].status = "proposed"
             /\ order[i] \in Claims /\ Attested(log[i])
  <2>1. PICK m, c : m = i - 1 /\ c = order[i]
    OBVIOUS
  <2>2. m \in Nat /\ c \in Claims
    BY <1>4, <1>6, <1>7, <2>1
  <2>3. log[i] = EventAt(m, c, "proposed", "agent", "rule", NoRef)
    BY <1>8, <2>1 DEF ProposalAt
  <2>4. "proposed" \in Statuses
    BY DEF Statuses
  <2>5. /\ log[i] \in Events /\ log[i].claim = c /\ log[i].status = "proposed"
        /\ log[i].basis = "rule"
    BY <2>2, <2>3, <2>4, Built
  <2>. QED
    BY <2>1, <2>2, <2>5 DEF Attested
<1>10. log \in Seq(Events) /\ Here = n
  <2>1. log \in [1 .. n -> Events]
    BY <1>8, <1>9
  <2>. QED
    BY <1>6, <2>1 DEF Here
<1>11. Types
  <2>1. links \in SUBSET LinkSet /\ IsFiniteSet(links) /\ retracted \in SUBSET [link : links, at : Nat]
    BY <1>3, FS_EmptySet
  <2>2. /\ premises \in SUBSET [of : Claims, on : Claims, at : Nat]
        /\ cited \in [Claims -> Nat] /\ gone \in [Claims -> Nat]
        /\ redacted \in SUBSET [claim : Claims, at : Nat, basis : {"policy", "gesture"}]
    BY <1>3
  <2>3. screen = [p \in People |-> screen[p]]
    <3>. HIDE DEF NoScreen
    <3>. QED
      BY <1>3
  <2>. QED
    BY <1>10, <2>1, <2>2, <2>3, Zenon DEF Types
<1>12. PastInv /\ DistinctInv
  <2>1. \A p \in People : ~screen[p].shown
    BY <1>3 DEF NoScreen
  <2>. QED
    BY <1>3, <2>1 DEF PastInv, DistinctInv
<1>13. EventsInv /\ AttestedInv
  <2>. SUFFICES ASSUME NEW i \in 1 .. Here
                PROVE  /\ log[i].status = "proposed" /\ AllowedStep(i) /\ Attested(log[i])
    BY DEF EventsInv, AttestedInv, ConfirmedOnGrounds, ChallengedOnGrounds, SupersededOnGrounds
  <2>1. i \in 1 .. n
    BY <1>10
  <2>2. PICK c : c = log[i].claim
    OBVIOUS
  <2>3. PICK m : m = i - 1
    OBVIOUS
  <2>4. \A j \in 1 .. m : j \in 1 .. n /\ j # i
    BY <1>6, <2>1, <2>3
  <2>5. \A j \in 1 .. m : log[j].claim # c
    BY <1>6, <1>9, <2>1, <2>2, <2>4
  <2>6. BaseAt(c, m) = "none"
    BY <2>5 DEF BaseAt, EventsOf
  <2>. QED
    BY <1>9, <2>1, <2>2, <2>3, <2>6, Allows DEF AllowedStep
<1>14. \A c \in Claims : Base(c) \in {"none", "proposed"} /\ ~EverConfirmed(c)
  <2>. SUFFICES ASSUME NEW c \in Claims PROVE Base(c) \in {"none", "proposed"} /\ ~EverConfirmed(c)
    OBVIOUS
  <2>1. Bases(c, Here) \in SUBSET (1 .. Here) /\ Here \in Nat
    BY <1>6, <1>10, PlacesOf
  <2>2. \A i \in Bases(c, Here) : log[i].status = "proposed"
    BY <1>9, <1>10, <2>1
  <2>3. Bases(c, Here) # {} => LastBase(c) \in Bases(c, Here)
    BY <2>1, LatestOf, ByBases DEF ReadByBases
  <2>. QED
    BY <2>2, <2>3, ByBases DEF ReadByBases
<1>15. LineInv
  BY <1>3, <1>14 DEF LineInv, NeverInv, RedactedInv, RetractedInv, ForceInv, HeldInv, RankInv,
                     SupersessionsInForce
<1>. QED
  BY <1>11, <1>12, <1>13, <1>15 DEF IInv

LEMMA OperationHolds ==
  ASSUME IInv, Operation
  PROVE  IInv' /\ Quiet
<1>1. CASE \E c \in Claims : \/ ProposeClaim(c) \/ AttachSupport(c) \/ RedactEvidence(c)
                             \/ MarkNeedsReview(c) \/ ExpireClaim(c)
  BY <1>1, Proposes, AttachesSupport, RedactsEvidence, MarksForReview, Expires
<1>2. CASE \E c, d \in Claims : \/ AddDerivation(c, d) \/ SupersedeClaim(c, d)
                                \/ \E by \in {"agent", "human"} : ChallengeClaim(c, d, by)
  BY <1>2, AddsDerivation, Supersedes, Challenges
<1>3. CASE \E l \in links : RetractLink(l)
  BY <1>3, RetractsLink
<1>. QED
  BY <1>1, <1>2, <1>3, Zenon DEF Operation

LEMMA DecisionHolds ==
  ASSUME IInv, Decision
  PROVE  IInv' /\ (Quiet \/ \E p \in People, c \in Claims : ConfirmClaim(p, c))
<1>1. PICK p \in People :
       \/ NoDecision(p)
       \/ \E c \in Claims :
             \/ \E s \in room.surfaces, act \in room.acts : ShowReview(p, s, c, act)
             \/ ConfirmClaim(p, c) \/ ConfirmLosesRace(p, c)
             \/ RejectClaim(p, c) \/ RedactClaim(p, c)
             \/ \E n \in Claims : RejectAsFalse(p, c, n)
  BY Zenon DEF Decision
<1>2. CASE NoDecision(p)
  BY <1>2, TurnsAway
<1>3. ASSUME NEW c \in Claims,
             \/ \E s \in room.surfaces, act \in room.acts : ShowReview(p, s, c, act)
             \/ ConfirmLosesRace(p, c) \/ RejectClaim(p, c) \/ RedactClaim(p, c)
             \/ \E n \in Claims : RejectAsFalse(p, c, n)
      PROVE  IInv' /\ Quiet
  BY <1>3, ShowsReview, LosesRace, Rejects, Redacts, RejectsAsFalse
<1>4. ASSUME NEW c \in Claims, ConfirmClaim(p, c) PROVE IInv'
  BY <1>4, Confirms
<1>. QED
  BY <1>1, <1>2, <1>3, <1>4, Zenon

LEMMA StutterHolds ==
  ASSUME IInv, UNCHANGED vars
  PROVE  IInv'
<1>1. UNCHANGED <<log, links, retracted, premises, cited, gone, redacted, screen, room>>
  BY DEF vars, ledger
<1>2. Here' = Here /\ Extends /\ log' \in Seq(Events)
  BY <1>1, Still DEF IInv
<1>3. Types' /\ Grows /\ NewEntries
  <2>1. redacted' \in SUBSET Redactions
    BY <1>1, Zenon DEF IInv, Types, Redactions
  <2>. QED
    BY <1>1, <1>2, <2>1, Frame DEF IInv
<1>. QED
  BY <1>1, <1>3, Unlogged

\* The ledger is well formed, every event of it was appended with its grounds,
\* and the line of succession stands, in every state of every behaviour.
THEOREM Invariance == Spec => []IInv
<1>1. IInv /\ [Next]_vars => IInv'
  <2>. SUFFICES ASSUME IInv, [Next]_vars PROVE IInv'
    OBVIOUS
  <2>1. CASE Operation
    BY <2>1, OperationHolds
  <2>2. CASE Decision
    BY <2>2, DecisionHolds
  <2>3. CASE UNCHANGED vars
    BY <2>3, StutterHolds
  <2>. QED
    BY <2>1, <2>2, <2>3, Zenon DEF Next
<1>. QED
  BY <1>1, InitHolds, PTL DEF Spec

LEMMA EndedOnRecord ==
  ASSUME Types, NEW c \in Claims, Base(c) = "superseded"
  PROVE  /\ LastBase(c) \in EventsOf(c, Here) /\ LastBase(c) \in 1 .. Here
         /\ log[LastBase(c)].status = "superseded" /\ log[LastBase(c)].ref = Authority(c)
<1>1. Bases(c, Here) \in SUBSET (1 .. Here) /\ Here \in Nat
  BY Logged, PlacesOf
<1>2. Bases(c, Here) # {}
  BY ByBases DEF ReadByBases
<1>3. LastBase(c) \in Bases(c, Here)
  BY <1>1, <1>2, LatestOf, ByBases DEF ReadByBases
<1>4. log[LastBase(c)].status = "superseded" /\ log[LastBase(c)].ref = Authority(c)
  BY <1>2, ByBases DEF ReadByBases
<1>5. LastBase(c) \in EventsOf(c, Here)
  BY <1>3 DEF Bases
<1>. QED
  BY <1>1, <1>3, <1>4, <1>5

\* The auditor of the store never finds an error in the lifecycle: every
\* transition was allowed, came from whoever may make it and had its grounds
\* (a person's gesture for each confirmation), no authority was withdrawn since,
\* no confirmed claim was redacted by policy, and every supersession in force
\* has ended its predecessor (queries.py integrity_findings).
THEOREM AuditClean == Spec => []AuditIsClean
<1>1. IInv => AuditIsClean
  <2>. SUFFICES ASSUME IInv PROVE AuditIsClean
    OBVIOUS
  <2>1. Types /\ EventsInv /\ AttestedInv /\ RedactedInv /\ RetractedInv /\ ForceInv /\ HeldInv
    BY DEF IInv, LineInv
  <2>2. ASSUME NEW l \in SupersessionsInForce
        PROVE  \E i \in EventsOf(l.to, Here) : log[i].status = "superseded" /\ log[i].ref = l
    <3>1. Base(l.to) = "superseded" /\ Authority(l.to) = l
      BY <2>1 DEF ForceInv
    <3>2. l.to \in Claims
      BY <2>1, Forces DEF LinkSet
    <3>. QED
      BY <2>1, <3>1, <3>2, EndedOnRecord
  <2>3. \A c \in Claims : Base(c) = "superseded" => \E l \in SupersessionsInForce : l.to = c
    BY <2>1 DEF HeldInv
  <2>. QED
    BY <2>1, <2>2, <2>3
       DEF AuditIsClean, EventsInv, AttestedInv, RedactedInv, RetractedInv
<1>. QED
  BY <1>1, Invariance, PTL

\* Followed from any superseded claim, the links of succession lead to one that
\* still speaks and never round in a circle: a successor is superseded, if at
\* all, after its predecessor was.  No claim has two successors ever confirmed.
THEOREM OneHead == Spec => []LineageHasOneHead
<1>1. IInv => LineageHasOneHead
  <2>. SUFFICES ASSUME IInv PROVE LineageHasOneHead
    OBVIOUS
  <2>1. Types /\ ForceInv /\ HeldInv /\ RankInv /\ Here \in Nat
    BY Logged DEF IInv, LineInv
  <2>2. ASSUME NEW cycle \in (SUBSET Claims) \ {{}},
               \A c \in cycle : Base(c) = "superseded" /\ Authority(c).from \in cycle
        PROVE  FALSE
    <3>. DEFINE T == {LastBase(c) : c \in cycle}
    <3>1. T \in SUBSET (0 .. Here) /\ T # {}
      <4>1. \A c \in cycle : LastBase(c) \in 1 .. Here
        BY <2>1, <2>2, EndedOnRecord
      <4>2. \A n \in Nat : \A x \in 1 .. n : x \in 0 .. n
        OBVIOUS
      <4>3. \A c \in cycle : LastBase(c) \in 0 .. Here
        BY <2>1, <4>1, <4>2
      <4>4. PICK c \in cycle : TRUE
        OBVIOUS
      <4>5. LastBase(c) \in T
        BY <4>4
      <4>. QED
        BY <4>3, <4>5
    <3>2. PICK x \in T : \A y \in T : y <= x
      BY <2>1, <3>1, HasGreatest
    <3>3. PICK c \in cycle : x = LastBase(c)
      BY <3>2
    <3>4. PICK d : d = Authority(c).from
      OBVIOUS
    <3>5. d \in cycle /\ Base(d) = "superseded" /\ Base(c) = "superseded"
      BY <2>2, <3>3, <3>4
    <3>6. LastBase(c) < LastBase(d)
      BY <2>1, <3>4, <3>5 DEF RankInv
    <3>7. LastBase(d) <= LastBase(c) /\ LastBase(d) \in 0 .. Here /\ LastBase(c) \in 0 .. Here
      BY <3>1, <3>2, <3>3, <3>5
    <3>. QED
      BY <3>6, <3>7
  <2>3. \A l, m \in SupersessionsInForce : l.to = m.to => l.from = m.from
    BY <2>1 DEF ForceInv
  <2>. QED
    BY <2>2, <2>3 DEF LineageHasOneHead
<1>. QED
  BY <1>1, Invariance, PTL

\* The resolver that the writing side uses for a premise and the one of every
\* query never disagree on what is confirmed: only a gesture confirms, and an
\* overlay stands until a gesture (store.py _latest_status_locked, queries.py
\* STATUS_RESOLUTION_CTE).
THEOREM ResolversAlwaysAgree == Spec => []ResolversAgree
<1>1. IInv => ResolversAgree
  BY ReadersAgree DEF IInv
<1>. QED
  BY <1>1, Invariance, PTL

\* A claim is superseded only by a person deciding on its successor, and on the
\* dashboard by one who was shown the link that does it (truth_surface.py binds
\* the decision to the relations it displayed).
THEOREM InSight == Spec => SupersededInSight
<1>. DEFINE Shown(c) ==
       \E p \in People :
           /\ screen[p].shown /\ ~screen[p].shown'
           /\ screen[p].claim = Authority(c)'.from
           /\ screen[p].surface = "dashboard" => Authority(c)' \in screen[p].context.links
<1>1. ASSUME IInv, IInv', NEW p \in People, NEW c \in Claims, ConfirmClaim(p, c), NEW d \in Claims,
             Base(d) # "superseded", Base(d)' = "superseded"
      PROVE  Shown(d)
  <2>1. PICK h \in Nat : Succeeds(c, h)
    BY <1>1, ConfirmLogged DEF IInv
  <2>2. Types'
    BY <1>1 DEF IInv
  <2>3. d # c /\ ~Same(d)
    BY <1>1, <2>1, <2>2, SuccessionMoves DEF Same
  <2>4. PICK l \in Old(c) : l.to = d
    BY <1>1, <2>1, <2>2, <2>3, SuccessionMoves
  <2>5. Authority(d)' = l /\ l.from = c /\ l \in links
    BY <1>1, <2>1, <2>2, <2>4, SuccessionMoves, Predecessors
  <2>6. /\ screen[p].shown /\ screen[p].claim = c
        /\ screen[p].context = Context(screen[p].surface, c)
        /\ screen' = [screen EXCEPT ![p] = NoScreen]
    BY <1>1 DEF ConfirmClaim, Decides
  <2>7. ~screen'[p].shown
    <3>1. DOMAIN screen = People
      BY <1>1 DEF IInv, Types
    <3>2. screen'[p] = NoScreen
      BY <2>6, <3>1
    <3>. QED
      BY <3>2 DEF NoScreen
  <2>8. screen[p].surface = "dashboard" => l \in screen[p].context.links
    BY <2>5, <2>6 DEF Context
  <2>. QED
    BY <2>5, <2>6, <2>7, <2>8
<1>2. IInv /\ IInv' /\ [Next]_vars =>
         [\A c \in Claims : Base(c) # "superseded" /\ Base(c)' = "superseded" => Shown(c)]_vars
  <2>. SUFFICES ASSUME IInv, IInv', Next, NEW c \in Claims,
                       Base(c) # "superseded", Base(c)' = "superseded"
                PROVE  Shown(c)
    OBVIOUS
  <2>1. ~Quiet
    BY DEF Quiet, Same, Moves
  <2>2. PICK p \in People, d \in Claims : ConfirmClaim(p, d)
    BY <2>1, OperationHolds, DecisionHolds, Zenon DEF Next
  <2>. QED
    BY <1>1, <2>2
<1>. QED
  BY <1>2, Invariance, PTL DEF Spec, SupersededInSight
=============================================================================
