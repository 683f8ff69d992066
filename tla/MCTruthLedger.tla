------------------------------ MODULE MCTruthLedger ------------------------------
EXTENDS TruthLedger

Symmetry == Permutations(Claims) \cup Permutations(People)

\* Two successors of one claim, and two people looking at once
Race ==
    [claims |-> 3, early |-> 3, events |-> 7, links |-> 2, premises |-> 0, cited |-> 0,
     reviews |-> 0, screens |-> 2, surfaces |-> {"dashboard", "consent"},
     acts |-> {"confirm"}, demanding |-> {}]

\* The same with one of them withdrawn after it has won
Succession ==
    [claims |-> 3, early |-> 3, events |-> 8, links |-> 2, premises |-> 0, cited |-> 0,
     reviews |-> 0, screens |-> 1, surfaces |-> {"dashboard", "consent"},
     acts |-> {"confirm", "redact"}, demanding |-> {}]

\* Two claims, perhaps one whose kind demands support, with evidence, a
\* derivation, a challenge and a sweep, decided on where the decision is bound
\* to the least
Grounds(demanding) ==
    [claims |-> 2, early |-> 2, events |-> 5, links |-> 1, premises |-> 1, cited |-> 1,
     reviews |-> 1, screens |-> 1, surfaces |-> {"consent"},
     acts |-> {"confirm", "reject_as_false"}, demanding |-> demanding]

\* Claims that end in every way, beside others that depend on them
Endings ==
    [claims |-> 2, early |-> 1, events |-> 5, links |-> 1, premises |-> 0, cited |-> 1,
     reviews |-> 0, screens |-> 1, surfaces |-> {"dashboard", "consent"},
     acts |-> {"confirm", "reject", "redact"}, demanding |-> {}]

MCRooms == {Race, Succession, Endings} \cup {Grounds({c}) : c \in Claims}
=============================================================================
