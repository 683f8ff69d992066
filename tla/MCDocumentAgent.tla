-------------------------- MODULE MCDocumentAgent --------------------------
EXTENDS DocumentAgent, TLC

Symmetry ==
    Permutations(Targeted) \union Permutations(Plain) \union Permutations(Replies)
        \union Permutations(Models)
=============================================================================
