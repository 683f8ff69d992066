------------------------- MODULE MCActionProposals -------------------------
EXTENDS ActionProposals
=============================================================================
