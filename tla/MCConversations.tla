--------------------------- MODULE MCConversations ---------------------------
EXTENDS Conversations, TLC

CONSTANTS c1, c2

TheCallers == {c1, c2}

Symmetry == Permutations(TheCallers)
=============================================================================
