---------------------------- MODULE MCResideSend ----------------------------
EXTENDS ResideSend, TLC

CONSTANTS c1, c2, n1, n2, u1, u2

TheCallers == {c1, c2}
TheRecipients == {n1, n2}
TheRefs == <<u1, u2>>
Sizes == (u1 :> 2) @@ (u2 :> 1)

Symmetry == Permutations(TheCallers) \cup Permutations(TheRecipients)
=============================================================================
