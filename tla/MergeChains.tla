---------------------------- MODULE MergeChains ----------------------------
(***************************************************************************)
(* Rows that are merged into one another: a function "into" from row ids   *)
(* to the row each was merged into, 0 for none.                            *)
(***************************************************************************)
EXTENDS Integers, FiniteSets

(* Where the links lead from r, followed while there is one; no chain is   *)
(* longer than the rows are many, so a walk still on a link is in a cycle. *)
Root(into, r) ==
  LET walk[n \in 0..Cardinality(DOMAIN into)] ==
        IF n = 0 THEN r
        ELSE LET s == walk[n - 1] IN IF into[s] = 0 THEN s ELSE into[s]
  IN walk[Cardinality(DOMAIN into)]

Ended(into, r) == into[Root(into, r)] = 0
=============================================================================
