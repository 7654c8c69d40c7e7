------------------------- MODULE MCDashboardPresence -------------------------
(* Instances of DashboardPresence for TLC: two tabs of ann and one of bob, *)
(* of one tenant, whose conversations are k1 and k2; k3 is another         *)
(* tenant's.                                                               *)
EXTENDS DashboardPresence, TLC

CONSTANTS ann1, ann2, bob1, ann, bob, k1, k2, k3

Tabs == ann1 :> ann @@ ann2 :> ann @@ bob1 :> bob
OneTenant == [c \in Client |-> {k1, k2}]

(* ann's two tabs are alike, and so are the tenant's two conversations. *)
Alike == Permutations({ann1, ann2}) \cup Permutations({k1, k2})
=============================================================================
