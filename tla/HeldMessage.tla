---------------------------- MODULE HeldMessage ----------------------------
(***************************************************************************)
(* What the compose screen promises an admin who writes to a resident: the *)
(* message is held; while it is held it can be withdrawn, and a withdrawn  *)
(* message never goes out; it goes out once at most, and only after it was *)
(* cleared.  Rows, claims, workers and clocks do not appear here.          *)
(***************************************************************************)
CONSTANT Message

VARIABLES
  fate,     \* what became of each message
  cleared   \* messages the tone review or an admin has approved

vars == <<fate, cleared>>

Init ==
  /\ fate = [m \in Message |-> "none"]
  /\ cleared = {}

Move(m, from, to) == fate[m] = from /\ fate' = [fate EXCEPT ![m] = to]

Hold(m) == Move(m, "none", "held") /\ UNCHANGED cleared

Clear(m) ==
  /\ fate[m] # "none"
  /\ cleared' = cleared \cup {m}
  /\ UNCHANGED fate

Withdraw(m) == Move(m, "held", "withdrawn") /\ UNCHANGED cleared

(* Given to the provider. *)
Release(m) == m \in cleared /\ Move(m, "held", "out") /\ UNCHANGED cleared

(* Failed without ever being given to the provider. *)
Drop(m) == m \in cleared /\ Move(m, "held", "dropped") /\ UNCHANGED cleared

Next == \E m \in Message : Hold(m) \/ Clear(m) \/ Withdraw(m) \/ Release(m) \/ Drop(m)

Spec == Init /\ [][Next]_vars
=============================================================================
