-------------------------- MODULE MCDeliveryOutcome --------------------------
(* Instances of DeliveryOutcome for TLC. *)
EXTENDS DeliveryOutcome, TLC

Symmetric == Permutations(Call)
=============================================================================
