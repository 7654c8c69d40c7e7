--------------------------- MODULE MCResponseClock ---------------------------
(* Instances of ResponseClock for TLC; the sets are given in the .cfg files. *)
EXTENDS ResponseClock
=============================================================================
