---------------------------- MODULE MCClaimedJobs ----------------------------
(* Instances of ClaimedJobs for TLC. *)
EXTENDS ClaimedJobs

=============================================================================
