---------------------------- MODULE BatchLedger ----------------------------
(***************************************************************************)
(* What a bulk Notice promises reside, which polls                         *)
(* getOutboundBatchDetail: once posted, every recipient settles exactly    *)
(* once, as sent or as failed, and the batch closes when - and only when - *)
(* all of them have.  No worker, claim, counter or database appears here.  *)
(***************************************************************************)
CONSTANTS
  Recipient,  \* recipient rows
  Batch,      \* batch rows
  BatchOf     \* the batch of each recipient

VARIABLES
  outcome,    \* what reside is told of each recipient
  progress    \* what reside is told of each batch

vars == <<outcome, progress>>

Members(b) == {r \in Recipient : BatchOf[r] = b}

Init ==
  /\ outcome = [r \in Recipient |-> "none"]
  /\ progress = [b \in Batch |-> "none"]

Post(b) ==
  /\ progress[b] = "none"
  /\ progress' = [progress EXCEPT ![b] = "open"]
  /\ outcome' = [r \in Recipient |-> IF BatchOf[r] = b THEN "waiting" ELSE outcome[r]]

Settle(r) ==
  /\ outcome[r] = "waiting"
  /\ \E o \in {"sent", "failed"} : outcome' = [outcome EXCEPT ![r] = o]
  /\ UNCHANGED progress

Close(b) ==
  /\ progress[b] = "open"
  /\ \A r \in Members(b) : outcome[r] \in {"sent", "failed"}
  /\ progress' = [progress EXCEPT ![b] = "completed"]
  /\ UNCHANGED outcome

Next ==
  \/ \E b \in Batch : Post(b) \/ Close(b)
  \/ \E r \in Recipient : Settle(r)

Spec == Init /\ [][Next]_vars
=============================================================================
