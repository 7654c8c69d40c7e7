--------------------------- MODULE MCOutboundBatch ---------------------------
(* Instances of OutboundBatch for TLC. *)
EXTENDS OutboundBatch, TLC

CONSTANTS r1, r2, r3, b1, b2

TwoInOneBatch == r1 :> b1 @@ r2 :> b1
TwoBatches == r1 :> b1 @@ r2 :> b1 @@ r3 :> b2

(* r1 is a guest with an email address: SES reports a delivery or a bounce. *)
EmailReports == [r \in Recipient |-> IF r = r1 THEN {"delivered", "failed"} ELSE {}]
(* r1 is a guest with a telephone: a text that was sent is reported queued  *)
(* again, out of order, or undelivered.                                     *)
TextReports == [r \in Recipient |-> IF r = r1 THEN {"queued", "undelivered"} ELSE {}]

Symmetric == Permutations(Replica)
=============================================================================
