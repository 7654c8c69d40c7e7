--------------------------- MODULE MCScheduledSend ---------------------------
(* Instances of ScheduledSend for TLC. *)
EXTENDS ScheduledSend, TLC

CONSTANT text1

(* What mapTwilioStatus makes of the callbacks for a text. *)
TwilioReports == {"queued", "sent", "delivered", "undelivered", "failed"}

OneText == text1 :> TwilioReports
=============================================================================
