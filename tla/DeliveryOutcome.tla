-------------------------- MODULE DeliveryOutcome --------------------------
(***************************************************************************)
(* The delivery webhooks' second half: recordChannelDeliveryOutcome counts *)
(* the consecutive failures of an identity's channel and flags it at the   *)
(* tenant's threshold, and the webhook tells reside when the flag comes or *)
(* goes (webhooks/ses/notifications and webhooks/twilio/status).           *)
(*                                                                         *)
(* One identity and one of its channels.  The count is read, computed on   *)
(* and written back by two statements, and Next.js serves webhook calls    *)
(* concurrently.  The identity is one reside knows: of a row without a     *)
(* resideResidentId reside is told nothing, and only the count is kept.    *)
(***************************************************************************)
EXTENDS Integers

CONSTANTS
  Call,         \* webhook calls that may be served at once
  Threshold,    \* tenant_settings.bounce_threshold
  MaxCalls,     \* bound: webhook calls in all
  MaxCallFaults \* bound: calls that die, or that do not reach reside

ASSUME DeliveryBounds ==
  Threshold \in Nat \ {0} /\ MaxCalls \in Nat /\ MaxCallFaults \in Nat

VARIABLES
  \* the identities row
  failures,     \* {channel}_consecutive_failures
  flagged,      \* {channel}_flagged_at is set
  \* each webhook call
  serving,      \* "idle", "failure" or "success": read, about to write; "notify"
  readCount,    \* the count it read
  readFlag,     \* the flag it read
  message,      \* what it is going to tell reside
  \* reside
  lastTold,     \* the last status it was told: "deliverable" to begin with
  toldTwice,    \* it was told "undeliverable" a second time in one streak
  toldInStreak, \* it was told "undeliverable" since the last recorded success
  \* history and budgets
  hard,         \* hard failures that have been recorded
  overlapped,   \* a call was served while another one was
  calls,        \* calls so far
  callFaults    \* faults so far

rowVars  == <<failures, flagged>>
readVars == <<readCount, readFlag>>
toldVars == <<lastTold, toldTwice, toldInStreak>>
deliveryVars ==
  <<rowVars, serving, readVars, message, toldVars, hard, overlapped, calls, callFaults>>

DeliveryTypeOK ==
  /\ failures \in 0..MaxCalls
  /\ flagged \in BOOLEAN
  /\ serving \in [Call -> {"idle", "failure", "success", "notify"}]
  /\ readCount \in [Call -> 0..MaxCalls]
  /\ readFlag \in [Call -> BOOLEAN]
  /\ message \in [Call -> {"deliverable", "undeliverable"}]
  /\ lastTold \in {"deliverable", "undeliverable"}
  /\ toldTwice \in BOOLEAN /\ toldInStreak \in BOOLEAN /\ overlapped \in BOOLEAN
  /\ hard \in 0..MaxCalls /\ calls \in 0..MaxCalls /\ callFaults \in 0..MaxCallFaults

DeliveryInit ==
  /\ failures = 0 /\ flagged = FALSE
  /\ serving = [w \in Call |-> "idle"]
  /\ readCount = [w \in Call |-> 0]
  /\ readFlag = [w \in Call |-> FALSE]
  /\ message = [w \in Call |-> "deliverable"]
  /\ lastTold = "deliverable" /\ toldTwice = FALSE /\ toldInStreak = FALSE
  /\ hard = 0 /\ overlapped = FALSE /\ calls = 0 /\ callFaults = 0

(* What the webhooks make of an event that counts: a delivery is a         *)
(* success; a permanent bounce, a complaint, a failed text are failures.   *)
Outcomes == {"failure", "success"}

(* One is reported: the identity is read. *)
Read(w) ==
  /\ serving[w] = "idle"
  /\ calls < MaxCalls
  /\ calls' = calls + 1
  /\ overlapped' = (overlapped \/ \E v \in Call : serving[v] # "idle")
  /\ \E k \in Outcomes : serving' = [serving EXCEPT ![w] = k]
  /\ readCount' = [readCount EXCEPT ![w] = failures]
  /\ readFlag' = [readFlag EXCEPT ![w] = flagged]
  /\ UNCHANGED <<rowVars, message, toldVars, hard, callFaults>>

(* crossedThreshold; the mutants flag one failure early, or again on every *)
(* failure past the threshold.                                             *)
CrossedEarly(w) == readCount[w] + 2 >= Threshold /\ ~readFlag[w]

CrossedAgain(w) == readCount[w] + 1 >= Threshold

Crossed(w) == readCount[w] + 1 >= Threshold /\ ~readFlag[w]

WriteFailure(w) ==
  /\ serving[w] = "failure"
  /\ failures' = readCount[w] + 1
  /\ flagged' = IF Crossed(w) THEN TRUE ELSE flagged
  /\ hard' = hard + 1
  /\ serving' = [serving EXCEPT ![w] = IF Crossed(w) THEN "notify" ELSE "idle"]
  /\ message' = [message EXCEPT ![w] = IF Crossed(w) THEN "undeliverable" ELSE @]
  /\ UNCHANGED <<readVars, toldVars, overlapped, calls, callFaults>>

(* What a success leaves on the row.                                       *)
Reset == failures' = 0 /\ flagged' = FALSE

WriteSuccess(w) ==
  /\ serving[w] = "success"
  /\ Reset
  /\ toldInStreak' = FALSE
  /\ serving' = [serving EXCEPT ![w] = IF readFlag[w] THEN "notify" ELSE "idle"]
  /\ message' = [message EXCEPT ![w] = IF readFlag[w] THEN "deliverable" ELSE @]
  /\ UNCHANGED <<readVars, lastTold, toldTwice, hard, overlapped, calls, callFaults>>

(* notifyResideIdentityStatus, of an identity with a resideResidentId.     *)
Notify(w) ==
  /\ serving[w] = "notify"
  /\ serving' = [serving EXCEPT ![w] = "idle"]
  /\ lastTold' = message[w]
  /\ toldTwice' = (toldTwice \/ (message[w] = "undeliverable" /\ toldInStreak))
  /\ toldInStreak' = (toldInStreak \/ message[w] = "undeliverable")
  /\ UNCHANGED <<rowVars, readVars, message, hard, overlapped, calls, callFaults>>

(* A statement throws, the process dies, or reside does not answer: the    *)
(* rest of the call does not happen.                                       *)
Abandon(w) ==
  /\ serving[w] # "idle"
  /\ callFaults < MaxCallFaults
  /\ callFaults' = callFaults + 1
  /\ serving' = [serving EXCEPT ![w] = "idle"]
  /\ UNCHANGED <<rowVars, readVars, message, toldVars, hard, overlapped, calls>>

DeliveryNext ==
  \E w \in Call : Read(w) \/ WriteFailure(w) \/ WriteSuccess(w) \/ Notify(w) \/ Abandon(w)

DeliverySpec == DeliveryInit /\ [][DeliveryNext]_deliveryVars

-----------------------------------------------------------------------------
(* Properties.                                                             *)

(* However calls interleave, die or repeat, no channel is flagged before   *)
(* as many hard failures as the tenant asks for have been recorded: stale  *)
(* reads lose failures and never invent them.                              *)
NeverFlaggedEarly == flagged => hard >= Threshold

(* "marks {channel}_flagged_at so the caller notifies reside exactly once  *)
(* per failure streak rather than on every subsequent failure past         *)
(* threshold" (index.ts): as long as no two calls have been served at      *)
(* once, reside is told "undeliverable" once at most between two           *)
(* successes, and, all notices having reached it, believes between calls   *)
(* exactly what the flag says, with a streak behind it.                    *)
ToldOncePerStreak ==
  ~overlapped =>
    /\ ~toldTwice
    /\ callFaults = 0 /\ (\A w \in Call : serving[w] = "idle") =>
         /\ lastTold = "undeliverable" <=> flagged
         /\ flagged <=> failures >= Threshold
=============================================================================
