--------------------------- MODULE ScheduledSend ---------------------------
(***************************************************************************)
(* An admin's external reply: composed into a messages row that is held    *)
(* for a delay, gated by the tone review, cancelable while queued,         *)
(* dispatched by scheduled-message-worker.ts, and updated afterwards by    *)
(* the delivery webhooks of SES and Twilio.                                *)
(*                                                                         *)
(* One action is one database statement or one provider call.  Actors: the *)
(* compose, cancel and approve routes, and in every realtime-bridge        *)
(* replica a sending loop and a reviewing loop, each handling one message  *)
(* at a time.                                                              *)
(***************************************************************************)
EXTENDS Integers, FiniteSets

CONSTANTS
  Replica,      \* realtime-bridge processes
  Message,      \* external messages an admin may compose
  Reports,      \* message -> statuses its provider's webhook may bring
  BatchLimit,   \* rows read per tick (BATCH_LIMIT)
  MaxAttempts,  \* attempts of recordWithRetry
  MaxReports,   \* bound: webhook calls
  MaxFaults,    \* bound: database statements that fail
  MaxCrashes,   \* bound: replica crashes
  LostReplies   \* a statement can commit and still throw at the caller

DeliveryStatus == {"queued", "sending", "sent", "delivered", "undelivered", "failed", "canceled"}

ASSUME SetsAssumption ==
  /\ IsFiniteSet(Replica) /\ IsFiniteSet(Message)
  /\ Reports \in [Message -> SUBSET DeliveryStatus]

ASSUME BoundsAssumption ==
  /\ BatchLimit \in Nat \ {0} /\ MaxAttempts \in Nat \ {0}
  /\ MaxReports \in Nat /\ MaxFaults \in Nat /\ MaxCrashes \in Nat
  /\ LostReplies \in BOOLEAN

VARIABLES
  \* the messages table
  status,       \* delivery_status; "none" before the message is composed
  review,       \* ai_review_status
  due,          \* messages whose scheduled_send_at has passed
  providerId,   \* provider_message_id: the hand-off it came from; 0 is null
  \* the loops of each replica
  step,         \* of the sending loop, per listed message
  tries,        \* recordWithRetry attempts that have failed
  reviewStep,   \* of the reviewing loop, per listed message
  \* the webhook
  inbox,        \* reports whose message was found and whose update is to come
  reports,      \* webhook calls so far
  \* history and budgets
  handed,       \* times the message was handed to the provider
  canceled,     \* messages whose cancel request was answered canceled: true
  requeued,     \* times a report put the message back to queued
  faults,       \* database faults so far
  crashes       \* crashes so far

rowVars     == <<status, providerId>>
sendVars    == <<step, tries>>
webhookVars == <<inbox, reports>>
histVars    == <<handed, canceled, requeued>>
vars == <<rowVars, review, due, sendVars, reviewStep, webhookVars, histVars, faults, crashes>>

Task == Replica \X Message
Steps == {"idle", "listed", "lookup", "reject", "send", "recordSent", "recordRefused", "fail"}

TypeOK ==
  /\ status \in [Message -> {"none"} \cup DeliveryStatus]
  /\ review \in [Message -> {"none", "pending", "approved", "flagged"}]
  /\ due \in SUBSET Message
  /\ providerId \in [Message -> Nat]
  /\ step \in [Task -> Steps]
  /\ tries \in [Task -> Nat]
  /\ reviewStep \in [Task -> {"idle", "listed", "flag"}]
  /\ inbox \in SUBSET (Message \X DeliveryStatus)
  /\ reports \in 0..MaxReports
  /\ handed \in [Message -> Nat]
  /\ canceled \in SUBSET Message
  /\ requeued \in [Message -> Nat]
  /\ faults \in 0..MaxFaults
  /\ crashes \in 0..MaxCrashes

Init ==
  /\ status = [m \in Message |-> "none"]
  /\ review = [m \in Message |-> "none"]
  /\ due = {}
  /\ providerId = [m \in Message |-> 0]
  /\ step = [t \in Task |-> "idle"]
  /\ tries = [t \in Task |-> 0]
  /\ reviewStep = [t \in Task |-> "idle"]
  /\ inbox = {}
  /\ reports = 0
  /\ handed = [m \in Message |-> 0]
  /\ canceled = {}
  /\ requeued = [m \in Message |-> 0]
  /\ faults = 0
  /\ crashes = 0

-----------------------------------------------------------------------------
(* How a statement ends for the caller: it commits and answers, it throws  *)
(* with nothing written, or it commits and the answer is lost.             *)

Replies == {"ok", "error"} \cup (IF LostReplies THEN {"lost"} ELSE {})

Answered(o) ==
  IF o = "ok" THEN UNCHANGED faults
  ELSE faults < MaxFaults /\ faults' = faults + 1

Committed(o) == o \in {"ok", "lost"}

Goto(t, s) ==
  /\ step' = [step EXCEPT ![t] = s]
  /\ tries' = [tries EXCEPT ![t] = 0]

-----------------------------------------------------------------------------
(* Predicates of the conditional updates, each after a mutant of it.       *)

(* cancelScheduledMessage; the mutant also takes a row being sent. *)
CancelableWhileSending(m) == status[m] \in {"queued", "sending"}

Cancelable(m) == status[m] = "queued"

(* claimScheduledMessage; the mutants trust the listing for the status, or *)
(* let a second worker take over a row being sent.                         *)
ClaimableAsListed(m) == review[m] = "approved"

ClaimableWhileSending(m) == status[m] \in {"queued", "sending"} /\ review[m] = "approved"

Claimable(m) == status[m] = "queued" /\ review[m] = "approved"

(* applyToneReviewResult; the mutant looks for rows that were never        *)
(* pending.                                                                *)
VerdictWantedOnceFlagged(m) == review[m] = "flagged"

VerdictWanted(m) == review[m] = "pending"

(* updateMessageDeliveryStatus: no predicate but the id.  A null id keeps  *)
(* the one already there.                                                  *)
SetDelivery(m, s, id) ==
  /\ status' = [status EXCEPT ![m] = s]
  /\ providerId' = IF id = 0 THEN providerId ELSE [providerId EXCEPT ![m] = id]

-----------------------------------------------------------------------------
(* The routes and the clock.                                               *)

(* POST conversations/[id]/messages with visibility external. *)
Compose(m) ==
  /\ status[m] = "none"
  /\ status' = [status EXCEPT ![m] = "queued"]
  /\ review' = [review EXCEPT ![m] = "pending"]
  /\ UNCHANGED <<due, providerId, sendVars, reviewStep, webhookVars, histVars, faults, crashes>>

(* scheduled_send_at passes. *)
ComesDue(m) ==
  /\ status[m] # "none"
  /\ m \notin due
  /\ due' = due \cup {m}
  /\ UNCHANGED <<rowVars, review, sendVars, reviewStep, webhookVars, histVars, faults, crashes>>

(* POST messages/[id]/cancel: answers whether its update matched. *)
Cancel(m) ==
  \E o \in Replies :
    /\ status[m] # "none"
    /\ Answered(o)
    /\ IF Committed(o) /\ Cancelable(m)
       THEN status' = [status EXCEPT ![m] = "canceled"]
       ELSE UNCHANGED status
    /\ canceled' = IF o = "ok" /\ Cancelable(m) THEN canceled \cup {m} ELSE canceled
    /\ UNCHANGED <<review, due, providerId, sendVars, reviewStep, webhookVars, handed, requeued, crashes>>

(* POST messages/[id]/approve: the admin overrides the review. *)
Approve(m) ==
  /\ review[m] \in {"flagged", "pending"}
  /\ review' = [review EXCEPT ![m] = "approved"]
  /\ UNCHANGED <<rowVars, due, sendVars, reviewStep, webhookVars, histVars, faults, crashes>>

-----------------------------------------------------------------------------
(* The sending loop of replica w: one tick lists, then handles the listed  *)
(* messages one after the other.                                           *)

Busy(w) == \E m \in Message : step[w, m] \notin {"idle", "listed"}

Due(m) == status[m] = "queued" /\ review[m] = "approved" /\ m \in due

(* Up to BatchLimit members of a set, all of them if they fit. *)
Batches(S) == {T \in SUBSET S : Cardinality(T) = BatchLimit \/ (Cardinality(T) < BatchLimit /\ T = S)}

ListDue(w) ==
  /\ \A m \in Message : step[w, m] = "idle"
  /\ \E S \in Batches({m \in Message : Due(m)}) :
       step' = [t \in Task |-> IF t[1] = w /\ t[2] \in S THEN "listed" ELSE step[t]]
  /\ UNCHANGED <<rowVars, review, due, tries, reviewStep, webhookVars, histVars, faults, crashes>>

(* The claim; a throw goes to the catch block like any other.              *)
Claim(w, m) ==
  \E o \in Replies :
    LET t == <<w, m>> IN
    /\ step[t] = "listed" /\ ~Busy(w)
    /\ Answered(o)
    /\ IF Committed(o) /\ Claimable(m)
       THEN status' = [status EXCEPT ![m] = "sending"]
       ELSE UNCHANGED status
    /\ Goto(t, IF o # "ok" THEN "fail" ELSE IF Claimable(m) THEN "lookup" ELSE "idle")
    /\ UNCHANGED <<review, due, providerId, reviewStep, webhookVars, histVars, crashes>>

(* Thread, tenant and address are read; one of them may be missing. *)
Lookup(w, m) ==
  \E o \in {"ok", "error"}, found \in BOOLEAN :
    LET t == <<w, m>> IN
    /\ step[t] = "lookup"
    /\ Answered(o)
    /\ Goto(t, IF o # "ok" THEN "fail" ELSE IF found THEN "send" ELSE "reject")
    /\ UNCHANGED <<rowVars, review, due, reviewStep, webhookVars, histVars, crashes>>

(* The row becomes failed: from inside the try block (no address, or a     *)
(* refusal, both of which can throw into the catch block) or from the      *)
(* catch block itself, where a throw is only logged.                       *)
RecordFailure(w, m) ==
  \E o \in Replies :
    LET t == <<w, m>> IN
    /\ step[t] \in {"reject", "recordRefused", "fail"}
    /\ Answered(o)
    /\ IF Committed(o) THEN SetDelivery(m, "failed", 0) ELSE UNCHANGED rowVars
    /\ Goto(t, IF o # "ok" /\ step[t] # "fail" THEN "fail" ELSE "idle")
    /\ UNCHANGED <<review, due, reviewStep, webhookVars, histVars, crashes>>

(* sendViaProvider: accepted or refused. *)
Send(w, m) ==
  LET t == <<w, m>> IN
  /\ step[t] = "send"
  /\ handed' = [handed EXCEPT ![m] = @ + 1]
  /\ \E s \in {"recordSent", "recordRefused"} : Goto(t, s)
  /\ UNCHANGED <<rowVars, review, due, reviewStep, webhookVars, canceled, requeued, faults, crashes>>

(* The row becomes sent, with the provider's id; retried, and given up in  *)
(* silence.                                                                *)
RecordSent(w, m) ==
  \E o \in Replies :
    LET t == <<w, m>> IN
    /\ step[t] = "recordSent"
    /\ Answered(o)
    /\ IF Committed(o) THEN SetDelivery(m, "sent", handed[m]) ELSE UNCHANGED rowVars
    /\ IF o # "ok" /\ tries[t] + 1 < MaxAttempts
       THEN tries' = [tries EXCEPT ![t] = @ + 1] /\ UNCHANGED step
       ELSE Goto(t, "idle")
    /\ UNCHANGED <<review, due, reviewStep, webhookVars, histVars, crashes>>

Dispatch(w, m) ==
  Claim(w, m) \/ Lookup(w, m) \/ RecordFailure(w, m) \/ Send(w, m) \/ RecordSent(w, m)

-----------------------------------------------------------------------------
(* The reviewing loop of replica w.                                        *)

ListReviews(w) ==
  /\ \A m \in Message : reviewStep[w, m] = "idle"
  /\ \E S \in Batches({m \in Message : review[m] = "pending"}) :
       reviewStep' = [t \in Task |-> IF t[1] = w /\ t[2] \in S THEN "listed" ELSE reviewStep[t]]
  /\ UNCHANGED <<rowVars, review, due, sendVars, webhookVars, histVars, faults, crashes>>

Verdict(w, m, v, o) ==
  /\ Answered(o)
  /\ review' = IF Committed(o) /\ VerdictWanted(m) THEN [review EXCEPT ![m] = v] ELSE review
  /\ UNCHANGED <<rowVars, due, sendVars, webhookVars, histVars, crashes>>

(* reviewMessageTone has answered - or thrown, which the catch block turns *)
(* into "flagged" - and the verdict is written; a throw of that write is   *)
(* turned into "flagged" as well.                                          *)
Review(w, m) ==
  \E v \in {"approved", "flagged"}, o \in Replies :
    /\ reviewStep[w, m] = "listed"
    /\ \A n \in Message : reviewStep[w, n] # "flag"
    /\ Verdict(w, m, v, o)
    /\ reviewStep' = [reviewStep EXCEPT ![<<w, m>>] = IF o = "ok" THEN "idle" ELSE "flag"]

(* The catch block; a second throw is only logged and the row is listed    *)
(* again by a later tick.                                                  *)
FlagAfterThrow(w, m) ==
  \E o \in Replies :
    /\ reviewStep[w, m] = "flag"
    /\ Verdict(w, m, "flagged", o)
    /\ reviewStep' = [reviewStep EXCEPT ![<<w, m>>] = "idle"]

-----------------------------------------------------------------------------
(* Delivery webhooks, in whatever order and however often the provider     *)
(* sends them.                                                             *)

(* The lookup by provider_message_id: of the hand-offs whose report this   *)
(* may be, only the one recorded on the row is found.                      *)
ReportFound(m, s) ==
  /\ reports < MaxReports
  /\ s \in Reports[m]
  /\ providerId[m] # 0
  /\ inbox' = inbox \cup {<<m, s>>}
  /\ reports' = reports + 1
  /\ UNCHANGED <<rowVars, review, due, sendVars, reviewStep, histVars, faults, crashes>>

(* The update, by the message's own id and without a predicate. *)
ReportApplied(m, s) ==
  \E o \in Replies :
    /\ <<m, s>> \in inbox
    /\ Answered(o)
    /\ IF Committed(o) THEN SetDelivery(m, s, 0) ELSE UNCHANGED rowVars
    /\ inbox' = inbox \ {<<m, s>>}
    /\ requeued' = IF Committed(o) /\ s = "queued" THEN [requeued EXCEPT ![m] = @ + 1] ELSE requeued
    /\ UNCHANGED <<review, due, sendVars, reviewStep, reports, handed, canceled, crashes>>

-----------------------------------------------------------------------------
(* A replica dies between two statements and comes back with no memory.    *)
(* There is no sweep for rows it leaves in "sending".                      *)
Crash(w) ==
  /\ crashes < MaxCrashes
  /\ crashes' = crashes + 1
  /\ step' = [t \in Task |-> IF t[1] = w THEN "idle" ELSE step[t]]
  /\ tries' = [t \in Task |-> IF t[1] = w THEN 0 ELSE tries[t]]
  /\ reviewStep' = [t \in Task |-> IF t[1] = w THEN "idle" ELSE reviewStep[t]]
  /\ UNCHANGED <<rowVars, review, due, webhookVars, histVars, faults>>

Next ==
  \/ \E m \in Message : Compose(m) \/ ComesDue(m) \/ Cancel(m) \/ Approve(m)
  \/ \E w \in Replica : ListDue(w) \/ ListReviews(w) \/ Crash(w)
  \/ \E w \in Replica, m \in Message : Dispatch(w, m) \/ Review(w, m) \/ FlagAfterThrow(w, m)
  \/ \E m \in Message, s \in DeliveryStatus : ReportFound(m, s) \/ ReportApplied(m, s)

SafeSpec == Init /\ [][Next]_vars

(* startPollLoop schedules the next tick when the last one has finished,   *)
(* failed or not; statements and provider calls eventually answer; time    *)
(* passes.  Nobody has to compose, cancel, approve, report or crash.       *)
Fairness ==
  /\ \A w \in Replica : WF_vars(ListDue(w)) /\ WF_vars(ListReviews(w))
  /\ \A w \in Replica, m \in Message :
       WF_vars(Dispatch(w, m)) /\ WF_vars(Review(w, m) \/ FlagAfterThrow(w, m))
  /\ \A m \in Message : WF_vars(ComesDue(m))

Spec == SafeSpec /\ Fairness

-----------------------------------------------------------------------------
(* Properties.                                                             *)

(* claimScheduledMessage lets one of all workers and ticks send a message: *)
(* it is handed to the provider once for each time it was queued - when it *)
(* was composed, or by a report.  No sweep takes a claim back, so crashes  *)
(* and faults do not change that.                                          *)
HandedOncePerQueueing == \A m \in Message : handed[m] <= 1 + requeued[m]

(* An admin told canceled: true is told the truth: the message has not     *)
(* gone out and does not go out later, unless a report has queued it       *)
(* again.                                                                  *)
CanceledIsUnsent == \A m \in canceled : handed[m] = 0 \/ requeued[m] > 0

(* The review gates every send, so no message may wait for it for ever,    *)
(* though reviewers crash, verdicts cannot be written and the AI call      *)
(* throws.                                                                 *)
ReviewFinishes == \A m \in Message : review[m] = "pending" ~> review[m] # "pending"

(* What the admin sees, read off this state. *)
Fate == [m \in Message |->
  IF handed[m] > 1 THEN "out twice"
  ELSE IF handed[m] = 1 THEN "out"
  ELSE CASE status[m] = "none" -> "none"
         [] status[m] \in {"queued", "sending"} -> "held"
         [] status[m] = "canceled" -> "withdrawn"
         [] OTHER -> "dropped"]
Cleared == {m \in Message : review[m] = "approved"}
Held == INSTANCE HeldMessage WITH fate <- Fate, cleared <- Cleared

(* Until a report queues a message again or a statement throws (a claim    *)
(* that throws writes "failed" over a cancel), replicas that race and      *)
(* crash take only steps the compose screen promises (HeldMessage):        *)
(* withdrawn is final, nothing goes out twice or unreviewed, and no        *)
(* verdict that arrives late takes an approval back.                       *)
HoldUntilRequeued ==
  [][faults' = 0 /\ (\A m \in Message : requeued'[m] = 0) => [Held!Next]_(Held!vars)]_vars
=============================================================================
