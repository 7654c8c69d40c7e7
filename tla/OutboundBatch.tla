--------------------------- MODULE OutboundBatch ---------------------------
(***************************************************************************)
(* The bulk-Notice queue: outbound_batches and outbound_batch_recipients   *)
(* (packages/database/src/services/index.ts), drained by the worker of     *)
(* every realtime-bridge replica                                           *)
(* (apps/realtime-bridge/src/workers/outbound-batch-worker.ts) through     *)
(* dispatchOutboundMessage (packages/messaging).                           *)
(*                                                                         *)
(* One action is one database statement or one provider call - what        *)
(* Postgres makes atomic - so every await of the code is a point where the *)
(* other replicas, a crash or a database fault can come in between.        *)
(***************************************************************************)
EXTENDS Integers, Sequences, FiniteSets

CONSTANTS
  Replica,      \* realtime-bridge processes, one worker loop each
  Recipient,    \* outbound_batch_recipients rows
  Batch,        \* outbound_batches rows
  BatchOf,      \* the batch each recipient belongs to
  Unsendable,   \* recipients with no address for the channel, or no tenant
  ReportsOf,    \* the statuses the provider's webhook can report per recipient
  BatchLimit,   \* rows read per round (BATCH_LIMIT)
  Concurrency,  \* rows in flight per replica (CONCURRENCY)
  MaxRounds,    \* rounds per tick (MAX_ROUNDS_PER_TICK)
  MaxAttempts,  \* attempts of recordWithRetry (one more than its delays)
  MaxFaults,    \* bound: database statements that fail
  MaxCrashes,   \* bound: replica crashes
  MaxReclaims,  \* bound: how often one recipient's claim grows stale
  LostReplies,  \* a statement can commit and still throw at the caller
  SlowSends     \* a live dispatch can outlast STUCK_CLAIM_TIMEOUT_MS

(* messages.delivery_status of an outbound row: what dispatch writes, and  *)
(* what the webhooks of Twilio and SES write later.                        *)
DeliveryStatus == {"queued", "sent", "delivered", "undelivered", "failed"}
NotDelivered == {"undelivered", "failed"}

ASSUME SetsAssumption ==
  /\ IsFiniteSet(Replica)
  /\ BatchOf \in [Recipient -> Batch]
  /\ \A b \in Batch : IsFiniteSet({r \in Recipient : BatchOf[r] = b})
  /\ Unsendable \subseteq Recipient
  /\ ReportsOf \in [Recipient -> SUBSET DeliveryStatus]

ASSUME BoundsAssumption ==
  /\ BatchLimit \in Nat \ {0} /\ Concurrency \in Nat \ {0}
  /\ MaxRounds \in Nat \ {0} /\ MaxAttempts \in Nat \ {0}
  /\ MaxFaults \in Nat /\ MaxCrashes \in Nat /\ MaxReclaims \in Nat
  /\ LostReplies \in BOOLEAN /\ SlowSends \in BOOLEAN

VARIABLES
  \* the database
  status,       \* outbound_batch_recipients.status; "none" before the batch is posted
  stale,        \* claimed rows whose claimed_at is older than the timeout
  link,         \* message_id: which row of the recipient's thread; 0 is null
  thread,       \* delivery_status of the outbound message rows appended per recipient
  tracked,      \* of these rows, the ones with a provider_message_id
  completed,    \* outbound_batches.completed_recipients
  batchStatus,  \* outbound_batches.status
  \* each replica's tick
  phase,        \* "off", "listing", "draining", or "last": draining the final round
  round,        \* rounds already drained in this tick
  \* one processRecipient call per replica and recipient
  step,         \* the statement it runs next
  tries,        \* recordWithRetry attempts that have failed
  row,          \* the message row it appended; 0 before that
  \* history and budgets
  handed,       \* times the recipient's message was handed to the provider
  bounced,      \* message rows the provider has reported as not delivered
  reclaims,     \* times its claim was put back to pending
  faults,       \* database faults so far
  crashes       \* crashes so far

rowVars   == <<status, stale, link>>
batchVars == <<completed, batchStatus>>
tickVars  == <<phase, round>>
taskVars  == <<step, tries, row>>
histVars  == <<handed, reclaims>>
reportVars == <<tracked, bounced>>
vars == <<rowVars, thread, batchVars, tickVars, taskVars, histVars, reportVars,
          faults, crashes>>

Task == Replica \X Recipient
Resolved == {"sent", "failed"}
Members(b) == {r \in Recipient : BatchOf[r] = b}
Running(w) == {r \in Recipient : step[<<w, r>>] \notin {"idle", "queued"}}

Steps == {"idle", "queued", "prepare", "send", "recordSent", "recordRefused",
          "linkSent", "linkFailed", "count", "rejectStatus", "rejectCount",
          "failStatus", "failCount"}

TypeOK ==
  /\ status \in [Recipient -> {"none", "pending", "sending"} \cup Resolved]
  /\ stale \in SUBSET Recipient
  /\ thread \in [Recipient -> Seq(DeliveryStatus)]
  /\ tracked \in [Recipient -> SUBSET Nat]
  /\ link \in [Recipient -> Nat]
  /\ completed \in [Batch -> Nat]
  /\ batchStatus \in [Batch -> {"none", "pending", "processing", "completed"}]
  /\ phase \in [Replica -> {"off", "listing", "draining", "last"}]
  /\ round \in [Replica -> Nat]
  /\ step \in [Task -> Steps]
  /\ tries \in [Task -> Nat]
  /\ row \in [Task -> Nat]
  /\ handed \in [Recipient -> Nat]
  /\ bounced \in [Recipient -> SUBSET Nat]
  /\ reclaims \in [Recipient -> Nat]
  /\ faults \in 0..MaxFaults
  /\ crashes \in 0..MaxCrashes

Init ==
  /\ status = [r \in Recipient |-> "none"]
  /\ stale = {}
  /\ link = [r \in Recipient |-> 0]
  /\ thread = [r \in Recipient |-> <<>>]
  /\ tracked = [r \in Recipient |-> {}]
  /\ completed = [b \in Batch |-> 0]
  /\ batchStatus = [b \in Batch |-> "none"]
  /\ phase = [w \in Replica |-> "off"]
  /\ round = [w \in Replica |-> 0]
  /\ step = [t \in Task |-> "idle"]
  /\ tries = [t \in Task |-> 0]
  /\ row = [t \in Task |-> 0]
  /\ handed = [r \in Recipient |-> 0]
  /\ bounced = [r \in Recipient |-> {}]
  /\ reclaims = [r \in Recipient |-> 0]
  /\ faults = 0
  /\ crashes = 0

-----------------------------------------------------------------------------
(* How a statement ends for the caller: it commits and answers, it throws  *)
(* with nothing written, or it commits and the answer is lost.             *)

Replies == {"ok", "error"} \cup (IF LostReplies THEN {"lost"} ELSE {})

Answered(o) ==
  IF o = "ok" THEN UNCHANGED faults
  ELSE faults < MaxFaults /\ faults' = faults + 1

Committed(o) == o \in {"ok", "lost"}

Goto(t, s) ==
  /\ step' = [step EXCEPT ![t] = s]
  /\ tries' = [tries EXCEPT ![t] = 0]

(* recordWithRetry: on to `next` once the write answers; the same step     *)
(* again while attempts remain; `giveUp` when the last one threw.          *)
RetryOr(t, o, next, giveUp) ==
  IF o = "ok" THEN Goto(t, next)
  ELSE IF tries[t] + 1 < MaxAttempts
  THEN tries' = [tries EXCEPT ![t] = @ + 1] /\ UNCHANGED step
  ELSE Goto(t, giveUp)

-----------------------------------------------------------------------------
(* Statements of DomainService.                                            *)

(* createOutboundBatch: one transaction, the batch and a pending row for   *)
(* each of its recipients.                                                 *)
CreateBatch(b) ==
  /\ batchStatus[b] = "none"
  /\ batchStatus' = [batchStatus EXCEPT ![b] = "pending"]
  /\ status' = [r \in Recipient |-> IF BatchOf[r] = b THEN "pending" ELSE status[r]]
  /\ UNCHANGED <<stale, link, thread, completed, tickVars, taskVars, histVars, faults, crashes, reportVars>>

(* The predicate of claimOutboundBatchRecipient's UPDATE, and a mutant     *)
(* that lets a claim take a row another replica is sending.                *)
ClaimableWhileSending(r) == status[r] \in {"pending", "sending"}

Claimable(r) == status[r] = "pending"

(* The predicate of reclaimStuckOutboundBatchRecipients' UPDATE, and a     *)
(* mutant that sweeps the wrong status.                                    *)
SweptPendingRows == {r \in Recipient : status[r] = "pending" /\ r \in stale}

StuckRows == {r \in Recipient : status[r] = "sending" /\ r \in stale}

(* updateOutboundBatchRecipientStatus: no predicate but the id.  Mutant: a *)
(* missing messageId leaves the old one in place.                          *)
SetRecipientKeepingLink(r, s, m) ==
  /\ status' = [status EXCEPT ![r] = s]
  /\ link' = IF m = 0 THEN link ELSE [link EXCEPT ![r] = m]
  /\ UNCHANGED stale

SetRecipient(r, s, m) ==
  /\ status' = [status EXCEPT ![r] = s]
  /\ link' = [link EXCEPT ![r] = m]
  /\ UNCHANGED stale

(* incrementOutboundBatchCompleted: count and comparison in one statement. *)
(* The mutant is content when one recipient is missing.                    *)
IsDoneButOne(b) == completed[b] + 2 >= Cardinality(Members(b))

IsDone(b) == completed[b] + 1 >= Cardinality(Members(b))

Increment(b) ==
  /\ completed' = [completed EXCEPT ![b] = @ + 1]
  /\ batchStatus' = [batchStatus EXCEPT ![b] = IF IsDone(b) THEN "completed" ELSE "processing"]

-----------------------------------------------------------------------------
(* A tick of one replica: sweep, then rounds of list and drain.            *)

(* The interval fires with no drain in progress.  The sweep comes first;   *)
(* if it throws, the tick is over.                                         *)
Tick(w) ==
  \E o \in Replies :
    /\ phase[w] = "off"
    /\ Answered(o)
    /\ phase' = [phase EXCEPT ![w] = IF o = "ok" THEN "listing" ELSE "off"]
    /\ round' = [round EXCEPT ![w] = 0]
    /\ IF Committed(o)
       THEN /\ status' = [r \in Recipient |-> IF r \in StuckRows THEN "pending" ELSE status[r]]
            /\ stale' = stale \ StuckRows
            /\ reclaims' = [r \in Recipient |-> IF r \in StuckRows THEN reclaims[r] + 1 ELSE reclaims[r]]
       ELSE UNCHANGED <<status, stale, reclaims>>
    /\ UNCHANGED <<link, thread, batchVars, taskVars, handed, crashes, reportVars>>

(* Reads up to BatchLimit pending rows.  None: the tick is over.  Fewer    *)
(* than the limit, or the last round: this round is the last.              *)
List(w) ==
  /\ phase[w] = "listing"
  /\ \E S \in SUBSET {r \in Recipient : status[r] = "pending"} :
       /\ \/ Cardinality(S) = BatchLimit
          \/ /\ Cardinality(S) < BatchLimit
             /\ S = {r \in Recipient : status[r] = "pending"}
       /\ step' = [t \in Task |-> IF t[1] = w /\ t[2] \in S THEN "queued" ELSE step[t]]
       /\ phase' = [phase EXCEPT ![w] =
            IF S = {} THEN "off"
            ELSE IF Cardinality(S) < BatchLimit \/ round[w] + 1 >= MaxRounds THEN "last"
            ELSE "draining"]
  /\ UNCHANGED <<rowVars, thread, batchVars, round, tries, row, histVars, faults, crashes, reportVars>>

(* The read throws: the tick is over. *)
ListFails(w) ==
  /\ phase[w] = "listing"
  /\ Answered("error")
  /\ phase' = [phase EXCEPT ![w] = "off"]
  /\ UNCHANGED <<rowVars, thread, batchVars, round, taskVars, histVars, crashes, reportVars>>

(* mapWithConcurrency has run every listed row. *)
EndRound(w) ==
  /\ phase[w] \in {"draining", "last"}
  /\ \A r \in Recipient : step[<<w, r>>] = "idle"
  /\ phase' = [phase EXCEPT ![w] = IF phase[w] = "last" THEN "off" ELSE "listing"]
  /\ round' = [round EXCEPT ![w] = IF phase[w] = "last" THEN 0 ELSE @ + 1]
  /\ UNCHANGED <<rowVars, thread, batchVars, taskVars, histVars, faults, crashes, reportVars>>

-----------------------------------------------------------------------------
(* processRecipient(w, r), one statement at a time.                        *)

(* A lane takes the next listed row and claims it.  A claim that loses     *)
(* ends the call; one that throws goes to the catch block, and from there  *)
(* to failRecipient, whether or not the row was ever this replica's.       *)
Claim(w, r) ==
  \E o \in Replies :
    LET t == <<w, r>> IN
    /\ step[t] = "queued"
    /\ Cardinality(Running(w)) < Concurrency
    /\ Answered(o)
    /\ IF Committed(o) /\ Claimable(r)
       THEN /\ status' = [status EXCEPT ![r] = "sending"]
            /\ stale' = stale \ {r}
       ELSE UNCHANGED <<status, stale>>
    /\ Goto(t, IF o # "ok" THEN "failStatus" ELSE IF Claimable(r) THEN "prepare" ELSE "idle")
    /\ UNCHANGED <<link, thread, batchVars, tickVars, row, histVars, crashes, reportVars>>

(* Tenant and batch lookups, the contact check, identity, conversation and *)
(* the queued message row.  Nobody to send to: failRecipient, still inside *)
(* the try block.  Anything thrown, before or after the row is appended,   *)
(* goes to the catch block.                                                *)
Prepare(w, r) ==
  \E o \in Replies :
    LET t == <<w, r>> IN
    /\ step[t] = "prepare"
    /\ Answered(o)
    /\ IF Committed(o) /\ r \notin Unsendable
       THEN /\ thread' = [thread EXCEPT ![r] = Append(@, "queued")]
            /\ row' = [row EXCEPT ![t] = Len(thread[r]) + 1]
       ELSE UNCHANGED <<thread, row>>
    /\ Goto(t, IF o # "ok" THEN "failStatus"
               ELSE IF r \in Unsendable THEN "rejectStatus" ELSE "send")
    /\ UNCHANGED <<rowVars, batchVars, tickVars, histVars, crashes, reportVars>>

(* sendViaProvider: accepted, or it threw.  The provider client's own      *)
(* retries are inside this one hand-off.                                   *)
Send(w, r) ==
  LET t == <<w, r>> IN
  /\ step[t] = "send"
  /\ handed' = [handed EXCEPT ![r] = @ + 1]
  /\ \E s \in {"recordSent", "recordRefused"} : Goto(t, s)
  /\ UNCHANGED <<rowVars, thread, batchVars, tickVars, row, reclaims, faults, crashes, reportVars>>

(* dispatchOutboundMessage after acceptance: the message row becomes sent  *)
(* and takes the provider's message id, retried; when every attempt threw  *)
(* the caller is told "sent" all the same.                                 *)
RecordSent(w, r) ==
  \E o \in Replies :
    LET t == <<w, r>> IN
    /\ step[t] = "recordSent"
    /\ Answered(o)
    /\ IF Committed(o)
       THEN /\ thread' = [thread EXCEPT ![r][row[t]] = "sent"]
            /\ tracked' = [tracked EXCEPT ![r] = @ \cup {row[t]}]
       ELSE UNCHANGED <<thread, tracked>>
    /\ RetryOr(t, o, "linkSent", "linkSent")
    /\ UNCHANGED <<rowVars, batchVars, tickVars, row, histVars, crashes, bounced>>

(* After a refusal the message row becomes failed, one attempt; if that    *)
(* throws, the whole dispatch throws and `dispatched` is still false.      *)
RecordRefused(w, r) ==
  \E o \in Replies :
    LET t == <<w, r>> IN
    /\ step[t] = "recordRefused"
    /\ Answered(o)
    /\ thread' = IF Committed(o) THEN [thread EXCEPT ![r][row[t]] = "failed"] ELSE thread
    /\ Goto(t, IF o = "ok" THEN "linkFailed" ELSE "failStatus")
    /\ UNCHANGED <<rowVars, batchVars, tickVars, row, histVars, crashes, reportVars>>

(* A throw once `dispatched` is true ends the call; the mutant forgets to  *)
(* look and calls failRecipient.                                           *)
AfterDispatchFailing == "failStatus"

AfterDispatch == "idle"

(* `dispatched` is true: the recipient takes the dispatch's outcome and    *)
(* its message id, retried.  Giving up leaves the row "sending".           *)
LinkOutcome(w, r) ==
  \E o \in Replies :
    LET t == <<w, r>> IN
    /\ step[t] \in {"linkSent", "linkFailed"}
    /\ Answered(o)
    /\ IF Committed(o)
       THEN SetRecipient(r, IF step[t] = "linkSent" THEN "sent" ELSE "failed", row[t])
       ELSE UNCHANGED rowVars
    /\ RetryOr(t, o, "count", AfterDispatch)
    /\ UNCHANGED <<thread, batchVars, tickVars, row, histVars, crashes, reportVars>>

(* The batch's counter, retried.  Giving up leaves it short by one.        *)
Count(w, r) ==
  \E o \in Replies :
    LET t == <<w, r>> IN
    /\ step[t] = "count"
    /\ Answered(o)
    /\ IF Committed(o) THEN Increment(BatchOf[r]) ELSE UNCHANGED batchVars
    /\ RetryOr(t, o, "idle", AfterDispatch)
    /\ UNCHANGED <<rowVars, thread, tickVars, row, histVars, crashes, reportVars>>

(* failRecipient's two statements, from inside the try block ("reject") or *)
(* from the catch block ("fail").  A throw inside the try block starts     *)
(* failRecipient over in the catch block; a throw there is only logged.    *)
AfterThrow(s) == IF s \in {"rejectStatus", "rejectCount"} THEN "failStatus" ELSE "idle"

FailStatus(w, r) ==
  \E o \in Replies :
    LET t == <<w, r>> IN
    /\ step[t] \in {"rejectStatus", "failStatus"}
    /\ Answered(o)
    /\ IF Committed(o) THEN SetRecipient(r, "failed", 0) ELSE UNCHANGED rowVars
    /\ Goto(t, IF o # "ok" THEN AfterThrow(step[t])
               ELSE IF step[t] = "rejectStatus" THEN "rejectCount" ELSE "failCount")
    /\ UNCHANGED <<thread, batchVars, tickVars, row, histVars, crashes, reportVars>>

FailCount(w, r) ==
  \E o \in Replies :
    LET t == <<w, r>> IN
    /\ step[t] \in {"rejectCount", "failCount"}
    /\ Answered(o)
    /\ IF Committed(o) THEN Increment(BatchOf[r]) ELSE UNCHANGED batchVars
    /\ Goto(t, IF o # "ok" THEN AfterThrow(step[t]) ELSE "idle")
    /\ UNCHANGED <<rowVars, thread, tickVars, row, histVars, crashes, reportVars>>

ProcessRecipient(w, r) ==
  \/ Claim(w, r) \/ Prepare(w, r) \/ Send(w, r)
  \/ RecordSent(w, r) \/ RecordRefused(w, r)
  \/ LinkOutcome(w, r) \/ Count(w, r)
  \/ FailStatus(w, r) \/ FailCount(w, r)

-----------------------------------------------------------------------------
(* The environment.                                                        *)

(* A replica dies between two statements and comes back with no memory. *)
Crash(w) ==
  /\ crashes < MaxCrashes
  /\ crashes' = crashes + 1
  /\ phase' = [phase EXCEPT ![w] = "off"]
  /\ step' = [t \in Task |-> IF t[1] = w THEN "idle" ELSE step[t]]
  /\ tries' = [t \in Task |-> IF t[1] = w THEN 0 ELSE tries[t]]
  /\ row' = [t \in Task |-> IF t[1] = w THEN 0 ELSE row[t]]
  /\ round' = [round EXCEPT ![w] = 0]
  /\ UNCHANGED <<rowVars, thread, batchVars, histVars, faults, reportVars>>

(* STUCK_CLAIM_TIMEOUT_MS passes over a claim.  Unless SlowSends, that is  *)
(* longer than any live dispatch takes.                                    *)
ClaimGrowsStale(r) ==
  /\ status[r] = "sending"
  /\ r \notin stale
  /\ reclaims[r] < MaxReclaims
  /\ SlowSends \/ \A w \in Replica : r \notin Running(w)
  /\ stale' = stale \cup {r}
  /\ UNCHANGED <<status, link, thread, batchVars, tickVars, taskVars, histVars, faults, crashes, reportVars>>

(* The webhook of Twilio or SES finds the message row n by its             *)
(* provider_message_id and writes what it was told over whatever the row   *)
(* says: at any time, in any order and as often as the provider calls.     *)
(* The recipient's row is not touched.                                     *)
DeliveryReport(r, n, s) ==
  /\ n \in tracked[r]
  /\ s \in ReportsOf[r]
  /\ thread' = [thread EXCEPT ![r][n] = s]
  /\ bounced' = IF s \in NotDelivered THEN [bounced EXCEPT ![r] = @ \cup {n}] ELSE bounced
  /\ UNCHANGED <<rowVars, tracked, batchVars, tickVars, taskVars, histVars, faults, crashes>>

-----------------------------------------------------------------------------
Loop(w) == Tick(w) \/ List(w) \/ EndRound(w)

Next ==
  \/ \E b \in Batch : CreateBatch(b)
  \/ \E w \in Replica : Loop(w) \/ ListFails(w) \/ Crash(w)
  \/ \E w \in Replica, r \in Recipient : ProcessRecipient(w, r)
  \/ \E r \in Recipient : ClaimGrowsStale(r)
  \/ \E r \in Recipient : \E n \in tracked[r], s \in ReportsOf[r] : DeliveryReport(r, n, s)

SafeSpec == Init /\ [][Next]_vars

(* setInterval keeps firing, an issued statement or call eventually        *)
(* answers, and time passes; nobody has to post a batch, crash or report.  *)
Fairness ==
  /\ \A w \in Replica : WF_vars(Loop(w))
  /\ \A w \in Replica, r \in Recipient : WF_vars(ProcessRecipient(w, r))
  /\ \A r \in Recipient : WF_vars(ClaimGrowsStale(r))

Spec == SafeSpec /\ Fairness

-----------------------------------------------------------------------------
(* Properties.                                                             *)

(* The claim is "the entire double-send guard for bulk Notices": a         *)
(* recipient's message reaches the provider at most once for each time its *)
(* row was pending, whatever crashes, faults or slow sends come - so a     *)
(* second copy always has a stuck-claim sweep behind it.                   *)
HandedOncePerClaim == \A r \in Recipient : handed[r] <= 1 + reclaims[r]

(* What reside reads is about one attempt, even when two attempts of two   *)
(* replicas race to report.  A sent recipient links to a message row, and  *)
(* one that says otherwise does so because the provider, which had taken   *)
(* the message, reported later that it did not arrive: the webhooks write  *)
(* the message row alone.  A failed recipient that links to a row links to *)
(* the row of the attempt that failed, which no report changes.            *)
LinkedRowAgrees ==
  \A r \in Recipient :
    /\ status[r] = "sent" =>
         /\ link[r] # 0
         /\ thread[r][link[r]] \in NotDelivered => link[r] \in bounced[r]
    /\ status[r] = "failed" /\ link[r] # 0 => thread[r][link[r]] = "failed"

(* A posted recipient does not stay pending or sending for ever: a claim   *)
(* whose replica died, or whose result could not be written, is swept up   *)
(* and sent again.                                                         *)
NobodyStranded ==
  \A r \in Recipient : status[r] \in {"pending", "sending"} ~> status[r] \in Resolved

(* What reside is told, read off this state. *)
Outcome == [r \in Recipient |-> IF status[r] \in {"pending", "sending"} THEN "waiting" ELSE status[r]]
Progress == [b \in Batch |-> IF batchStatus[b] \in {"pending", "processing"} THEN "open" ELSE batchStatus[b]]
Ledger == INSTANCE BatchLedger WITH outcome <- Outcome, progress <- Progress

(* However many replicas race and crash, as long as no statement has        *)
(* thrown and no claim has been swept every step is one BatchLedger        *)
(* allows: outcomes are final, and a batch is completed only when all of   *)
(* its recipients are settled.                                             *)
LedgerUntilFault ==
  [][faults' = 0 /\ (\A r \in Recipient : reclaims'[r] = 0) => [Ledger!Next]_(Ledger!vars)]_vars

(* A lone replica keeps the safety half through crashes and failed         *)
(* statements: it may never complete a batch, but never early, and it      *)
(* never changes an outcome it has reported.                               *)
KeepsLedgerSafely == Ledger!Spec
=============================================================================
