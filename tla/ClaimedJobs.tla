---------------------------- MODULE ClaimedJobs ----------------------------
(***************************************************************************)
(* Three workers of the realtime-bridge that take rows by a claim, do one  *)
(* slow and costly thing for each, and sweep up what a dead replica left:  *)
(*   topic      conversation-routing-worker.ts     pending -> processing   *)
(*              -> reviewed; a stranded row is retired, not replayed       *)
(*   document   document-ingestion-worker.ts       pending -> processing   *)
(*              -> ready or failed; replayed, once its chunks are deleted  *)
(*   voicemail  voicemail-transcription-worker.ts  pending -> transcribing *)
(*              -> ready or failed; replayed                               *)
(* They share no row, so an instance has rows of one kind, chosen at the   *)
(* start.  One action is one statement or one call to a provider.          *)
(***************************************************************************)
EXTENDS Integers, FiniteSets

CONSTANTS
  Replica,     \* realtime-bridge processes, one loop of the kind each
  Job,         \* rows: messages to check or transcribe, documents to ingest
  BatchLimit,  \* rows listed per tick (BATCH_LIMIT)
  SplitLimit,  \* AI_SPLIT_CIRCUIT_BREAKER_LIMIT
  MaxFaults,   \* bound: statements and calls that throw
  MaxCrashes,  \* bound: replica crashes
  MaxSlow      \* bound: how often live work outlasts STUCK_CLAIM_TIMEOUT_MS

ASSUME SetsAssumption == IsFiniteSet(Replica) /\ IsFiniteSet(Job) /\ Replica # {}

ASSUME BoundsAssumption ==
  /\ BatchLimit \in Nat \ {0} /\ SplitLimit \in Nat \ {0}
  /\ MaxFaults \in Nat /\ MaxCrashes \in Nat /\ MaxSlow \in Nat

VARIABLES
  kind,      \* of every row of the instance
  \* the database
  state,     \* the row's status column, "claimed" and "done" by any name
  stale,     \* claimed rows whose claim is older than the timeout
  chunks,    \* copies of its chunks in document_chunks
  recent,    \* the tenant's logged AI splits inside the breaker's window
  \* each replica's loop
  phase,     \* "off", "deleting" (chunks of swept documents), "listing", "working"
  swept,     \* the documents whose chunks it is about to delete
  step,      \* per listed row, what it does next
  \* history and budgets
  worked,    \* times the work on the row was begun
  requeued,  \* times the row was put back to pending
  torn,      \* documents claimed between a sweep's two statements, or whose
             \* sweeper went away between them, or swept from a live replica
  faults, crashes, slow

rowVars  == <<state, stale>>
loopVars == <<phase, swept>>
histVars == <<worked, requeued, torn>>
budgets  == <<faults, crashes, slow>>
vars == <<kind, rowVars, chunks, recent, loopVars, step, histVars, budgets>>

Task == Replica \X Job
Kinds == {"topic", "document", "voicemail"}
Working == {"work", "breaker", "split", "insert", "reject", "finish"}
Steps == {"idle", "listed", "fail"} \cup Working

(* Replicas between a claim of the row that was theirs and its end; those  *)
(* and the ones about to write a failure.                                  *)
Holders(j) == {w \in Replica : step[w, j] \in Working}
Busy(j) == {w \in Replica : step[w, j] \in Working \cup {"fail"}}

TypeOK ==
  /\ kind \in Kinds
  /\ state \in [Job -> {"absent", "pending", "claimed", "done", "failed", "deleted"}]
  /\ stale \in SUBSET Job
  /\ chunks \in [Job -> Nat]
  /\ recent \in Nat
  /\ phase \in [Replica -> {"off", "deleting", "listing", "working"}]
  /\ swept \in [Replica -> SUBSET Job]
  /\ step \in [Task -> Steps]
  /\ worked \in [Job -> Nat]
  /\ requeued \in [Job -> Nat]
  /\ torn \in SUBSET Job
  /\ faults \in 0..MaxFaults
  /\ crashes \in 0..MaxCrashes
  /\ slow \in 0..MaxSlow

Init ==
  /\ kind \in Kinds
  /\ state = [j \in Job |-> IF kind = "document" THEN "absent" ELSE "pending"]
  /\ stale = {}
  /\ chunks = [j \in Job |-> 0]
  /\ recent \in IF kind = "topic" THEN 0..SplitLimit ELSE {0}
  /\ phase = [w \in Replica |-> "off"]
  /\ swept = [w \in Replica |-> {}]
  /\ step = [t \in Task |-> "idle"]
  /\ worked = [j \in Job |-> 0]
  /\ requeued = [j \in Job |-> 0]
  /\ torn = {}
  /\ faults = 0
  /\ crashes = 0
  /\ slow = 0

-----------------------------------------------------------------------------
(* How a statement ends for the caller: it commits and answers, it throws  *)
(* with nothing written, or it commits and the answer is lost.             *)

Replies == {"ok", "error", "lost"}

Answered(o) ==
  IF o = "ok" THEN UNCHANGED faults
  ELSE faults < MaxFaults /\ faults' = faults + 1

Committed(o) == o \in {"ok", "lost"}

Goto(w, j, s) == step' = [step EXCEPT ![<<w, j>>] = s]

-----------------------------------------------------------------------------
(* Predicates of the updates, each after a mutant of it.                   *)

(* The three claims; the mutant takes a row that is being worked on. *)
ClaimableWhileClaimed(j) == state[j] \in {"pending", "claimed"}

Claimable(j) == state[j] = "pending"

Exists(j) == state[j] \notin {"absent", "deleted"}

(* What the sweep makes of a stranded row: a topic check is retired, since *)
(* a split would by now move unrelated history.  The mutant leaves all as  *)
(* they are.                                                               *)
SweptNot == "claimed"

SweptTo == IF kind = "topic" THEN "done" ELSE "pending"

(* The terminal writes: a transcript or its failure lands only on a row    *)
(* that is still claimed; the others go by id alone.                       *)
Lands(j) == Exists(j) /\ (kind = "voicemail" => state[j] = "claimed")

(* countRecentAiSplits is below the limit; the mutant is off by one.       *)
BelowLimitOrAt == recent <= SplitLimit

BelowLimit == recent < SplitLimit

(* What a sweep leaves of a document's chunks; the mutant forgets them.    *)
ChunksKept(D) == chunks

ChunksDeleted(D) == [j \in Job |-> IF j \in D THEN 0 ELSE chunks[j]]

-----------------------------------------------------------------------------
(* A tick: sweep, list, work off the list.                                 *)

Stranded == {j \in Job : state[j] = "claimed" /\ j \in stale}

(* cancelStrandedTopicChecks, reclaimStrandedDocuments' first statement,   *)
(* reclaimStrandedVoicemailTranscriptions.  If it throws the tick is over. *)
Sweep(w) ==
  \E o \in Replies :
    LET S == IF Committed(o) THEN Stranded ELSE {} IN
    /\ phase[w] = "off"
    /\ Answered(o)
    /\ state' = [j \in Job |-> IF j \in S THEN SweptTo ELSE state[j]]
    /\ stale' = stale \ S
    /\ requeued' = [j \in Job |-> IF j \in S /\ SweptTo = "pending" THEN requeued[j] + 1 ELSE requeued[j]]
    /\ torn' = torn \cup {j \in S : o = "lost" \/ Holders(j) # {}}
    /\ swept' = [swept EXCEPT ![w] = IF o = "ok" /\ kind = "document" THEN S ELSE {}]
    /\ phase' = [phase EXCEPT ![w] =
         IF o # "ok" THEN "off" ELSE IF swept'[w] # {} THEN "deleting" ELSE "listing"]
    /\ UNCHANGED <<kind, chunks, recent, step, worked, crashes, slow>>

(* reclaimStrandedDocuments' second statement. *)
DeleteChunks(w) ==
  \E o \in Replies :
    /\ phase[w] = "deleting"
    /\ Answered(o)
    /\ chunks' = IF Committed(o) THEN ChunksDeleted(swept[w]) ELSE chunks
    /\ torn' = IF Committed(o) THEN torn ELSE torn \cup swept[w]
    /\ swept' = [swept EXCEPT ![w] = {}]
    /\ phase' = [phase EXCEPT ![w] = IF o = "ok" THEN "listing" ELSE "off"]
    /\ UNCHANGED <<kind, rowVars, recent, step, worked, requeued, crashes, slow>>

Batches(S) == {T \in SUBSET S : Cardinality(T) = BatchLimit \/ (Cardinality(T) < BatchLimit /\ T = S)}

List(w) ==
  /\ phase[w] = "listing"
  /\ \E S \in Batches({j \in Job : state[j] = "pending"}) :
       /\ step' = [t \in Task |-> IF t[1] = w /\ t[2] \in S THEN "listed" ELSE step[t]]
       /\ phase' = [phase EXCEPT ![w] = IF S = {} THEN "off" ELSE "working"]
  /\ UNCHANGED <<kind, rowVars, chunks, recent, swept, histVars, budgets>>

(* The read throws. *)
ListFails(w) ==
  /\ phase[w] = "listing"
  /\ Answered("error")
  /\ phase' = [phase EXCEPT ![w] = "off"]
  /\ UNCHANGED <<kind, rowVars, chunks, recent, swept, step, histVars, crashes, slow>>

EndTick(w) ==
  /\ phase[w] = "working"
  /\ \A j \in Job : step[w, j] = "idle"
  /\ phase' = [phase EXCEPT ![w] = "off"]
  /\ UNCHANGED <<kind, rowVars, chunks, recent, swept, step, histVars, budgets>>

-----------------------------------------------------------------------------
(* One listed row.                                                         *)

(* A throw goes to the catch block, whoever has the row.                   *)
Claim(w, j) ==
  \E o \in Replies :
    /\ step[w, j] = "listed"
    /\ \A i \in Job : step[w, i] \in {"idle", "listed"}
    /\ Answered(o)
    /\ IF Committed(o) /\ Claimable(j)
       THEN /\ state' = [state EXCEPT ![j] = "claimed"]
            /\ stale' = stale \ {j}
            /\ torn' = torn \cup {i \in {j} : \E v \in Replica : i \in swept[v]}
       ELSE UNCHANGED <<rowVars, torn>>
    /\ Goto(w, j, IF o # "ok" THEN "fail" ELSE IF Claimable(j) THEN "work" ELSE "idle")
    /\ UNCHANGED <<kind, chunks, recent, loopVars, worked, requeued, crashes, slow>>

(* The reads and the costly call, and where their outcomes lead: a topic   *)
(* check finds a new topic or not; a document has chunks and room for      *)
(* them or not; a voicemail has a recording or not.                        *)
AfterWork ==
  CASE kind = "topic"     -> {"breaker", "finish"}
    [] kind = "document"  -> {"insert", "reject"}
    [] kind = "voicemail" -> {"finish", "reject"}

Work(w, j) ==
  /\ step[w, j] = "work"
  /\ worked' = [worked EXCEPT ![j] = @ + 1]
  /\ \/ \E s \in AfterWork : Goto(w, j, s) /\ UNCHANGED faults
     \/ Goto(w, j, "fail") /\ Answered("error")
  /\ UNCHANGED <<kind, rowVars, chunks, recent, loopVars, requeued, torn, crashes, slow>>

(* The circuit breaker is read ... *)
Breaker(w, j) ==
  \E o \in {"ok", "error"} :
    /\ step[w, j] = "breaker"
    /\ Answered(o)
    /\ Goto(w, j, IF o # "ok" THEN "fail" ELSE IF BelowLimit THEN "split" ELSE "finish")
    /\ UNCHANGED <<kind, rowVars, chunks, recent, loopVars, histVars, crashes, slow>>

(* ... and the message is split off; the log entry is written last.        *)
Split(w, j) ==
  \E o \in Replies :
    /\ step[w, j] = "split"
    /\ Answered(o)
    /\ recent' = IF Committed(o) THEN recent + 1 ELSE recent
    /\ Goto(w, j, IF o = "ok" THEN "finish" ELSE "fail")
    /\ UNCHANGED <<kind, rowVars, chunks, loopVars, histVars, crashes, slow>>

(* insertDocumentChunks; the rows of a document that was deleted meanwhile *)
(* are refused.                                                            *)
Inserted(j) == IF Exists(j) THEN [chunks EXCEPT ![j] = @ + 1] ELSE chunks

InsertChunks(w, j) ==
  \E o \in Replies :
    /\ step[w, j] = "insert"
    /\ Answered(o)
    /\ chunks' = IF Committed(o) THEN Inserted(j) ELSE chunks
    /\ Goto(w, j, IF o = "ok" /\ Exists(j) THEN "finish" ELSE "fail")
    /\ UNCHANGED <<kind, rowVars, recent, loopVars, histVars, crashes, slow>>

(* The terminal writes: finish and reject inside the try block, fail in    *)
(* the catch block, where a throw is only logged.  A topic check that      *)
(* failed is reviewed all the same.                                        *)
Outcome(s) == IF s = "finish" \/ kind = "topic" THEN "done" ELSE "failed"

Settle(w, j) ==
  \E o \in Replies :
    /\ step[w, j] \in {"finish", "reject", "fail"}
    /\ Answered(o)
    /\ state' = IF Committed(o) /\ Lands(j) THEN [state EXCEPT ![j] = Outcome(step[w, j])] ELSE state
    /\ Goto(w, j, IF o # "ok" /\ step[w, j] # "fail" THEN "fail" ELSE "idle")
    /\ UNCHANGED <<kind, stale, chunks, recent, loopVars, histVars, crashes, slow>>

Process(w, j) ==
  \/ Claim(w, j) \/ Work(w, j)
  \/ Breaker(w, j) \/ Split(w, j)
  \/ InsertChunks(w, j)
  \/ Settle(w, j)

-----------------------------------------------------------------------------
(* The environment.                                                        *)

(* A document is uploaded.  Its limits are read before the insert, so that *)
(* uploads at the same time can pass them: they are left out.              *)
CreateDocument(j) ==
  /\ state[j] = "absent"
  /\ state' = [state EXCEPT ![j] = "pending"]
  /\ UNCHANGED <<kind, stale, chunks, recent, loopVars, step, histVars, budgets>>

(* It is deleted, in whatever state it is, and its chunks go with it.      *)
DeleteDocument(j) ==
  /\ kind = "document" /\ Exists(j)
  /\ state' = [state EXCEPT ![j] = "deleted"]
  /\ stale' = stale \ {j}
  /\ chunks' = [chunks EXCEPT ![j] = 0]
  /\ UNCHANGED <<kind, recent, loopVars, step, histVars, budgets>>

(* A replica dies between two statements and comes back with no memory. *)
Crash(w) ==
  /\ crashes < MaxCrashes
  /\ crashes' = crashes + 1
  /\ torn' = torn \cup swept[w]
  /\ phase' = [phase EXCEPT ![w] = "off"]
  /\ swept' = [swept EXCEPT ![w] = {}]
  /\ step' = [t \in Task |-> IF t[1] = w THEN "idle" ELSE step[t]]
  /\ UNCHANGED <<kind, rowVars, chunks, recent, worked, requeued, faults, slow>>

(* The timeout passes over a claim nobody works on ... *)
ClaimGrowsStale(j) ==
  /\ state[j] = "claimed" /\ j \notin stale
  /\ Busy(j) = {}
  /\ stale' = stale \cup {j}
  /\ UNCHANGED <<kind, state, chunks, recent, loopVars, step, histVars, budgets>>

(* ... or over one whose replica hangs. *)
WorkOutlastsClaim(j) ==
  /\ state[j] = "claimed" /\ j \notin stale
  /\ Busy(j) # {}
  /\ slow < MaxSlow
  /\ slow' = slow + 1
  /\ stale' = stale \cup {j}
  /\ UNCHANGED <<kind, state, chunks, recent, loopVars, step, worked, requeued, torn, faults, crashes>>

(* A split leaves the breaker's window. *)
WindowMoves ==
  /\ recent > 0
  /\ recent' = recent - 1
  /\ UNCHANGED <<kind, rowVars, chunks, loopVars, step, histVars, budgets>>

-----------------------------------------------------------------------------
Loop(w) == Sweep(w) \/ DeleteChunks(w) \/ List(w) \/ EndTick(w)

Next ==
  \/ \E w \in Replica : Loop(w) \/ ListFails(w) \/ Crash(w)
  \/ \E w \in Replica, j \in Job : Process(w, j)
  \/ \E j \in Job : ClaimGrowsStale(j) \/ WorkOutlastsClaim(j)
  \/ \E j \in Job : CreateDocument(j) \/ DeleteDocument(j)
  \/ WindowMoves

SafeSpec == Init /\ [][Next]_vars

(* startPollLoop schedules the next tick whatever the last one did;        *)
(* statements and calls answer, so that a replica goes on with whatever it *)
(* is at; time passes.  Nobody has to crash.                               *)
Fairness ==
  /\ \A w \in Replica : WF_vars(Loop(w) \/ \E j \in Job : Process(w, j))
  /\ \A j \in Job : WF_vars(ClaimGrowsStale(j))

Spec == SafeSpec /\ Fairness

-----------------------------------------------------------------------------
(* Properties.                                                             *)

(* The claim comes before the work because the work is costly and not      *)
(* idempotent: it is begun once for each time the row was pending, through *)
(* crashes, faults, lost replies and work that outlasts its claim.  A      *)
(* topic check is never pending again, so its message is split off once at *)
(* most.                                                                   *)
WorkedOncePerClaim ==
  \A j \in Job :
    /\ worked[j] <= 1 + requeued[j]
    /\ kind = "topic" => worked[j] <= 1

(* "caps the blast radius of a systematic misfire" (index.ts): the count   *)
(* is read before the split and the split logged after it, so the cap can  *)
(* be overshot - by less than one split per replica, and no further.       *)
BreakerCaps == recent <= SplitLimit + Cardinality(Replica) - 1

(* A document that can be retrieved has each of its chunks exactly once,   *)
(* wherever an ingestion died before - unless a sweep was interrupted      *)
(* between its two statements, or took the document from a live replica.   *)
IngestedOnce ==
  \A j \in Job : kind = "document" /\ state[j] = "done" /\ j \notin torn => chunks[j] = 1

(* "Never left stuck": every row comes to its end, whatever replica dies   *)
(* with it or fails to write it.                                           *)
JobsEnd == \A j \in Job : state[j] \in {"pending", "claimed"} ~> state[j] \in {"done", "failed", "deleted"}
=============================================================================
