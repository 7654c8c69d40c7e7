--------------------------- MODULE ResponseClock ---------------------------
(***************************************************************************)
(* The response-due clock of a conversation.  A trigger on message inserts *)
(* starts and clears it (sql/99-functions-and-triggers.sql), the overdue   *)
(* worker tells reside when it has run out                                 *)
(* (overdue-conversation-worker.ts), and a merge or a split recomputes it  *)
(* from the messages it has moved (recomputeConversationSla).              *)
(*                                                                         *)
(* The worker uses setInterval, so a tick does not wait for the last one:  *)
(* a Slot is one tick in progress, of one replica or of several.           *)
(***************************************************************************)
EXTENDS Integers, FiniteSets

CONSTANTS
  Conversation,
  Slot,            \* ticks that may be in progress at once
  BatchLimit,      \* rows read per tick (BATCH_LIMIT)
  MaxReplies,      \* bound: outbound external messages per conversation
  MaxRestructures, \* bound: merges and splits, until one conversation has had so many
  MaxFaults        \* bound: statements that throw and ticks that die

ASSUME SetsAssumption == IsFiniteSet(Slot)

ASSUME BoundsAssumption ==
  /\ BatchLimit \in Nat \ {0}
  /\ MaxReplies \in Nat /\ MaxRestructures \in Nat /\ MaxFaults \in Nat

VARIABLES
  \* the database
  last,         \* the latest external message: "none", "inbound" or "outbound"
  due,          \* response_due_at: "off" (null), "running", or "elapsed"
  notified,     \* conversations whose response_overdue_notified_at is set
  \* the ticks
  step,         \* of each tick, per listed conversation
  \* a merge or split of the conversation
  recompute,    \* the statement recomputeConversationSla runs next
  \* history and budgets
  told,         \* overdue notices reside received
  toldNow,      \* conversations told since their clock last started
  replies,      \* outbound external messages so far
  restructures, \* merges and splits so far
  faults        \* faults so far

clockVars   == <<due, notified>>
historyVars == <<told, toldNow>>
countVars   == <<replies, restructures>>
vars == <<last, clockVars, step, recompute, historyVars, countVars, faults>>

Task == Slot \X Conversation

TypeOK ==
  /\ last \in [Conversation -> {"none", "inbound", "outbound"}]
  /\ due \in [Conversation -> {"off", "running", "elapsed"}]
  /\ notified \in SUBSET Conversation
  /\ step \in [Task -> {"idle", "listed", "claimed"}]
  /\ recompute \in [Conversation -> {"idle", "latest", "clear", "streak", "start"}]
  /\ told \in [Conversation -> Nat]
  /\ toldNow \in SUBSET Conversation
  /\ replies \in [Conversation -> Nat]
  /\ restructures \in [Conversation -> Nat]
  /\ faults \in 0..MaxFaults

Init ==
  /\ last = [c \in Conversation |-> "none"]
  /\ due = [c \in Conversation |-> "off"]
  /\ notified = {}
  /\ step = [t \in Task |-> "idle"]
  /\ recompute = [c \in Conversation |-> "idle"]
  /\ told = [c \in Conversation |-> 0]
  /\ toldNow = {}
  /\ replies = [c \in Conversation |-> 0]
  /\ restructures = [c \in Conversation |-> 0]
  /\ faults = 0

Fault == faults < MaxFaults /\ faults' = faults + 1

-----------------------------------------------------------------------------
(* The trigger.  Mutant: a reply that takes back the notice and lets the   *)
(* clock run on.                                                           *)

StartsIfOff(c) == due' = [due EXCEPT ![c] = IF due[c] = "off" THEN "running" ELSE @]

StoppedNoticeOnly(c) == UNCHANGED due /\ notified' = notified \ {c}

Stopped(c) == due' = [due EXCEPT ![c] = "off"] /\ notified' = notified \ {c}

(* An external message of the resident is inserted. *)
Inbound(c) ==
  /\ last' = [last EXCEPT ![c] = "inbound"]
  /\ StartsIfOff(c)
  /\ toldNow' = IF due[c] = "off" THEN toldNow \ {c} ELSE toldNow
  /\ UNCHANGED <<notified, step, recompute, told, countVars, faults>>

(* An external message of the tenant's staff is inserted - sent at once or *)
(* only queued, the trigger does not look.                                 *)
Outbound(c) ==
  /\ replies[c] < MaxReplies
  /\ replies' = [replies EXCEPT ![c] = @ + 1]
  /\ last' = [last EXCEPT ![c] = "outbound"]
  /\ Stopped(c)
  /\ UNCHANGED <<step, recompute, historyVars, restructures, faults>>

(* response_due_at passes. *)
Elapse(c) ==
  /\ due[c] = "running"
  /\ due' = [due EXCEPT ![c] = "elapsed"]
  /\ UNCHANGED <<last, notified, step, recompute, historyVars, countVars, faults>>

-----------------------------------------------------------------------------
(* The worker's ticks.                                                     *)

Overdue(c) == due[c] = "elapsed" /\ c \notin notified

Batches(S) == {T \in SUBSET S : Cardinality(T) = BatchLimit \/ (Cardinality(T) < BatchLimit /\ T = S)}

List(t) ==
  /\ \A c \in Conversation : step[t, c] = "idle"
  /\ \E S \in Batches({c \in Conversation : Overdue(c)}) :
       step' = [s \in Task |-> IF s[1] = t /\ s[2] \in S THEN "listed" ELSE step[s]]
  /\ UNCHANGED <<last, clockVars, recompute, historyVars, countVars, faults>>

(* The predicate of claimOverdueConversationNotification, which does not   *)
(* look at the clock again.  Mutants: no predicate at all, and isNotNull   *)
(* for isNull.                                                             *)
ClaimableAsListed(c) == TRUE

ClaimableOnceNotified(c) == c \in notified

Claimable(c) == c \notin notified

(* One conversation at a time.  A claim that loses, or throws, skips it.   *)
Claim(t, c) ==
  /\ step[t, c] = "listed"
  /\ \A d \in Conversation : step[t, d] # "claimed"
  /\ notified' = IF Claimable(c) THEN notified \cup {c} ELSE notified
  /\ step' = [step EXCEPT ![<<t, c>>] = IF Claimable(c) THEN "claimed" ELSE "idle"]
  /\ UNCHANGED <<last, due, recompute, historyVars, countVars, faults>>

(* Thread and tenant are read and reside is called. *)
Tell(t, c) ==
  /\ step[t, c] = "claimed"
  /\ step' = [step EXCEPT ![<<t, c>>] = "idle"]
  /\ told' = [told EXCEPT ![c] = @ + 1]
  /\ toldNow' = toldNow \cup {c}
  /\ UNCHANGED <<last, clockVars, recompute, countVars, faults>>

(* A statement or the call to reside throws, or the tenant is gone: the    *)
(* conversation is skipped, claimed or not.                                *)
Skip(t, c) ==
  /\ step[t, c] # "idle"
  /\ Fault
  /\ step' = [step EXCEPT ![<<t, c>>] = "idle"]
  /\ UNCHANGED <<last, clockVars, recompute, historyVars, countVars>>

-----------------------------------------------------------------------------
(* A merge or a split changes which messages belong to the conversation -  *)
(* with plain UPDATEs, so the trigger does not fire - and then recomputes  *)
(* the clock from them.                                                    *)

Restructure(c) ==
  /\ recompute[c] = "idle"
  /\ \A d \in Conversation : restructures[d] < MaxRestructures
  /\ restructures' = [restructures EXCEPT ![c] = @ + 1]
  /\ \E l \in {"none", "inbound", "outbound"} : last' = [last EXCEPT ![c] = l]
  /\ recompute' = [recompute EXCEPT ![c] = "latest"]
  /\ UNCHANGED <<clockVars, step, historyVars, replies, faults>>

(* latestExternal. *)
ReadLatest(c) ==
  /\ recompute[c] = "latest"
  /\ recompute' = [recompute EXCEPT ![c] = IF last[c] = "inbound" THEN "streak" ELSE "clear"]
  /\ UNCHANGED <<last, clockVars, step, historyVars, countVars, faults>>

(* lastOutbound and streakStart; no inbound message after the last         *)
(* outbound one any more: nothing is written.                              *)
ReadStreak(c) ==
  /\ recompute[c] = "streak"
  /\ recompute' = [recompute EXCEPT ![c] = IF last[c] = "inbound" THEN "start" ELSE "idle"]
  /\ UNCHANGED <<last, clockVars, step, historyVars, countVars, faults>>

(* The update: no external message, or an answered conversation, has no    *)
(* clock; an unanswered one has a clock from the start of its streak, and  *)
(* no notice.                                                              *)
WriteClock(c) ==
  /\ \/ recompute[c] = "clear" /\ due' = [due EXCEPT ![c] = "off"]
     \/ recompute[c] = "start" /\ \E d \in {"running", "elapsed"} : due' = [due EXCEPT ![c] = d]
  /\ notified' = notified \ {c}
  /\ toldNow' = toldNow \ {c}
  /\ recompute' = [recompute EXCEPT ![c] = "idle"]
  /\ UNCHANGED <<last, step, told, countVars, faults>>

Recompute(c) == ReadLatest(c) \/ ReadStreak(c) \/ WriteClock(c)

-----------------------------------------------------------------------------
Next ==
  \/ \E c \in Conversation : Inbound(c) \/ Outbound(c) \/ Elapse(c) \/ Restructure(c) \/ Recompute(c)
  \/ \E t \in Slot : List(t)
  \/ \E t \in Slot, c \in Conversation : Claim(t, c) \/ Tell(t, c) \/ Skip(t, c)

SafeSpec == Init /\ [][Next]_vars

(* Time passes, setInterval keeps firing, statements and calls answer.     *)
(* Nobody has to write, reply or restructure.                              *)
Fairness ==
  /\ \A c \in Conversation : WF_vars(Elapse(c)) /\ WF_vars(Recompute(c))
  /\ \A t \in Slot : WF_vars(List(t))
  /\ \A t \in Slot, c \in Conversation : WF_vars(Claim(t, c) \/ Tell(t, c))

Spec == SafeSpec /\ Fairness

-----------------------------------------------------------------------------
(* Properties.                                                             *)

(* Ticks overlap and replicas race, and still reside hears of one episode  *)
(* once: every further notice has a reply, or a merge or split that reset  *)
(* the clock, behind it.                                                   *)
NoticedOncePerEpisode ==
  \A c \in Conversation : told[c] <= 1 + replies[c] + restructures[c]

(* Until its first merge or split, the trigger alone keeps the clock on    *)
(* exactly the conversations that wait for an answer ...                   *)
ClockAgrees ==
  \A c \in Conversation :
    restructures[c] = 0 => ((due[c] # "off") <=> (last[c] = "inbound"))

(* An overdue conversation that has not been announced is announced, or    *)
(* answered first - through merges and splits, as long as no statement or  *)
(* call throws: a tick that has claimed it and fails does not try again.   *)
OverdueIsNoticed ==
  [](faults = 0)
    => \A c \in Conversation : Overdue(c) ~> due[c] = "off" \/ c \in toldNow
=============================================================================
