------------------------ MODULE ScheduledSend_proofs ------------------------
(* Theorems about ScheduledSend, for any number of replicas, messages,     *)
(* reports, faults and crashes.                                            *)
EXTENDS ScheduledSend, FiniteSetTheorems, TLAPS

(* A hand-off is owed to a queueing: a message that is queued, or yet to   *)
(* be composed, holds one token, its claim hands it to a replica on its    *)
(* way to the provider, the hand-off spends it, and only a report that     *)
(* queues the message again mints another.                                 *)
OnTheWay(m) == {w \in Replica : step[w, m] \in {"lookup", "send"}}

Waiting(m) == IF status[m] \in {"none", "queued"} THEN 1 ELSE 0

Owed(m) == handed[m] + Cardinality(OnTheWay(m)) + Waiting(m) <= 1 + requeued[m]

HandoffIsOwed == \A m \in Message : Owed(m)

(* A message withdrawn while it held its only token is on nobody's way.    *)
Withdrawn(m) ==
  m \in canceled /\ requeued[m] = 0 =>
    handed[m] = 0 /\ OnTheWay(m) = {} /\ status[m] \notin {"none", "queued"}

CanceledAreWithdrawn == \A m \in Message : Withdrawn(m)

-----------------------------------------------------------------------------
(* What a row says of the past: a review waits for a message to review, a  *)
(* provider id for a hand-off and a report for a provider id.              *)
Recorded(m) ==
  /\ status[m] = "none" => review[m] = "none"
  /\ \A w \in Replica : step[w, m] = "recordSent" => handed[m] # 0
  /\ providerId[m] # 0 => handed[m] # 0
  /\ \A s \in DeliveryStatus : <<m, s>> \in inbox => providerId[m] # 0

AllRecorded == \A m \in Message : Recorded(m)

(* Until something throws or a report queues the message again, one        *)
(* replica at most has it, from its claim, which found it approved, to the *)
(* record of its outcome; it has gone out when that one says so.           *)
Bound == {"lookup", "reject", "send"}
Gone == {"recordSent", "recordRefused"}
Carriers(m) == {w \in Replica : step[w, m] \in Bound \cup Gone}

Undisturbed(m) ==
  /\ \A w \in Replica : step[w, m] # "fail"
  /\ \A v, w \in Carriers(m) : v = w
  /\ \A w \in Carriers(m) :
       /\ review[m] = "approved"
       /\ step[w, m] \in Bound => status[m] = "sending" /\ handed[m] = 0
       /\ step[w, m] \in Gone => handed[m] = 1
  /\ status[m] \in {"none", "queued"} => Carriers(m) = {} /\ handed[m] = 0
  /\ handed[m] \in {0, 1}

OneCarrier == faults = 0 => \A m \in Message : requeued[m] = 0 => Undisturbed(m)

IInv == TypeOK /\ HandoffIsOwed /\ CanceledAreWithdrawn /\ AllRecorded /\ OneCarrier

-----------------------------------------------------------------------------
(* What a replica does next, after each way of writing it down.            *)
Only(w, m, s) ==
  \A v \in Replica, n \in Message : step'[v, n] = IF v = w /\ n = m THEN s ELSE step[v, n]

OnlyIn(w, S, s) ==
  \A v \in Replica, n \in Message : step'[v, n] = IF v = w /\ n \in S THEN s ELSE step[v, n]

LEMMA StepGoes ==
  ASSUME TypeOK, NEW w \in Replica, NEW m \in Message, NEW s \in Steps, Goto(<<w, m>>, s)
  PROVE  step' \in [Task -> Steps] /\ tries' \in [Task -> Nat] /\ Only(w, m, s)
<1>1. step \in [Task -> Steps] /\ tries \in [Task -> Nat]
  BY DEF TypeOK
<1>2. <<w, m>> \in Task /\ \A v \in Replica, n \in Message : <<v, n>> \in Task
  BY DEF Task
<1>3. step' = [step EXCEPT ![<<w, m>>] = s] /\ tries' = [tries EXCEPT ![<<w, m>>] = 0]
  BY DEF Goto
<1>4. step' \in [Task -> Steps] /\ tries' \in [Task -> Nat]
  BY <1>1, <1>3
<1> QED BY <1>1, <1>2, <1>3, <1>4 DEF Only

LEMMA StepListed ==
  ASSUME step \in [Task -> Steps], NEW w \in Replica, NEW S \in SUBSET Message, NEW s \in Steps,
         step' = [t \in Task |-> IF t[1] = w /\ t[2] \in S THEN s ELSE step[t]]
  PROVE  step' \in [Task -> Steps] /\ OnlyIn(w, S, s)
<1>1. \A v \in Replica, n \in Message : <<v, n>> \in Task /\ <<v, n>>[1] = v /\ <<v, n>>[2] = n
  BY DEF Task
<1> QED BY <1>1 DEF OnlyIn

(* A crash forgets all a replica had in hand.                              *)
LEMMA StepForgotten ==
  ASSUME step \in [Task -> Steps], NEW w \in Replica,
         step' = [t \in Task |-> IF t[1] = w THEN "idle" ELSE step[t]]
  PROVE  step' \in [Task -> Steps] /\ OnlyIn(w, Message, "idle")
<1>1. \A v \in Replica, n \in Message : <<v, n>> \in Task /\ <<v, n>>[1] = v
  BY DEF Task
<1>2. "idle" \in Steps
  BY DEF Steps
<1> QED BY <1>1, <1>2 DEF OnlyIn

LEMMA BatchesAreSubsets ==
  ASSUME NEW S, NEW T \in Batches(S)
  PROVE  T \subseteq S
BY DEF Batches

-----------------------------------------------------------------------------
(* Types.                                                                  *)
Outcomes == {"none"} \cup DeliveryStatus

LEMMA StatusSet ==
  ASSUME TypeOK, NEW m \in Message, NEW s \in DeliveryStatus, NEW id \in Nat, SetDelivery(m, s, id)
  PROVE  status' \in [Message -> Outcomes] /\ providerId' \in [Message -> Nat]
BY DEF TypeOK, SetDelivery, Outcomes

LEMMA TypesKept ==
  ASSUME TypeOK, [Next]_vars
  PROVE  TypeOK'
<1> USE BoundsAssumption
<1>0. /\ step \in [Task -> Steps] /\ tries \in [Task -> Nat]
      /\ reviewStep \in [Task -> {"idle", "listed", "flag"}]
      /\ status \in [Message -> Outcomes] /\ providerId \in [Message -> Nat]
      /\ review \in [Message -> {"none", "pending", "approved", "flagged"}]
  BY DEF TypeOK, Outcomes
<1>1. ASSUME NEW o, Answered(o)
      PROVE  faults' \in 0..MaxFaults
  BY <1>1 DEF TypeOK, Answered
<1>2. ASSUME NEW m \in Message, Compose(m) \/ Approve(m)
      PROVE  TypeOK'
  <2>1. status' \in [Message -> Outcomes]
    BY <1>0, <1>2 DEF Compose, Approve, rowVars, Outcomes, DeliveryStatus
  <2>2. review' \in [Message -> {"none", "pending", "approved", "flagged"}]
    BY <1>0, <1>2 DEF Compose, Approve
  <2> QED BY <1>2, <2>1, <2>2
          DEF TypeOK, Compose, Approve, rowVars, sendVars, webhookVars, histVars, Outcomes
<1>3. ASSUME NEW m \in Message, ComesDue(m)
      PROVE  TypeOK'
  BY <1>3 DEF TypeOK, ComesDue, rowVars, sendVars, webhookVars, histVars
<1>4. ASSUME NEW m \in Message, Cancel(m)
      PROVE  TypeOK'
  <2>1. status' \in [Message -> Outcomes] /\ canceled' \in SUBSET Message
    BY <1>0, <1>4 DEF Cancel, TypeOK, Outcomes, DeliveryStatus
  <2>2. faults' \in 0..MaxFaults
    BY <1>1, <1>4 DEF Cancel
  <2> QED BY <1>4, <2>1, <2>2 DEF TypeOK, Cancel, sendVars, webhookVars, Outcomes
<1>5. ASSUME NEW w \in Replica, ListDue(w)
      PROVE  TypeOK'
  <2>1. PICK S \in Batches({m \in Message : Due(m)}) :
          step' = [t \in Task |-> IF t[1] = w /\ t[2] \in S THEN "listed" ELSE step[t]]
    BY <1>5 DEF ListDue
  <2>2. S \in SUBSET Message /\ "listed" \in Steps
    BY BatchesAreSubsets DEF Steps
  <2>3. step' \in [Task -> Steps]
    BY <1>0, <2>1, <2>2, StepListed
  <2> QED BY <1>5, <2>3 DEF TypeOK, ListDue, rowVars, webhookVars, histVars
<1>6. ASSUME NEW w \in Replica, ListReviews(w)
      PROVE  TypeOK'
  <2>1. reviewStep' \in [Task -> {"idle", "listed", "flag"}]
    BY <1>0, <1>6 DEF ListReviews
  <2> QED BY <1>6, <2>1 DEF TypeOK, ListReviews, rowVars, sendVars, webhookVars, histVars
<1>7. ASSUME NEW w \in Replica, Crash(w)
      PROVE  TypeOK'
  <2>1. step' \in [Task -> Steps]
    BY <1>0, <1>7, StepForgotten DEF Crash
  <2>2. tries' \in [Task -> Nat] /\ reviewStep' \in [Task -> {"idle", "listed", "flag"}]
    BY <1>0, <1>7 DEF Crash
  <2>3. crashes' \in 0..MaxCrashes
    BY <1>7 DEF Crash, TypeOK
  <2> QED BY <1>7, <2>1, <2>2, <2>3 DEF TypeOK, Crash, rowVars, webhookVars, histVars
<1>8. ASSUME NEW w \in Replica, NEW m \in Message, Claim(w, m)
      PROVE  TypeOK'
  <2>1. PICK s \in Steps : Goto(<<w, m>>, s)
    BY <1>8 DEF Claim, Steps
  <2>2. step' \in [Task -> Steps] /\ tries' \in [Task -> Nat]
    BY <2>1, StepGoes
  <2>3. status' \in [Message -> Outcomes]
    BY <1>0, <1>8 DEF Claim, Outcomes, DeliveryStatus
  <2>4. faults' \in 0..MaxFaults
    BY <1>1, <1>8 DEF Claim
  <2> QED BY <1>8, <2>2, <2>3, <2>4 DEF TypeOK, Claim, webhookVars, histVars, Outcomes
<1>9. ASSUME NEW w \in Replica, NEW m \in Message, Lookup(w, m)
      PROVE  TypeOK'
  <2>1. PICK s \in Steps : Goto(<<w, m>>, s)
    BY <1>9 DEF Lookup, Steps
  <2>2. step' \in [Task -> Steps] /\ tries' \in [Task -> Nat]
    BY <2>1, StepGoes
  <2>3. faults' \in 0..MaxFaults
    BY <1>1, <1>9 DEF Lookup
  <2> QED BY <1>9, <2>2, <2>3 DEF TypeOK, Lookup, rowVars, webhookVars, histVars
<1>10. ASSUME NEW w \in Replica, NEW m \in Message, RecordFailure(w, m)
       PROVE  TypeOK'
  <2>1. PICK s \in Steps : Goto(<<w, m>>, s)
    BY <1>10 DEF RecordFailure, Steps
  <2>2. step' \in [Task -> Steps] /\ tries' \in [Task -> Nat]
    BY <2>1, StepGoes
  <2>3. status' \in [Message -> Outcomes] /\ providerId' \in [Message -> Nat]
    <3>1. "failed" \in DeliveryStatus /\ 0 \in Nat
      BY DEF DeliveryStatus
    <3> QED BY <1>0, <1>10, <3>1, StatusSet DEF RecordFailure, rowVars
  <2>4. faults' \in 0..MaxFaults
    BY <1>1, <1>10 DEF RecordFailure
  <2> QED BY <1>10, <2>2, <2>3, <2>4 DEF TypeOK, RecordFailure, webhookVars, histVars, Outcomes
<1>11. ASSUME NEW w \in Replica, NEW m \in Message, Send(w, m)
       PROVE  TypeOK'
  <2>1. PICK s \in Steps : Goto(<<w, m>>, s)
    BY <1>11 DEF Send, Steps
  <2>2. step' \in [Task -> Steps] /\ tries' \in [Task -> Nat]
    BY <2>1, StepGoes
  <2>3. handed' \in [Message -> Nat]
    <3>1. handed \in [Message -> Nat] /\ handed' = [handed EXCEPT ![m] = handed[m] + 1]
      BY <1>11 DEF TypeOK, Send
    <3>2. handed[m] + 1 \in Nat
      BY <3>1
    <3> QED BY <3>1, <3>2
  <2> QED BY <1>11, <2>2, <2>3 DEF TypeOK, Send, rowVars, webhookVars
<1>12. ASSUME NEW w \in Replica, NEW m \in Message, RecordSent(w, m)
       PROVE  TypeOK'
  <2>1. step' \in [Task -> Steps] /\ tries' \in [Task -> Nat]
    <3>1. CASE Goto(<<w, m>>, "idle")
      <4>1. "idle" \in Steps
        BY DEF Steps
      <4> QED BY <3>1, <4>1, StepGoes
    <3>2. CASE step' = step /\ tries' = [tries EXCEPT ![<<w, m>>] = tries[<<w, m>>] + 1]
      <4>1. <<w, m>> \in Task
        BY DEF Task
      <4>2. tries[<<w, m>>] + 1 \in Nat
        BY <1>0, <4>1
      <4> QED BY <1>0, <3>2, <4>2
    <3> QED BY <1>12, <3>1, <3>2 DEF RecordSent
  <2>2. status' \in [Message -> Outcomes] /\ providerId' \in [Message -> Nat]
    <3>1. "sent" \in DeliveryStatus /\ handed[m] \in Nat
      BY DEF DeliveryStatus, TypeOK
    <3> QED BY <1>0, <1>12, <3>1, StatusSet DEF RecordSent, rowVars
  <2>3. faults' \in 0..MaxFaults
    BY <1>1, <1>12 DEF RecordSent
  <2> QED BY <1>12, <2>1, <2>2, <2>3 DEF TypeOK, RecordSent, webhookVars, histVars, Outcomes
<1>13. ASSUME NEW w \in Replica, NEW m \in Message, Review(w, m) \/ FlagAfterThrow(w, m)
       PROVE  TypeOK'
  <2>1. reviewStep' \in [Task -> {"idle", "listed", "flag"}]
    BY <1>0, <1>13 DEF Review, FlagAfterThrow
  <2>2. PICK v \in {"approved", "flagged"}, o \in Replies : Verdict(w, m, v, o)
    BY <1>13 DEF Review, FlagAfterThrow
  <2>3. review' \in [Message -> {"none", "pending", "approved", "flagged"}]
    BY <1>0, <2>2 DEF Verdict
  <2>4. faults' \in 0..MaxFaults
    BY <1>1, <2>2 DEF Verdict
  <2> QED BY <2>1, <2>2, <2>3, <2>4 DEF TypeOK, Verdict, rowVars, sendVars, webhookVars, histVars
<1>14. ASSUME NEW m \in Message, NEW s \in DeliveryStatus, ReportFound(m, s)
       PROVE  TypeOK'
  <2>1. inbox' \in SUBSET (Message \X DeliveryStatus) /\ reports' \in 0..MaxReports
    BY <1>14 DEF TypeOK, ReportFound
  <2> QED BY <1>14, <2>1 DEF TypeOK, ReportFound, rowVars, sendVars, histVars
<1>15. ASSUME NEW m \in Message, NEW s \in DeliveryStatus, ReportApplied(m, s)
       PROVE  TypeOK'
  <2>1. inbox' \in SUBSET (Message \X DeliveryStatus)
    BY <1>15 DEF TypeOK, ReportApplied
  <2>2. status' \in [Message -> Outcomes] /\ providerId' \in [Message -> Nat]
    <3>1. 0 \in Nat
      OBVIOUS
    <3> QED BY <1>0, <1>15, <3>1, StatusSet DEF ReportApplied, rowVars
  <2>3. requeued' \in [Message -> Nat]
    <3>1. /\ requeued \in [Message -> Nat]
          /\ requeued' = requeued \/ requeued' = [requeued EXCEPT ![m] = requeued[m] + 1]
      BY <1>15 DEF TypeOK, ReportApplied
    <3>2. requeued[m] + 1 \in Nat
      BY <3>1
    <3> QED BY <3>1, <3>2
  <2>4. faults' \in 0..MaxFaults
    BY <1>1, <1>15 DEF ReportApplied
  <2> QED BY <1>15, <2>1, <2>2, <2>3, <2>4 DEF TypeOK, ReportApplied, sendVars, Outcomes
<1>16. ASSUME UNCHANGED vars
       PROVE  TypeOK'
  BY <1>16 DEF TypeOK, vars, rowVars, sendVars, webhookVars, histVars
<1> QED BY <1>2, <1>3, <1>4, <1>5, <1>6, <1>7, <1>8, <1>9, <1>10, <1>11, <1>12, <1>13, <1>14,
           <1>15, <1>16 DEF Next, Dispatch

-----------------------------------------------------------------------------
(* The tokens of one message.                                              *)
LEMMA OnTheWayCounts ==
  ASSUME NEW m \in Message
  PROVE  /\ IsFiniteSet(OnTheWay(m)) /\ Cardinality(OnTheWay(m)) \in Nat
         /\ IsFiniteSet(OnTheWay(m)') /\ Cardinality(OnTheWay(m)') \in Nat
<1>1. OnTheWay(m) \subseteq Replica /\ OnTheWay(m)' \subseteq Replica
  BY DEF OnTheWay
<1>2. IsFiniteSet(OnTheWay(m)) /\ IsFiniteSet(OnTheWay(m)')
  BY <1>1, SetsAssumption, FS_Subset
<1> QED BY <1>2, FS_CardinalityType

Settled(m) == Owed(m) /\ Withdrawn(m)

(* Nobody sets out with the message and no report queues it.               *)
Calm(m) ==
  /\ OnTheWay(m)' \subseteq OnTheWay(m)
  /\ handed'[m] = handed[m] /\ requeued'[m] = requeued[m]
  /\ status[m] \notin {"none", "queued"} => status'[m] \notin {"none", "queued"}
  /\ m \in canceled' => m \in canceled

LEMMA OwedNoMore ==
  ASSUME TypeOK, NEW m \in Message, Owed(m), OnTheWay(m)' \subseteq OnTheWay(m),
         handed'[m] = handed[m], requeued'[m] = requeued[m],
         status[m] \notin {"none", "queued"} => status'[m] \notin {"none", "queued"}
  PROVE  Owed(m)'
<1>1. Cardinality(OnTheWay(m)') <= Cardinality(OnTheWay(m))
  BY OnTheWayCounts, FS_Subset
<1>2. Waiting(m)' <= Waiting(m) /\ Waiting(m)' \in Nat /\ Waiting(m) \in Nat
  BY DEF Waiting
<1>3. handed[m] \in Nat /\ requeued[m] \in Nat
  BY DEF TypeOK
<1> QED BY <1>1, <1>2, <1>3, OnTheWayCounts DEF Owed

LEMMA CalmSettles ==
  ASSUME TypeOK, NEW m \in Message, Settled(m), Calm(m)
  PROVE  Settled(m)'
<1>1. Owed(m)'
  BY OwedNoMore DEF Settled, Calm
<1>2. Withdrawn(m)'
  BY DEF Settled, Calm, Withdrawn
<1> QED BY <1>1, <1>2 DEF Settled

(* A message that is queued for the first time is out of every hand.       *)
LEMMA QueuedOnce ==
  ASSUME TypeOK, NEW m \in Message, Owed(m), status[m] = "queued", requeued[m] = 0
  PROVE  handed[m] = 0 /\ OnTheWay(m) = {}
<1>1. handed[m] \in Nat /\ Waiting(m) = 1
  BY DEF TypeOK, Waiting
<1>2. handed[m] + Cardinality(OnTheWay(m)) + 1 <= 1
  BY <1>1 DEF Owed
<1>3. handed[m] = 0 /\ Cardinality(OnTheWay(m)) = 0
  BY <1>1, <1>2, OnTheWayCounts
<1> QED BY <1>3, OnTheWayCounts, FS_EmptySet

(* A step of a replica with one message leaves all the others alone.       *)
LEMMA OthersUntouched ==
  ASSUME TypeOK, NEW w \in Replica, NEW n \in Message, Dispatch(w, n), NEW m \in Message, m # n
  PROVE  \A v \in Replica : step'[v, m] = step[v, m]
<1>1. ASSUME NEW s \in Steps, Goto(<<w, n>>, s)
      PROVE  \A v \in Replica : step'[v, m] = step[v, m]
  <2>1. Only(w, n, s)
    BY <1>1, StepGoes
  <2> QED BY <2>1 DEF Only
<1>2. CASE Claim(w, n) \/ Lookup(w, n) \/ RecordFailure(w, n) \/ Send(w, n)
  <2>1. \E s \in Steps : Goto(<<w, n>>, s)
    BY <1>2 DEF Claim, Lookup, RecordFailure, Send, Steps
  <2> QED BY <1>1, <2>1
<1>3. CASE RecordSent(w, n)
  <2>1. step' = step \/ \E s \in Steps : Goto(<<w, n>>, s)
    BY <1>3 DEF RecordSent, Steps
  <2> QED BY <1>1, <2>1
<1> QED BY <1>2, <1>3 DEF Dispatch

LEMMA OthersCalm ==
  ASSUME TypeOK, NEW w \in Replica, NEW n \in Message, Dispatch(w, n), NEW m \in Message, m # n
  PROVE  Calm(m)
<1>1. \A v \in Replica : step'[v, m] = step[v, m]
  BY OthersUntouched
<1>2. status'[m] = status[m]
  BY DEF Dispatch, Claim, Lookup, RecordFailure, Send, RecordSent, SetDelivery, rowVars, TypeOK
<1>3. handed'[m] = handed[m]
  BY DEF Dispatch, Claim, Lookup, RecordFailure, Send, RecordSent, histVars, TypeOK
<1>4. UNCHANGED <<requeued, canceled>>
  BY DEF Dispatch, Claim, Lookup, RecordFailure, Send, RecordSent, histVars
<1> QED BY <1>1, <1>2, <1>3, <1>4 DEF Calm, OnTheWay

LEMMA SettledKept ==
  ASSUME TypeOK, HandoffIsOwed, CanceledAreWithdrawn, [Next]_vars
  PROVE  HandoffIsOwed' /\ CanceledAreWithdrawn'
<1>0. step \in [Task -> Steps] /\ status \in [Message -> Outcomes]
  BY DEF TypeOK, Outcomes
<1> SUFFICES ASSUME NEW m \in Message PROVE Settled(m)'
  BY DEF HandoffIsOwed, CanceledAreWithdrawn, Settled
<1>1. Settled(m)
  BY DEF HandoffIsOwed, CanceledAreWithdrawn, Settled
<1>2. ASSUME Calm(m)
      PROVE  Settled(m)'
  BY <1>1, <1>2, CalmSettles
<1>3. ASSUME UNCHANGED <<step, handed, requeued, status, canceled>>
      PROVE  Settled(m)'
  BY <1>2, <1>3 DEF Calm, OnTheWay
<1>4. ASSUME NEW n \in Message, Compose(n)
      PROVE  Settled(m)'
  BY <1>0, <1>2, <1>4 DEF Calm, OnTheWay, Compose, sendVars, histVars
<1>5. ASSUME NEW n \in Message, Cancel(n)
      PROVE  Settled(m)'
  <2>1. UNCHANGED <<step, handed, requeued>>
    BY <1>5 DEF Cancel, sendVars
  <2>2. status[m] \notin {"none", "queued"} => status'[m] \notin {"none", "queued"}
    BY <1>0, <1>5 DEF Cancel
  <2>3. CASE m \in canceled' /\ m \notin canceled
    <3>1. status[m] = "queued" /\ status'[m] = "canceled"
      BY <1>0, <1>5, <2>3 DEF Cancel, Cancelable, Committed
    <3>2. OnTheWay(m)' = OnTheWay(m)
      BY <2>1 DEF OnTheWay
    <3>3. Owed(m)'
      BY <1>1, <2>1, <2>2, <3>2, OwedNoMore DEF Settled
    <3>4. Withdrawn(m)'
      BY <1>1, <2>1, <3>1, <3>2, QueuedOnce DEF Settled, Withdrawn
    <3> QED BY <3>3, <3>4 DEF Settled
  <2>4. CASE ~(m \in canceled' /\ m \notin canceled)
    BY <1>2, <2>1, <2>2, <2>4 DEF Calm, OnTheWay
  <2> QED BY <2>3, <2>4
<1>6. ASSUME NEW w \in Replica, ListDue(w)
      PROVE  Settled(m)'
  <2>1. PICK S \in Batches({n \in Message : Due(n)}) :
          step' = [t \in Task |-> IF t[1] = w /\ t[2] \in S THEN "listed" ELSE step[t]]
    BY <1>6 DEF ListDue
  <2>2. S \in SUBSET Message /\ "listed" \in Steps
    BY BatchesAreSubsets DEF Steps
  <2>3. OnlyIn(w, S, "listed")
    BY <1>0, <2>1, <2>2, StepListed
  <2>4. OnTheWay(m)' \subseteq OnTheWay(m)
    BY <2>3 DEF OnlyIn, OnTheWay
  <2> QED BY <1>2, <1>6, <2>4 DEF Calm, ListDue, rowVars, histVars
<1>7. ASSUME NEW w \in Replica, Crash(w)
      PROVE  Settled(m)'
  <2>1. OnlyIn(w, Message, "idle")
    BY <1>0, <1>7, StepForgotten DEF Crash
  <2>2. OnTheWay(m)' \subseteq OnTheWay(m)
    BY <2>1 DEF OnlyIn, OnTheWay
  <2> QED BY <1>2, <1>7, <2>2 DEF Calm, Crash, rowVars, histVars
<1>8. ASSUME NEW w \in Replica, NEW s \in Steps \ {"lookup", "send"}, Only(w, m, s),
             UNCHANGED <<handed, requeued, canceled>>,
             status'[m] = status[m] \/ status'[m] \in {"failed", "sent"}
      PROVE  Settled(m)'
  <2>1. OnTheWay(m)' \subseteq OnTheWay(m)
    BY <1>8 DEF Only, OnTheWay
  <2> QED BY <1>2, <1>8, <2>1 DEF Calm
<1>9. ASSUME NEW w \in Replica, Claim(w, m)
      PROVE  Settled(m)'
  <2>1. PICK s \in {"fail", "lookup", "idle"} :
          Goto(<<w, m>>, s) /\ (s = "lookup" => Claimable(m) /\ status' = [status EXCEPT ![m] = "sending"])
    BY <1>9 DEF Claim, Committed
  <2>2. s \in Steps
    BY DEF Steps
  <2>3. Only(w, m, s)
    BY <2>1, <2>2, StepGoes
  <2>4. UNCHANGED <<handed, requeued, canceled>>
    BY <1>9 DEF Claim, histVars
  <2>5. CASE s # "lookup"
    <3>1. OnTheWay(m)' \subseteq OnTheWay(m)
      BY <2>1, <2>3, <2>5 DEF Only, OnTheWay
    <3>2. status[m] \notin {"none", "queued"} => status'[m] \notin {"none", "queued"}
      BY <1>0, <1>9 DEF Claim
    <3> QED BY <1>2, <2>4, <3>1, <3>2 DEF Calm
  <2>6. CASE s = "lookup"
    <3>1. status[m] = "queued" /\ status'[m] = "sending"
      BY <1>0, <2>1, <2>6 DEF Claimable
    <3>2. Waiting(m) = 1 /\ Waiting(m)' = 0
      BY <3>1 DEF Waiting
    <3>3. OnTheWay(m)' \subseteq OnTheWay(m) \cup {w}
      BY <2>3 DEF Only, OnTheWay
    <3>4. /\ IsFiniteSet(OnTheWay(m) \cup {w})
          /\ Cardinality(OnTheWay(m) \cup {w}) = IF w \in OnTheWay(m) THEN Cardinality(OnTheWay(m)) ELSE Cardinality(OnTheWay(m)) + 1
      BY OnTheWayCounts, FS_AddElement
    <3>5. Cardinality(OnTheWay(m)') <= Cardinality(OnTheWay(m)) + 1
      BY <3>3, <3>4, OnTheWayCounts, FS_Subset
    <3>6. handed[m] \in Nat /\ requeued[m] \in Nat
      BY DEF TypeOK
    <3>7. Owed(m)'
      BY <1>1, <2>4, <3>2, <3>5, <3>6, OnTheWayCounts DEF Settled, Owed
    <3>8. Withdrawn(m)'
      BY <1>1, <2>4, <3>1 DEF Settled, Withdrawn
    <3> QED BY <3>7, <3>8 DEF Settled
  <2> QED BY <2>5, <2>6
<1>10. ASSUME NEW w \in Replica, Lookup(w, m)
       PROVE  Settled(m)'
  <2>1. PICK s \in Steps : Goto(<<w, m>>, s)
    BY <1>10 DEF Lookup, Steps
  <2>2. Only(w, m, s)
    BY <2>1, StepGoes
  <2>3. OnTheWay(m)' \subseteq OnTheWay(m)
    BY <1>10, <2>2 DEF Only, OnTheWay, Lookup
  <2> QED BY <1>2, <1>10, <2>3 DEF Calm, Lookup, rowVars, histVars
<1>11. ASSUME NEW w \in Replica, RecordFailure(w, m)
       PROVE  Settled(m)'
  <2>1. PICK s \in {"fail", "idle"} : Goto(<<w, m>>, s)
    BY <1>11 DEF RecordFailure
  <2>2. s \in Steps /\ s \in Steps \ {"lookup", "send"}
    BY DEF Steps
  <2>3. Only(w, m, s)
    BY <2>1, <2>2, StepGoes
  <2>4. status'[m] = status[m] \/ status'[m] = "failed"
    BY <1>0, <1>11 DEF RecordFailure, SetDelivery, rowVars
  <2> QED BY <1>8, <1>11, <2>2, <2>3, <2>4 DEF RecordFailure, histVars
<1>12. ASSUME NEW w \in Replica, Send(w, m)
       PROVE  Settled(m)'
  <2>1. PICK s \in {"recordSent", "recordRefused"} : Goto(<<w, m>>, s)
    BY <1>12 DEF Send
  <2>2. s \in Steps
    BY DEF Steps
  <2>3. Only(w, m, s)
    BY <2>1, <2>2, StepGoes
  <2>4. w \in OnTheWay(m)
    BY <1>12 DEF Send, OnTheWay
  <2>5. OnTheWay(m)' = OnTheWay(m) \ {w}
    BY <2>1, <2>3 DEF Only, OnTheWay
  <2>6. Cardinality(OnTheWay(m)') = Cardinality(OnTheWay(m)) - 1
    BY <2>4, <2>5, OnTheWayCounts, FS_RemoveElement
  <2>7. UNCHANGED <<requeued, status, canceled>>
    BY <1>12 DEF Send, rowVars
  <2>8. /\ handed[m] \in Nat /\ requeued[m] \in Nat /\ handed'[m] = handed[m] + 1
    BY <1>12 DEF TypeOK, Send
  <2>9. Waiting(m)' = Waiting(m) /\ Waiting(m) \in Nat
    BY <2>7 DEF Waiting
  <2>10. Owed(m)'
    BY <1>1, <2>6, <2>7, <2>8, <2>9, OnTheWayCounts DEF Settled, Owed
  <2>11. Withdrawn(m)'
    BY <1>1, <2>4, <2>7 DEF Settled, Withdrawn
  <2> QED BY <2>10, <2>11 DEF Settled
<1>13. ASSUME NEW w \in Replica, RecordSent(w, m)
       PROVE  Settled(m)'
  <2>1. OnTheWay(m)' \subseteq OnTheWay(m)
    <3>1. CASE step' = step
      BY <3>1 DEF OnTheWay
    <3>2. CASE Goto(<<w, m>>, "idle")
      <4>1. "idle" \in Steps
        BY DEF Steps
      <4>2. Only(w, m, "idle")
        BY <3>2, <4>1, StepGoes
      <4> QED BY <4>2 DEF Only, OnTheWay
    <3> QED BY <1>13, <3>1, <3>2 DEF RecordSent
  <2>2. status'[m] = status[m] \/ status'[m] = "sent"
    BY <1>0, <1>13 DEF RecordSent, SetDelivery, rowVars
  <2> QED BY <1>2, <1>13, <2>1, <2>2 DEF Calm, RecordSent, histVars
<1>14. ASSUME NEW w \in Replica, NEW n \in Message, Dispatch(w, n)
       PROVE  Settled(m)'
  BY <1>2, <1>9, <1>10, <1>11, <1>12, <1>13, <1>14, OthersCalm DEF Dispatch
<1>15. ASSUME NEW n \in Message, NEW s \in DeliveryStatus, ReportApplied(n, s)
       PROVE  Settled(m)'
  <2>1. UNCHANGED <<step, handed, canceled>>
    BY <1>15 DEF ReportApplied, sendVars
  <2>2. OnTheWay(m)' = OnTheWay(m)
    BY <2>1 DEF OnTheWay
  <2>3. CASE requeued'[m] = requeued[m]
    <3>1. status[m] \notin {"none", "queued"} => status'[m] \notin {"none", "queued"}
      <4>1. CASE status'[m] = status[m]
        BY <4>1
      <4>2. CASE status'[m] # status[m]
        <5>1. n = m /\ status'[m] = s
          BY <1>0, <1>15, <4>2 DEF ReportApplied, SetDelivery, rowVars
        <5>2. s # "queued"
          <6>1. SUFFICES ASSUME s = "queued" PROVE FALSE
            OBVIOUS
          <6>2. requeued' = [requeued EXCEPT ![m] = requeued[m] + 1]
            BY <1>15, <4>2, <5>1, <6>1 DEF ReportApplied, rowVars
          <6>3. requeued \in [Message -> Nat]
            BY DEF TypeOK
          <6>4. requeued'[m] = requeued[m] + 1 /\ requeued[m] \in Nat
            BY <6>2, <6>3
          <6> QED BY <2>3, <6>4
        <5> QED BY <5>1, <5>2 DEF DeliveryStatus
      <4> QED BY <4>1, <4>2
    <3> QED BY <1>2, <2>1, <2>2, <2>3, <3>1 DEF Calm
  <2>4. CASE requeued'[m] # requeued[m]
    <3>1. requeued \in [Message -> Nat] /\ handed[m] \in Nat
      BY DEF TypeOK
    <3>2. requeued' = [requeued EXCEPT ![n] = requeued[n] + 1]
      BY <1>15, <2>4 DEF ReportApplied
    <3>3. requeued'[m] = requeued[m] + 1 /\ requeued[m] \in Nat
      BY <2>4, <3>1, <3>2
    <3>4. Waiting(m) \in Nat /\ Waiting(m)' \in {0, 1}
      BY DEF Waiting
    <3>5. Owed(m)'
      BY <1>1, <2>1, <2>2, <3>1, <3>3, <3>4, OnTheWayCounts DEF Settled, Owed
    <3>6. Withdrawn(m)'
      BY <3>3 DEF Withdrawn
    <3> QED BY <3>5, <3>6 DEF Settled
  <2> QED BY <2>3, <2>4
<1>16. ASSUME NEW n \in Message, ComesDue(n) \/ Approve(n)
       PROVE  Settled(m)'
  BY <1>3, <1>16 DEF ComesDue, Approve, rowVars, sendVars, histVars
<1>17. ASSUME NEW w \in Replica, NEW n \in Message, Review(w, n) \/ FlagAfterThrow(w, n)
       PROVE  Settled(m)'
  BY <1>3, <1>17 DEF Review, FlagAfterThrow, Verdict, rowVars, sendVars, histVars
<1>18. ASSUME NEW w \in Replica, ListReviews(w)
       PROVE  Settled(m)'
  BY <1>3, <1>18 DEF ListReviews, rowVars, sendVars, histVars
<1>19. ASSUME NEW n \in Message, NEW s \in DeliveryStatus, ReportFound(n, s)
       PROVE  Settled(m)'
  BY <1>3, <1>19 DEF ReportFound, rowVars, sendVars, histVars
<1>20. ASSUME UNCHANGED vars
       PROVE  Settled(m)'
  BY <1>3, <1>20 DEF vars, rowVars, sendVars, histVars
<1> QED BY <1>4, <1>5, <1>6, <1>7, <1>14, <1>15, <1>16, <1>17, <1>18, <1>19, <1>20 DEF Next
-----------------------------------------------------------------------------
(* What the rows record.                                                   *)
Remembers(m) ==
  /\ status'[m] = status[m] \/ status'[m] # "none"
  /\ review'[m] = review[m] \/ status'[m] # "none"
  /\ \A w \in Replica : step'[w, m] = "recordSent" => step[w, m] = "recordSent" \/ handed'[m] # 0
  /\ handed[m] # 0 => handed'[m] # 0
  /\ providerId'[m] = providerId[m] \/ (providerId'[m] # 0 /\ handed'[m] # 0)
  /\ \A s \in DeliveryStatus : <<m, s>> \in inbox' => <<m, s>> \in inbox \/ providerId'[m] # 0

LEMMA RecordedKept ==
  ASSUME TypeOK, AllRecorded, [Next]_vars
  PROVE  AllRecorded'
<1>0. /\ status \in [Message -> Outcomes] /\ handed \in [Message -> Nat]
      /\ review \in [Message -> {"none", "pending", "approved", "flagged"}]
      /\ step \in [Task -> Steps] /\ providerId \in [Message -> Nat]
  BY DEF TypeOK, Outcomes
<1> SUFFICES ASSUME NEW m \in Message PROVE Recorded(m)'
  BY DEF AllRecorded
<1>1. Recorded(m)
  BY DEF AllRecorded
<1>2. ASSUME Remembers(m)
      PROVE  Recorded(m)'
  BY <1>1, <1>2 DEF Recorded, Remembers
<1>3. ASSUME NEW n \in Message, Compose(n) \/ ComesDue(n) \/ Cancel(n) \/ Approve(n)
      PROVE  Recorded(m)'
  <2>1. UNCHANGED <<step, handed, providerId, inbox>>
    BY <1>3 DEF Compose, ComesDue, Cancel, Approve, rowVars, sendVars, webhookVars, histVars
  <2>2. status'[m] = status[m] \/ status'[m] # "none"
    BY <1>0, <1>3 DEF Compose, ComesDue, Cancel, Approve, rowVars
  <2>3. review'[m] = review[m] \/ status'[m] # "none"
    BY <1>0, <1>1, <1>3 DEF Compose, ComesDue, Cancel, Approve, rowVars, Recorded
  <2> QED BY <1>2, <2>1, <2>2, <2>3 DEF Remembers
<1>4. ASSUME NEW w \in Replica, ListDue(w)
      PROVE  Recorded(m)'
  <2>1. PICK S \in Batches({n \in Message : Due(n)}) :
          step' = [t \in Task |-> IF t[1] = w /\ t[2] \in S THEN "listed" ELSE step[t]]
    BY <1>4 DEF ListDue
  <2>2. S \in SUBSET Message /\ "listed" \in Steps
    BY BatchesAreSubsets DEF Steps
  <2>3. OnlyIn(w, S, "listed")
    BY <1>0, <2>1, <2>2, StepListed
  <2> QED BY <1>2, <1>4, <2>3 DEF Remembers, OnlyIn, ListDue, rowVars, webhookVars, histVars
<1>5. ASSUME NEW w \in Replica, Crash(w)
      PROVE  Recorded(m)'
  <2>1. OnlyIn(w, Message, "idle")
    BY <1>0, <1>5, StepForgotten DEF Crash
  <2>2. \A v \in Replica : step'[v, m] = "recordSent" => step[v, m] = "recordSent"
    BY <2>1 DEF OnlyIn
  <2> QED BY <1>2, <1>5, <2>2 DEF Remembers, Crash, rowVars, webhookVars, histVars
<1>6. ASSUME NEW w \in Replica, ListReviews(w)
      PROVE  Recorded(m)'
  BY <1>2, <1>6 DEF Remembers, ListReviews, rowVars, sendVars, webhookVars, histVars
<1>7. ASSUME NEW w \in Replica, NEW n \in Message, Review(w, n) \/ FlagAfterThrow(w, n)
      PROVE  Recorded(m)'
  <2>1. PICK v \in {"approved", "flagged"}, o \in Replies : Verdict(w, n, v, o)
    BY <1>7 DEF Review, FlagAfterThrow
  <2>2. review'[m] = review[m] \/ status'[m] # "none"
    BY <1>0, <1>1, <2>1 DEF Verdict, VerdictWanted, rowVars, Recorded
  <2> QED BY <1>2, <2>1, <2>2 DEF Remembers, Verdict, rowVars, sendVars, webhookVars, histVars
<1>8. ASSUME NEW w \in Replica, NEW n \in Message, Dispatch(w, n)
      PROVE  Recorded(m)'
  <2>1. UNCHANGED <<review, inbox>>
    BY <1>8 DEF Dispatch, Claim, Lookup, RecordFailure, Send, RecordSent, webhookVars
  <2>2. status'[m] = status[m] \/ status'[m] # "none"
    BY <1>0, <1>8 DEF Dispatch, Claim, Lookup, RecordFailure, Send, RecordSent, SetDelivery, rowVars
  <2>3. CASE Send(w, n)
    <3>1. PICK s \in Steps : Goto(<<w, n>>, s)
      BY <2>3 DEF Send, Steps
    <3>2. Only(w, n, s)
      BY <3>1, StepGoes
    <3>3. handed' = [handed EXCEPT ![n] = handed[n] + 1] /\ handed[n] \in Nat
      BY <1>0, <2>3 DEF Send
    <3>4. handed'[n] # 0 /\ (m # n => handed'[m] = handed[m])
      BY <1>0, <3>3
    <3>5. m = n => handed'[m] # 0
      BY <3>4
    <3>6. UNCHANGED providerId
      BY <2>3 DEF Send, rowVars
    <3> QED BY <1>2, <2>1, <2>2, <3>2, <3>4, <3>5, <3>6 DEF Remembers, Only
  <2>4. CASE Claim(w, n) \/ Lookup(w, n) \/ RecordFailure(w, n)
    <3>1. PICK s \in Steps \ {"recordSent"} : Goto(<<w, n>>, s)
      BY <2>4 DEF Claim, Lookup, RecordFailure, Steps
    <3>2. s \in Steps
      OBVIOUS
    <3>3. Only(w, n, s)
      BY <3>1, <3>2, StepGoes
    <3>4. \A v \in Replica : step'[v, m] = "recordSent" => step[v, m] = "recordSent"
      BY <3>1, <3>3 DEF Only
    <3>5. UNCHANGED <<handed, providerId>>
      BY <2>4 DEF Claim, Lookup, RecordFailure, SetDelivery, rowVars, histVars
    <3> QED BY <1>2, <2>1, <2>2, <3>4, <3>5 DEF Remembers
  <2>5. CASE RecordSent(w, n)
    <3>1. \A v \in Replica : step'[v, m] = "recordSent" => step[v, m] = "recordSent"
      <4>1. CASE step' = step
        BY <4>1
      <4>2. CASE Goto(<<w, n>>, "idle")
        <5>1. "idle" \in Steps
          BY DEF Steps
        <5>2. Only(w, n, "idle")
          BY <4>2, <5>1, StepGoes
        <5> QED BY <5>2 DEF Only
      <4> QED BY <2>5, <4>1, <4>2 DEF RecordSent
    <3>2. UNCHANGED handed
      BY <2>5 DEF RecordSent, histVars
    <3>3. handed[n] # 0
      BY <2>5 DEF RecordSent, AllRecorded, Recorded
    <3>4. providerId' = providerId \/ providerId' = [providerId EXCEPT ![n] = handed[n]]
      BY <2>5 DEF RecordSent, SetDelivery, rowVars
    <3>5. providerId'[m] = providerId[m] \/ (providerId'[m] # 0 /\ handed'[m] # 0)
      BY <1>0, <3>2, <3>3, <3>4
    <3> QED BY <1>2, <2>1, <2>2, <3>1, <3>2, <3>5 DEF Remembers
  <2> QED BY <1>8, <2>3, <2>4, <2>5 DEF Dispatch
<1>9. ASSUME NEW n \in Message, NEW s \in DeliveryStatus, ReportFound(n, s)
      PROVE  Recorded(m)'
  BY <1>2, <1>9 DEF Remembers, ReportFound, rowVars, sendVars, histVars
<1>10. ASSUME NEW n \in Message, NEW s \in DeliveryStatus, ReportApplied(n, s)
       PROVE  Recorded(m)'
  <2>1. UNCHANGED <<review, step, handed, providerId>> /\ inbox' \subseteq inbox
    BY <1>10 DEF ReportApplied, SetDelivery, rowVars, sendVars
  <2>2. status'[m] = status[m] \/ status'[m] # "none"
    BY <1>0, <1>10 DEF ReportApplied, SetDelivery, rowVars, DeliveryStatus
  <2> QED BY <1>2, <2>1, <2>2 DEF Remembers
<1>11. ASSUME UNCHANGED vars
       PROVE  Recorded(m)'
  BY <1>2, <1>11 DEF Remembers, vars, rowVars, sendVars, webhookVars, histVars
<1> QED BY <1>3, <1>4, <1>5, <1>6, <1>7, <1>8, <1>9, <1>10, <1>11 DEF Next
-----------------------------------------------------------------------------
(* Who has a message while nothing throws.                                 *)
LEMMA BudgetsGrow ==
  ASSUME TypeOK, [Next]_vars
  PROVE  /\ faults' = 0 => faults = 0
         /\ \A m \in Message : requeued'[m] = 0 => requeued[m] = 0
<1>1. ASSUME NEW o, Answered(o)
      PROVE  faults' = 0 => faults = 0
  BY <1>1 DEF Answered, TypeOK
<1>2. ASSUME NEW n \in Message, NEW s \in DeliveryStatus, ReportApplied(n, s), NEW m \in Message
      PROVE  requeued'[m] = 0 => requeued[m] = 0
  <2>1. requeued \in [Message -> Nat]
    BY DEF TypeOK
  <2>2. requeued' = requeued \/ requeued' = [requeued EXCEPT ![n] = requeued[n] + 1]
    BY <1>2 DEF ReportApplied
  <2>3. requeued[n] \in Nat /\ requeued[n] + 1 # 0
    BY <2>1
  <2> QED BY <2>1, <2>2, <2>3
<1>3. ASSUME NEW n \in Message, Compose(n) \/ ComesDue(n) \/ Cancel(n) \/ Approve(n)
      PROVE  UNCHANGED requeued /\ (UNCHANGED faults \/ \E o \in Replies : Answered(o))
  BY <1>3 DEF Compose, ComesDue, Cancel, Approve, histVars
<1>4. ASSUME NEW w \in Replica, ListDue(w) \/ ListReviews(w) \/ Crash(w)
      PROVE  UNCHANGED <<requeued, faults>>
  BY <1>4 DEF ListDue, ListReviews, Crash, histVars
<1>5. ASSUME NEW w \in Replica, NEW n \in Message, Dispatch(w, n)
      PROVE  UNCHANGED requeued /\ (UNCHANGED faults \/ \E o : Answered(o))
  BY <1>5 DEF Dispatch, Claim, Lookup, RecordFailure, Send, RecordSent, histVars
<1>6. ASSUME NEW w \in Replica, NEW n \in Message, Review(w, n) \/ FlagAfterThrow(w, n)
      PROVE  UNCHANGED requeued /\ \E o : Answered(o)
  BY <1>6 DEF Review, FlagAfterThrow, Verdict, histVars
<1>7. ASSUME NEW n \in Message, NEW s \in DeliveryStatus, ReportFound(n, s)
      PROVE  UNCHANGED <<requeued, faults>>
  BY <1>7 DEF ReportFound, histVars
<1>8. ASSUME NEW n \in Message, NEW s \in DeliveryStatus, ReportApplied(n, s)
      PROVE  \E o : Answered(o)
  BY <1>8 DEF ReportApplied
<1>9. ASSUME UNCHANGED vars
      PROVE  UNCHANGED <<requeued, faults>>
  BY <1>9 DEF vars, histVars
<1>10. faults' = 0 => faults = 0
  <2>1. UNCHANGED faults \/ \E o : Answered(o)
    BY <1>3, <1>4, <1>5, <1>6, <1>7, <1>8, <1>9 DEF Next
  <2> QED BY <1>1, <2>1
<1>11. \A m \in Message : requeued'[m] = 0 => requeued[m] = 0
  <2>1. UNCHANGED requeued \/ \E n \in Message, s \in DeliveryStatus : ReportApplied(n, s)
    BY <1>3, <1>4, <1>5, <1>6, <1>7, <1>9 DEF Next
  <2> QED BY <1>2, <2>1
<1> QED BY <1>10, <1>11

LEMMA NothingThrew ==
  ASSUME TypeOK, NEW o \in Replies, Answered(o), faults' = 0
  PROVE  o = "ok"
BY DEF Answered, TypeOK

(* A step that gives the message to nobody: whoever had it keeps it or     *)
(* puts it away, and its row changes only when nobody is about to send it. *)
Steady(m) ==
  /\ \A w \in Replica : step'[w, m] = step[w, m] \/ step'[w, m] \in {"idle", "listed"}
  /\ review[m] = "approved" => review'[m] = "approved"
  /\ handed'[m] = handed[m]
  /\ \/ status'[m] = status[m]
     \/ status[m] \in {"none", "queued"}
     \/ /\ status'[m] \notin {"none", "queued"}
        /\ \A w \in Replica : step'[w, m] \notin Bound

LEMMA SteadyKeeps ==
  ASSUME NEW m \in Message, Undisturbed(m), Steady(m)
  PROVE  Undisturbed(m)'
<1>1. \A w \in Replica : w \in Carriers(m)' => w \in Carriers(m) /\ step'[w, m] = step[w, m]
  BY DEF Carriers, Steady, Bound, Gone
<1>2. \A w \in Replica : step'[w, m] # "fail"
  BY DEF Undisturbed, Steady
<1>3. /\ \A v, w \in Carriers(m)' : v = w
      /\ handed'[m] \in {0, 1}
      /\ \A w \in Carriers(m)' : w \in Replica
  BY <1>1 DEF Undisturbed, Carriers, Steady
<1>4. ASSUME NEW w \in Carriers(m)'
      PROVE  /\ review'[m] = "approved"
             /\ step'[w, m] \in Bound => status'[m] = "sending" /\ handed'[m] = 0
             /\ step'[w, m] \in Gone => handed'[m] = 1
  <2>1. w \in Replica /\ w \in Carriers(m) /\ step'[w, m] = step[w, m]
    BY <1>1, <1>3, <1>4
  <2>2. status[m] \notin {"none", "queued"}
    BY <2>1 DEF Undisturbed
  <2> QED BY <2>1, <2>2 DEF Undisturbed, Steady
<1>5. status'[m] \in {"none", "queued"} => Carriers(m)' = {} /\ handed'[m] = 0
  <2>1. ASSUME status'[m] \in {"none", "queued"}
        PROVE  Carriers(m) = {} /\ handed[m] = 0
    BY <2>1 DEF Undisturbed, Steady
  <2>2. \A w \in Carriers(m)' : w \in Carriers(m)
    BY <1>1, <1>3
  <2> QED BY <2>1, <2>2 DEF Steady
<1> QED BY <1>2, <1>3, <1>4, <1>5 DEF Undisturbed

(* The replica that has it moves on, or claims it when nobody has it.      *)
LEMMA HandKept ==
  ASSUME NEW m \in Message, NEW w \in Replica, NEW s \in Bound \cup Gone, Only(w, m, s),
         Undisturbed(m), Carriers(m) \subseteq {w}, review'[m] = "approved",
         s \in Bound => status'[m] = "sending" /\ handed'[m] = 0,
         s \in Gone => status'[m] = "sending" /\ handed'[m] = 1
  PROVE  Undisturbed(m)'
<1>1. \A v \in Replica : step'[v, m] = IF v = w THEN s ELSE step[v, m]
  BY DEF Only
<1>2. Carriers(m)' = {w}
  BY <1>1 DEF Carriers
<1>3. \A v \in Replica : step'[v, m] # "fail"
  BY <1>1 DEF Undisturbed, Bound, Gone
<1>4. step'[w, m] = s
  BY <1>1
<1>5. s \in Bound \/ s \in Gone
  OBVIOUS
<1> QED BY <1>2, <1>3, <1>4, <1>5 DEF Undisturbed

LEMMA OthersSteady ==
  ASSUME TypeOK, NEW w \in Replica, NEW n \in Message, Dispatch(w, n), NEW m \in Message, m # n
  PROVE  Steady(m) /\ status'[m] = status[m] /\ UNCHANGED <<review, due>>
<1>1. Calm(m)
  BY OthersCalm
<1>2. \A v \in Replica : step'[v, m] = step[v, m]
  BY OthersUntouched
<1>3. status'[m] = status[m]
  BY DEF Dispatch, Claim, Lookup, RecordFailure, Send, RecordSent, SetDelivery, rowVars, TypeOK
<1>4. UNCHANGED <<review, due>>
  BY DEF Dispatch, Claim, Lookup, RecordFailure, Send, RecordSent
<1> QED BY <1>1, <1>2, <1>3, <1>4 DEF Steady, Calm

(* No report reaches a message that was never recorded as handed over, and *)
(* an applied one says queued only if it requeues.                         *)
LEMMA ReportsComeLate ==
  ASSUME TypeOK, NEW m \in Message, Recorded(m), NEW s \in DeliveryStatus, ReportApplied(m, s),
         faults' = 0, requeued'[m] = 0
  PROVE  handed[m] # 0 /\ s # "queued" /\ status'[m] = s
<1>1. PICK o \in Replies : /\ Answered(o) /\ <<m, s>> \in inbox
                           /\ Committed(o) => SetDelivery(m, s, 0)
                           /\ Committed(o) /\ s = "queued" => requeued' = [requeued EXCEPT ![m] = requeued[m] + 1]
  BY DEF ReportApplied
<1>2. o = "ok" /\ Committed(o)
  BY <1>1, NothingThrew DEF Committed
<1>3. handed[m] # 0
  BY <1>1 DEF Recorded
<1>4. status'[m] = s
  BY <1>1, <1>2 DEF SetDelivery, TypeOK
<1>5. s # "queued"
  <2>1. SUFFICES ASSUME s = "queued" PROVE FALSE
    OBVIOUS
  <2>2. requeued \in [Message -> Nat]
    BY DEF TypeOK
  <2>3. requeued' = [requeued EXCEPT ![m] = requeued[m] + 1]
    BY <1>1, <1>2, <2>1
  <2>4. requeued'[m] = requeued[m] + 1 /\ requeued[m] \in Nat
    BY <2>2, <2>3
  <2> QED BY <2>4
<1> QED BY <1>3, <1>4, <1>5

LEMMA UndisturbedKept ==
  ASSUME TypeOK, NEW m \in Message, Recorded(m), Undisturbed(m), faults' = 0, requeued'[m] = 0, [Next]_vars
  PROVE  Undisturbed(m)'
<1>0. /\ step \in [Task -> Steps] /\ status \in [Message -> Outcomes] /\ handed \in [Message -> Nat]
      /\ review \in [Message -> {"none", "pending", "approved", "flagged"}]
  BY DEF TypeOK, Outcomes
<1>1. ASSUME Steady(m)
      PROVE  Undisturbed(m)'
  BY <1>1, SteadyKeeps
<1>2. ASSUME NEW n \in Message, Compose(n) \/ ComesDue(n) \/ Cancel(n) \/ Approve(n)
      PROVE  Undisturbed(m)'
  <2>1. UNCHANGED <<step, handed>>
    BY <1>2 DEF Compose, ComesDue, Cancel, Approve, sendVars, histVars
  <2>2. review[m] = "approved" => review'[m] = "approved"
    <3>1. CASE Compose(n)
      <4>1. status[m] = "none" => review[m] = "none"
        BY DEF Recorded
      <4>2. status[n] = "none"
        BY <3>1 DEF Compose
      <4> QED BY <1>0, <3>1, <4>1, <4>2 DEF Compose
    <3>2. CASE ComesDue(n) \/ Cancel(n) \/ Approve(n)
      BY <1>0, <3>2 DEF ComesDue, Cancel, Approve
    <3> QED BY <1>2, <3>1, <3>2
  <2>3. status'[m] = status[m] \/ status[m] \in {"none", "queued"}
    BY <1>0, <1>2 DEF Compose, ComesDue, Cancel, Cancelable, Approve, rowVars
  <2> QED BY <1>1, <2>1, <2>2, <2>3 DEF Steady
<1>3. ASSUME NEW w \in Replica, ListDue(w)
      PROVE  Undisturbed(m)'
  <2>1. PICK S \in Batches({n \in Message : Due(n)}) :
          step' = [t \in Task |-> IF t[1] = w /\ t[2] \in S THEN "listed" ELSE step[t]]
    BY <1>3 DEF ListDue
  <2>2. S \in SUBSET Message /\ "listed" \in Steps
    BY BatchesAreSubsets DEF Steps
  <2>3. OnlyIn(w, S, "listed")
    BY <1>0, <2>1, <2>2, StepListed
  <2>4. \A v \in Replica : step'[v, m] = step[v, m] \/ step'[v, m] \in {"idle", "listed"}
    BY <2>3 DEF OnlyIn
  <2> QED BY <1>1, <1>3, <2>4 DEF Steady, ListDue, rowVars, histVars
<1>4. ASSUME NEW w \in Replica, Crash(w)
      PROVE  Undisturbed(m)'
  <2>1. OnlyIn(w, Message, "idle")
    BY <1>0, <1>4, StepForgotten DEF Crash
  <2>2. \A v \in Replica : step'[v, m] = step[v, m] \/ step'[v, m] \in {"idle", "listed"}
    BY <2>1 DEF OnlyIn
  <2> QED BY <1>1, <1>4, <2>2 DEF Steady, Crash, rowVars, histVars
<1>5. ASSUME NEW w \in Replica, ListReviews(w)
      PROVE  Undisturbed(m)'
  BY <1>1, <1>5 DEF Steady, ListReviews, rowVars, sendVars, histVars
<1>6. ASSUME NEW w \in Replica, NEW n \in Message, Review(w, n) \/ FlagAfterThrow(w, n)
      PROVE  Undisturbed(m)'
  <2>1. PICK v \in {"approved", "flagged"}, o \in Replies : Verdict(w, n, v, o)
    BY <1>6 DEF Review, FlagAfterThrow
  <2>2. review[m] = "approved" => review'[m] = "approved"
    BY <1>0, <2>1 DEF Verdict, VerdictWanted
  <2> QED BY <1>1, <2>1, <2>2 DEF Steady, Verdict, rowVars, sendVars, histVars
<1>7. ASSUME NEW w \in Replica, Claim(w, m)
      PROVE  Undisturbed(m)'
  <2>1. PICK o \in Replies : /\ Answered(o)
                             /\ IF Committed(o) /\ Claimable(m)
                                THEN status' = [status EXCEPT ![m] = "sending"]
                                ELSE UNCHANGED status
                             /\ Goto(<<w, m>>, IF o # "ok" THEN "fail" ELSE IF Claimable(m) THEN "lookup" ELSE "idle")
    BY <1>7 DEF Claim
  <2>2. o = "ok" /\ Committed(o)
    BY <2>1, NothingThrew DEF Committed
  <2>3. UNCHANGED <<review, handed>>
    BY <1>7 DEF Claim, histVars
  <2>4. CASE Claimable(m)
    <3>1. Goto(<<w, m>>, "lookup") /\ "lookup" \in Steps
      BY <2>1, <2>2, <2>4 DEF Steps
    <3>2. Only(w, m, "lookup")
      BY <3>1, StepGoes
    <3>3. status'[m] = "sending" /\ status[m] = "queued" /\ review[m] = "approved"
      BY <1>0, <2>1, <2>2, <2>4 DEF Claimable
    <3>4. Carriers(m) = {} /\ handed[m] = 0
      BY <3>3 DEF Undisturbed
    <3>5. "lookup" \in Bound \cup Gone /\ "lookup" \notin Gone
      BY DEF Bound, Gone
    <3> QED BY <2>3, <3>2, <3>3, <3>4, <3>5, HandKept
  <2>5. CASE ~Claimable(m)
    <3>1. Goto(<<w, m>>, "idle") /\ "idle" \in Steps
      BY <2>1, <2>2, <2>5 DEF Steps
    <3>2. Only(w, m, "idle")
      BY <3>1, StepGoes
    <3>3. \A v \in Replica : step'[v, m] = step[v, m] \/ step'[v, m] \in {"idle", "listed"}
      BY <3>2 DEF Only
    <3> QED BY <1>1, <2>1, <2>3, <2>5, <3>3 DEF Steady
  <2> QED BY <2>4, <2>5
<1>8. ASSUME NEW w \in Replica, w \in Carriers(m)
      PROVE  /\ Carriers(m) \subseteq {w} /\ review[m] = "approved"
             /\ step[w, m] \in Bound => status[m] = "sending" /\ handed[m] = 0
  BY <1>8 DEF Undisturbed
<1>9. ASSUME NEW w \in Replica, Lookup(w, m)
      PROVE  Undisturbed(m)'
  <2>1. PICK o \in {"ok", "error"}, found \in BOOLEAN :
          Answered(o) /\ Goto(<<w, m>>, IF o # "ok" THEN "fail" ELSE IF found THEN "send" ELSE "reject")
    BY <1>9 DEF Lookup
  <2>2. o = "ok"
    BY <2>1, NothingThrew DEF Replies
  <2>3. PICK s \in {"send", "reject"} : Goto(<<w, m>>, s)
    BY <2>1, <2>2
  <2>4. s \in Steps /\ s \in Bound \cup Gone /\ s \notin Gone
    BY DEF Steps, Bound, Gone
  <2>5. Only(w, m, s)
    BY <2>3, <2>4, StepGoes
  <2>6. w \in Carriers(m) /\ step[w, m] \in Bound
    BY <1>9 DEF Lookup, Carriers, Bound
  <2>7. Carriers(m) \subseteq {w} /\ review[m] = "approved" /\ status[m] = "sending" /\ handed[m] = 0
    BY <1>8, <2>6
  <2>8. UNCHANGED <<review, status, handed>>
    BY <1>9 DEF Lookup, rowVars, histVars
  <2> QED BY <2>4, <2>5, <2>7, <2>8, HandKept
<1>10. ASSUME NEW w \in Replica, RecordFailure(w, m)
       PROVE  Undisturbed(m)'
  <2>1. step[w, m] \in {"reject", "recordRefused"}
    BY <1>10 DEF RecordFailure, Undisturbed
  <2>2. PICK o \in Replies : /\ Answered(o)
                             /\ IF Committed(o) THEN SetDelivery(m, "failed", 0) ELSE UNCHANGED rowVars
                             /\ Goto(<<w, m>>, IF o # "ok" /\ step[w, m] # "fail" THEN "fail" ELSE "idle")
    BY <1>10 DEF RecordFailure
  <2>3. o = "ok" /\ Committed(o)
    BY <2>2, NothingThrew DEF Committed
  <2>4. Goto(<<w, m>>, "idle") /\ "idle" \in Steps
    BY <2>2, <2>3 DEF Steps
  <2>5. Only(w, m, "idle")
    BY <2>4, StepGoes
  <2>6. status'[m] = "failed"
    BY <1>0, <2>2, <2>3 DEF SetDelivery
  <2>7. \A v \in Replica : (step'[v, m] = step[v, m] \/ step'[v, m] \in {"idle", "listed"})
    BY <2>5 DEF Only
  <2>8. w \in Carriers(m)
    BY <2>1 DEF Carriers, Bound, Gone
  <2>9. \A v \in Replica : step'[v, m] \notin Bound
    <3>1. \A v \in Replica : v # w => v \notin Carriers(m)
      BY <1>8, <2>8
    <3> QED BY <2>5, <3>1 DEF Only, Carriers, Bound
  <2> QED BY <1>1, <1>10, <2>6, <2>7, <2>9 DEF Steady, RecordFailure, histVars
<1>11. ASSUME NEW w \in Replica, Send(w, m)
       PROVE  Undisturbed(m)'
  <2>1. PICK s \in Gone : Goto(<<w, m>>, s)
    BY <1>11 DEF Send, Gone
  <2>2. s \in Steps /\ s \in Bound \cup Gone /\ s \notin Bound
    BY DEF Steps, Bound, Gone
  <2>3. Only(w, m, s)
    BY <2>1, <2>2, StepGoes
  <2>4. w \in Carriers(m) /\ step[w, m] \in Bound
    BY <1>11 DEF Send, Carriers, Bound
  <2>5. Carriers(m) \subseteq {w} /\ review[m] = "approved" /\ status[m] = "sending" /\ handed[m] = 0
    BY <1>8, <2>4
  <2>6. UNCHANGED <<review, status>> /\ handed' = [handed EXCEPT ![m] = handed[m] + 1]
    BY <1>11 DEF Send, rowVars
  <2>7. handed'[m] = 1
    BY <1>0, <2>5, <2>6
  <2> QED BY <2>2, <2>3, <2>5, <2>6, <2>7, HandKept
<1>12. ASSUME NEW w \in Replica, RecordSent(w, m)
       PROVE  Undisturbed(m)'
  <2>1. PICK o \in Replies : /\ Answered(o)
                             /\ IF Committed(o) THEN SetDelivery(m, "sent", handed[m]) ELSE UNCHANGED rowVars
                             /\ o = "ok" => Goto(<<w, m>>, "idle")
    BY <1>12 DEF RecordSent
  <2>2. o = "ok" /\ Committed(o)
    BY <2>1, NothingThrew DEF Committed
  <2>3. Goto(<<w, m>>, "idle") /\ "idle" \in Steps
    BY <2>1, <2>2 DEF Steps
  <2>4. Only(w, m, "idle")
    BY <2>3, StepGoes
  <2>5. status'[m] = "sent"
    BY <1>0, <2>1, <2>2 DEF SetDelivery
  <2>6. \A v \in Replica : (step'[v, m] = step[v, m] \/ step'[v, m] \in {"idle", "listed"})
    BY <2>4 DEF Only
  <2>7. w \in Carriers(m)
    BY <1>12 DEF RecordSent, Carriers, Bound, Gone
  <2>8. \A v \in Replica : step'[v, m] \notin Bound
    <3>1. \A v \in Replica : v # w => v \notin Carriers(m)
      BY <1>8, <2>7
    <3> QED BY <2>4, <3>1 DEF Only, Carriers, Bound
  <2> QED BY <1>1, <1>12, <2>5, <2>6, <2>8 DEF Steady, RecordSent, histVars
<1>13. ASSUME NEW w \in Replica, NEW n \in Message, Dispatch(w, n)
       PROVE  Undisturbed(m)'
  <2>1. CASE m # n
    BY <1>1, <1>13, <2>1, OthersSteady
  <2>2. CASE m = n
    BY <1>7, <1>9, <1>10, <1>11, <1>12, <1>13, <2>2 DEF Dispatch
  <2> QED BY <2>1, <2>2
<1>14. ASSUME NEW n \in Message, NEW s \in DeliveryStatus, ReportFound(n, s)
       PROVE  Undisturbed(m)'
  BY <1>1, <1>14 DEF Steady, ReportFound, rowVars, sendVars, histVars
<1>15. ASSUME NEW n \in Message, NEW s \in DeliveryStatus, ReportApplied(n, s)
       PROVE  Undisturbed(m)'
  <2>1. UNCHANGED <<step, review, handed>>
    BY <1>15 DEF ReportApplied, sendVars
  <2>2. m # n => status'[m] = status[m]
    BY <1>0, <1>15 DEF ReportApplied, SetDelivery, rowVars
  <2>3. m = n => handed[m] # 0 /\ status'[m] \notin {"none", "queued"}
    BY <1>15, ReportsComeLate DEF DeliveryStatus
  <2>4. m = n => \A w \in Replica : step'[w, m] \notin Bound
    BY <2>1, <2>3 DEF Undisturbed, Carriers
  <2> QED BY <1>1, <2>1, <2>2, <2>3, <2>4 DEF Steady
<1>16. ASSUME UNCHANGED vars
       PROVE  Undisturbed(m)'
  BY <1>1, <1>16 DEF Steady, vars, rowVars, sendVars, histVars
<1> QED BY <1>2, <1>3, <1>4, <1>5, <1>6, <1>13, <1>14, <1>15, <1>16 DEF Next

-----------------------------------------------------------------------------
(* The inductive invariant.                                                *)
LEMMA Initially ==
  ASSUME Init
  PROVE  IInv
<1>1. TypeOK
  BY BoundsAssumption DEF Init, TypeOK, Steps
<1>2. \A m \in Message : OnTheWay(m) = {} /\ Carriers(m) = {} /\ \A w \in Replica : step[w, m] = "idle"
  BY DEF Init, OnTheWay, Carriers, Task, Bound, Gone
<1>3. HandoffIsOwed
  <2>1. Cardinality({}) = 0
    BY FS_EmptySet
  <2> SUFFICES ASSUME NEW m \in Message PROVE Owed(m)
    BY DEF HandoffIsOwed
  <2>2. handed[m] = 0 /\ requeued[m] = 0 /\ Waiting(m) = 1
    BY DEF Init, Waiting
  <2>3. Cardinality(OnTheWay(m)) = 0
    BY <1>2, <2>1
  <2> QED BY <2>2, <2>3 DEF Owed
<1>4. CanceledAreWithdrawn /\ AllRecorded
  BY <1>2 DEF Init, CanceledAreWithdrawn, Withdrawn, AllRecorded, Recorded
<1>5. OneCarrier
  BY <1>2 DEF Init, OneCarrier, Undisturbed
<1> QED BY <1>1, <1>3, <1>4, <1>5 DEF IInv

(* The inductive invariant holds throughout.                               *)
THEOREM Inductive == SafeSpec => []IInv
<1>1. ASSUME IInv, [Next]_vars
      PROVE  IInv'
  <2>1. TypeOK' /\ HandoffIsOwed' /\ CanceledAreWithdrawn' /\ AllRecorded'
    BY <1>1, TypesKept, SettledKept, RecordedKept DEF IInv
  <2>2. ASSUME faults' = 0, NEW m \in Message, requeued'[m] = 0
        PROVE  Undisturbed(m)'
    <3>1. faults = 0 /\ requeued[m] = 0
      BY <1>1, <2>2, BudgetsGrow DEF IInv
    <3>2. Undisturbed(m) /\ Recorded(m)
      BY <1>1, <3>1 DEF IInv, OneCarrier, AllRecorded
    <3> QED BY <1>1, <2>2, <3>2, UndisturbedKept DEF IInv
  <2> QED BY <2>1, <2>2 DEF IInv, OneCarrier
<1> QED BY <1>1, Initially, PTL DEF SafeSpec

(* All variables stay in their types.                                      *)
THEOREM TypeCorrect == SafeSpec => []TypeOK
BY Inductive, PTL DEF IInv

(* However many replicas race, crash and lose answers, a message goes to   *)
(* the provider once for each time it was queued.                          *)
THEOREM HandedOnce == SafeSpec => []HandedOncePerQueueing
<1>1. ASSUME IInv
      PROVE  HandedOncePerQueueing
  <2> SUFFICES ASSUME NEW m \in Message PROVE handed[m] <= 1 + requeued[m]
    BY DEF HandedOncePerQueueing
  <2>1. handed[m] \in Nat /\ requeued[m] \in Nat /\ Waiting(m) \in Nat
    BY <1>1 DEF IInv, TypeOK, Waiting
  <2>2. handed[m] + Cardinality(OnTheWay(m)) + Waiting(m) <= 1 + requeued[m]
    BY <1>1 DEF IInv, HandoffIsOwed, Owed
  <2> QED BY <2>1, <2>2, OnTheWayCounts
<1> QED BY <1>1, Inductive, PTL

(* An admin who was told canceled: true was told the truth, for good.      *)
THEOREM CancelIsFinal == SafeSpec => []CanceledIsUnsent
<1>1. ASSUME IInv
      PROVE  CanceledIsUnsent
  <2> SUFFICES ASSUME NEW m \in canceled PROVE handed[m] = 0 \/ requeued[m] > 0
    BY DEF CanceledIsUnsent
  <2>1. m \in Message /\ requeued[m] \in Nat
    BY <1>1 DEF IInv, TypeOK
  <2>2. requeued[m] = 0 => handed[m] = 0
    BY <1>1, <2>1 DEF IInv, CanceledAreWithdrawn, Withdrawn
  <2> QED BY <2>1, <2>2
<1> QED BY <1>1, Inductive, PTL

-----------------------------------------------------------------------------
(* The promise of the compose screen (HeldMessage), step by step.          *)
FateOf(m) ==
  IF handed[m] > 1 THEN "out twice"
  ELSE IF handed[m] = 1 THEN "out"
  ELSE CASE status[m] = "none" -> "none"
         [] status[m] \in {"queued", "sending"} -> "held"
         [] status[m] = "canceled" -> "withdrawn"
         [] OTHER -> "dropped"

LEMMA FateIs == Fate = [m \in Message |-> FateOf(m)]
BY DEF Fate, FateOf

LEMMA FateBecomes == Fate' = [m \in Message |-> FateOf(m)']
BY DEF Fate, FateOf

LEMMA FateMoves ==
  ASSUME NEW n \in Message, NEW to, FateOf(n)' = to,
         \A m \in Message : m # n => FateOf(m)' = FateOf(m)
  PROVE  Held!Move(n, FateOf(n), to)
BY FateIs, FateBecomes DEF Held!Move

LEMMA FateStays ==
  ASSUME \A m \in Message : FateOf(m)' = FateOf(m)
  PROVE  UNCHANGED Fate
BY FateIs, FateBecomes

LEMMA SameFate ==
  ASSUME NEW m, handed'[m] = handed[m], status'[m] = status[m]
  PROVE  FateOf(m)' = FateOf(m)
BY DEF FateOf

LEMMA SameCleared ==
  ASSUME UNCHANGED review
  PROVE  UNCHANGED Cleared
BY DEF Cleared

LEMMA HeldStep ==
  ASSUME IInv, [Next]_vars, faults' = 0, \A m \in Message : requeued'[m] = 0
  PROVE  [Held!Next]_(Held!vars)
<1>0. /\ TypeOK
      /\ step \in [Task -> Steps] /\ status \in [Message -> Outcomes] /\ handed \in [Message -> Nat]
      /\ review \in [Message -> {"none", "pending", "approved", "flagged"}]
  BY DEF IInv, TypeOK, Outcomes
<1>1. \A m \in Message : Undisturbed(m) /\ Recorded(m)
  BY <1>0, BudgetsGrow DEF IInv, OneCarrier, AllRecorded
<1>2. ASSUME UNCHANGED <<Fate, Cleared>>
      PROVE  [Held!Next]_(Held!vars)
  BY <1>2 DEF Held!vars
<1>3. ASSUME UNCHANGED <<status, handed, review>>
      PROVE  [Held!Next]_(Held!vars)
  <2>1. \A m \in Message : FateOf(m)' = FateOf(m)
    BY <1>3 DEF FateOf
  <2> QED BY <1>2, <1>3, <2>1, FateStays, SameCleared
<1>4. ASSUME NEW n \in Message, Compose(n)
      PROVE  [Held!Next]_(Held!vars)
  <2>1. status[n] = "none" /\ handed[n] = 0 /\ review[n] = "none"
    BY <1>1, <1>4 DEF Compose, Undisturbed, Recorded
  <2>2. UNCHANGED handed /\ status' = [status EXCEPT ![n] = "queued"]
        /\ review' = [review EXCEPT ![n] = "pending"]
    BY <1>4 DEF Compose, histVars
  <2>3. FateOf(n) = "none" /\ FateOf(n)' = "held"
    <3>1. status'[n] = "queued" /\ handed'[n] = 0
      BY <1>0, <2>1, <2>2
    <3> QED BY <2>1, <3>1 DEF FateOf
  <2>4. ASSUME NEW m \in Message, m # n
        PROVE  FateOf(m)' = FateOf(m)
    BY <1>0, <2>2, <2>4, SameFate
  <2>5. Held!Move(n, "none", "held")
    BY <2>3, <2>4, FateMoves
  <2>6. UNCHANGED Cleared
    <3>1. \A m \in Message : review'[m] = "approved" <=> review[m] = "approved"
      BY <1>0, <2>1, <2>2
    <3> QED BY <3>1 DEF Cleared
  <2> QED BY <2>5, <2>6 DEF Held!Next, Held!Hold
<1>5. ASSUME NEW n \in Message, Cancel(n)
      PROVE  [Held!Next]_(Held!vars)
  <2>1. UNCHANGED <<handed, review>>
    BY <1>5 DEF Cancel
  <2>2. CASE UNCHANGED status
    BY <1>3, <2>1, <2>2
  <2>3. CASE status[n] = "queued" /\ status' = [status EXCEPT ![n] = "canceled"]
    <3>1. handed[n] = 0 /\ handed'[n] = 0 /\ status'[n] = "canceled"
      BY <1>0, <1>1, <2>1, <2>3 DEF Undisturbed
    <3>2. FateOf(n) = "held" /\ FateOf(n)' = "withdrawn"
      BY <2>3, <3>1 DEF FateOf
    <3>3. ASSUME NEW m \in Message, m # n
          PROVE  FateOf(m)' = FateOf(m)
      BY <1>0, <2>1, <2>3, <3>3, SameFate
    <3>4. Held!Move(n, "held", "withdrawn")
      BY <3>2, <3>3, FateMoves
    <3> QED BY <2>1, <3>4, SameCleared DEF Held!Next, Held!Withdraw
  <2> QED BY <1>5, <2>2, <2>3 DEF Cancel, Cancelable
<1>6. ASSUME NEW n \in Message, review[n] # "none", UNCHANGED <<status, handed>>,
             review' = [review EXCEPT ![n] = "approved"]
      PROVE  [Held!Next]_(Held!vars)
  <2>1. Cleared' = Cleared \cup {n}
    BY <1>0, <1>6 DEF Cleared
  <2>2. UNCHANGED Fate
    <3>1. \A m \in Message : FateOf(m)' = FateOf(m)
      BY <1>6 DEF FateOf
    <3> QED BY <3>1, FateStays
  <2>3. Fate[n] # "none"
    <3>1. status[n] # "none"
      BY <1>1, <1>6 DEF Recorded
    <3>2. FateOf(n) # "none"
      BY <3>1 DEF FateOf
    <3> QED BY <3>2, FateIs
  <2> QED BY <2>1, <2>2, <2>3 DEF Held!Next, Held!Clear
<1>7. ASSUME NEW n \in Message, Approve(n)
      PROVE  [Held!Next]_(Held!vars)
  BY <1>6, <1>7 DEF Approve, rowVars, histVars
<1>8. ASSUME NEW w \in Replica, NEW n \in Message, Review(w, n) \/ FlagAfterThrow(w, n)
      PROVE  [Held!Next]_(Held!vars)
  <2>1. PICK v \in {"approved", "flagged"}, o \in Replies : Verdict(w, n, v, o)
    BY <1>8 DEF Review, FlagAfterThrow
  <2>2. UNCHANGED <<status, handed>>
    BY <2>1 DEF Verdict, rowVars, histVars
  <2>3. CASE UNCHANGED review
    BY <1>3, <2>2, <2>3
  <2>4. CASE review[n] = "pending" /\ review' = [review EXCEPT ![n] = "approved"]
    BY <1>6, <2>2, <2>4
  <2>5. CASE review[n] = "pending" /\ review' = [review EXCEPT ![n] = "flagged"]
    <3>1. \A m \in Message : review'[m] = "approved" <=> review[m] = "approved"
      BY <1>0, <2>5
    <3>2. UNCHANGED Cleared
      BY <3>1 DEF Cleared
    <3>3. \A m \in Message : FateOf(m)' = FateOf(m)
      BY <2>2 DEF FateOf
    <3> QED BY <1>2, <3>2, <3>3, FateStays
  <2> QED BY <2>1, <2>3, <2>4, <2>5 DEF Verdict, VerdictWanted
<1>9. ASSUME NEW w \in Replica, NEW n \in Message, w \in Carriers(n)
      PROVE  /\ review[n] = "approved" /\ n \in Cleared
             /\ step[w, n] \in Bound => status[n] = "sending" /\ handed[n] = 0 /\ FateOf(n) = "held"
             /\ step[w, n] \in Gone => handed[n] = 1
  <2>1. /\ review[n] = "approved"
        /\ step[w, n] \in Gone => handed[n] = 1
        /\ step[w, n] \in Bound => status[n] = "sending" /\ handed[n] = 0
    <3>1. Undisturbed(n)
      BY <1>1
    <3> QED BY <1>9, <3>1 DEF Undisturbed
  <2>2. ASSUME status[n] = "sending", handed[n] = 0
        PROVE  FateOf(n) = "held"
    BY <2>2 DEF FateOf
  <2>3. n \in Cleared
    BY <2>1 DEF Cleared
  <2> QED BY <2>1, <2>2, <2>3
<1>10. ASSUME NEW n \in Message, handed[n] = 1, UNCHANGED <<handed, review>>,
              \A m \in Message : m # n => status'[m] = status[m]
       PROVE  [Held!Next]_(Held!vars)
  <2>1. FateOf(n)' = FateOf(n)
    BY <1>10 DEF FateOf
  <2>2. \A m \in Message : FateOf(m)' = FateOf(m)
    BY <1>10, <2>1, SameFate
  <2> QED BY <1>2, <1>10, <2>2, FateStays, SameCleared
<1>11. ASSUME NEW w \in Replica, NEW n \in Message, Claim(w, n)
       PROVE  [Held!Next]_(Held!vars)
  <2>1. UNCHANGED <<handed, review>>
    BY <1>11 DEF Claim, histVars
  <2>2. CASE UNCHANGED status
    BY <1>3, <2>1, <2>2
  <2>3. CASE status[n] = "queued" /\ status' = [status EXCEPT ![n] = "sending"]
    <3>1. handed[n] = 0 /\ handed'[n] = 0 /\ status'[n] = "sending"
      BY <1>0, <1>1, <2>1, <2>3 DEF Undisturbed
    <3>2. FateOf(n) = "held" /\ FateOf(n)' = "held"
      BY <2>3, <3>1 DEF FateOf
    <3>3. \A m \in Message : m # n => FateOf(m)' = FateOf(m)
      BY <1>0, <2>1, <2>3, SameFate
    <3>4. \A m \in Message : FateOf(m)' = FateOf(m)
      BY <3>2, <3>3
    <3> QED BY <1>2, <2>1, <3>4, FateStays, SameCleared
  <2> QED BY <1>11, <2>2, <2>3 DEF Claim, Claimable
<1>12. ASSUME NEW w \in Replica, NEW n \in Message, RecordFailure(w, n)
       PROVE  [Held!Next]_(Held!vars)
  <2>1. UNCHANGED <<handed, review>>
    BY <1>12 DEF RecordFailure, histVars
  <2>2. step[w, n] \in {"reject", "recordRefused"}
    BY <1>1, <1>12 DEF RecordFailure, Undisturbed
  <2>3. w \in Carriers(n)
    BY <2>2 DEF Carriers, Bound, Gone
  <2>4. CASE UNCHANGED status
    BY <1>3, <2>1, <2>4
  <2>5. CASE status' = [status EXCEPT ![n] = "failed"] /\ step[w, n] = "recordRefused"
    <3>1. handed[n] = 1
      BY <1>9, <2>3, <2>5 DEF Gone
    <3> QED BY <1>0, <1>10, <2>1, <2>5, <3>1
  <2>6. CASE status' = [status EXCEPT ![n] = "failed"] /\ step[w, n] = "reject"
    <3>1. handed[n] = 0 /\ FateOf(n) = "held" /\ n \in Cleared
      BY <1>9, <2>3, <2>6 DEF Bound
    <3>2. status'[n] = "failed" /\ handed'[n] = 0
      BY <1>0, <2>1, <2>6, <3>1
    <3>3. FateOf(n)' = "dropped"
      BY <3>2 DEF FateOf
    <3>4. ASSUME NEW m \in Message, m # n
          PROVE  FateOf(m)' = FateOf(m)
      BY <1>0, <2>1, <2>6, <3>4, SameFate
    <3>5. Held!Move(n, "held", "dropped")
      BY <3>1, <3>3, <3>4, FateMoves
    <3> QED BY <2>1, <3>1, <3>5, SameCleared DEF Held!Next, Held!Drop
  <2> QED BY <1>12, <2>2, <2>4, <2>5, <2>6 DEF RecordFailure, SetDelivery, rowVars
<1>13. ASSUME NEW w \in Replica, NEW n \in Message, Send(w, n)
       PROVE  [Held!Next]_(Held!vars)
  <2>1. w \in Carriers(n) /\ step[w, n] \in Bound
    BY <1>13 DEF Send, Carriers, Bound
  <2>2. handed[n] = 0 /\ FateOf(n) = "held" /\ n \in Cleared
    BY <1>9, <2>1
  <2>3. UNCHANGED <<status, review>> /\ handed' = [handed EXCEPT ![n] = handed[n] + 1]
    BY <1>13 DEF Send, rowVars
  <2>4. handed'[n] = 1
    BY <1>0, <2>2, <2>3
  <2>5. FateOf(n)' = "out"
    BY <2>4 DEF FateOf
  <2>6. ASSUME NEW m \in Message, m # n
        PROVE  FateOf(m)' = FateOf(m)
    BY <1>0, <2>3, <2>6, SameFate
  <2>7. Held!Move(n, "held", "out")
    BY <2>2, <2>5, <2>6, FateMoves
  <2> QED BY <2>2, <2>3, <2>7, SameCleared DEF Held!Next, Held!Release
<1>14. ASSUME NEW w \in Replica, NEW n \in Message, RecordSent(w, n)
       PROVE  [Held!Next]_(Held!vars)
  <2>1. UNCHANGED <<handed, review>>
    BY <1>14 DEF RecordSent, histVars
  <2>2. handed[n] = 1
    BY <1>9, <1>14 DEF RecordSent, Carriers, Gone
  <2>3. \A m \in Message : m # n => status'[m] = status[m]
    BY <1>0, <1>14 DEF RecordSent, SetDelivery, rowVars
  <2> QED BY <1>10, <2>1, <2>2, <2>3
<1>15. ASSUME NEW w \in Replica, NEW n \in Message, Dispatch(w, n)
       PROVE  [Held!Next]_(Held!vars)
  <2>1. CASE Lookup(w, n)
    BY <1>3, <2>1 DEF Lookup, rowVars, histVars
  <2> QED BY <1>11, <1>12, <1>13, <1>14, <1>15, <2>1 DEF Dispatch
<1>16. ASSUME NEW n \in Message, NEW s \in DeliveryStatus, ReportApplied(n, s)
       PROVE  [Held!Next]_(Held!vars)
  <2>1. UNCHANGED <<handed, review>>
    BY <1>16 DEF ReportApplied
  <2>2. handed[n] = 1
    BY <1>0, <1>1, <1>16, ReportsComeLate DEF Undisturbed
  <2>3. \A m \in Message : m # n => status'[m] = status[m]
    BY <1>0, <1>16 DEF ReportApplied, SetDelivery, rowVars
  <2> QED BY <1>10, <2>1, <2>2, <2>3
<1>17. ASSUME \/ \E n \in Message : ComesDue(n)
              \/ \E w \in Replica : ListDue(w) \/ ListReviews(w) \/ Crash(w)
              \/ \E n \in Message, s \in DeliveryStatus : ReportFound(n, s)
              \/ UNCHANGED vars
       PROVE  [Held!Next]_(Held!vars)
  <2>1. UNCHANGED <<status, handed, review>>
    BY <1>17 DEF ComesDue, ListDue, ListReviews, Crash, ReportFound, vars, rowVars, histVars
  <2> QED BY <1>3, <2>1
<1> QED BY <1>4, <1>5, <1>7, <1>8, <1>15, <1>16, <1>17 DEF Next

(* Until a statement throws or a report queues a message again, racing and *)
(* crashing replicas, cancels, approvals and verdicts take only the steps  *)
(* HeldMessage allows: nothing goes out twice, unreviewed or withdrawn.    *)
THEOREM HeldUntilRequeued == SafeSpec => HoldUntilRequeued
<1>1. ASSUME IInv, [Next]_vars
      PROVE  [faults' = 0 /\ (\A m \in Message : requeued'[m] = 0) => [Held!Next]_(Held!vars)]_vars
  BY <1>1, HeldStep
<1> QED BY <1>1, Inductive, PTL DEF SafeSpec, HoldUntilRequeued
=============================================================================
