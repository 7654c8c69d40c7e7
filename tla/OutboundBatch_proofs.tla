------------------------ MODULE OutboundBatch_proofs ------------------------
(* Theorems about OutboundBatch, for every set of replicas and recipients  *)
(* and every bound.                                                        *)
EXTENDS OutboundBatch, FiniteSetTheorems, TLAPS

(* Goto and RetryOr keep step and tries in their types. *)
LEMMA GotoType ==
  ASSUME TypeOK, NEW t \in Task, NEW s \in Steps, Goto(t, s)
  PROVE  step' \in [Task -> Steps] /\ tries' \in [Task -> Nat]
BY DEF TypeOK, Goto

LEMMA RetryOrType ==
  ASSUME TypeOK, NEW t \in Task, NEW o, NEW s1 \in Steps, NEW s2 \in Steps,
         RetryOr(t, o, s1, s2)
  PROVE  step' \in [Task -> Steps] /\ tries' \in [Task -> Nat]
<1>1. CASE o = "ok"
  BY <1>1, GotoType DEF RetryOr
<1>2. CASE o # "ok" /\ tries[t] + 1 < MaxAttempts
  <2>1. tries' = [tries EXCEPT ![t] = @ + 1] /\ step' = step
    BY <1>2 DEF RetryOr
  <2> QED BY <2>1 DEF TypeOK
<1>3. CASE o # "ok" /\ ~(tries[t] + 1 < MaxAttempts)
  BY <1>3, GotoType DEF RetryOr
<1> QED BY <1>1, <1>2, <1>3

LEMMA AnsweredType ==
  ASSUME TypeOK, NEW o, Answered(o)
  PROVE  faults' \in 0..MaxFaults
BY BoundsAssumption DEF TypeOK, Answered

LEMMA SetRecipientType ==
  ASSUME TypeOK, NEW r \in Recipient, NEW s \in Resolved, NEW m \in Nat,
         SetRecipient(r, s, m)
  PROVE  /\ status' \in [Recipient -> {"none", "pending", "sending"} \cup Resolved]
         /\ stale' \in SUBSET Recipient
         /\ link' \in [Recipient -> Nat]
BY DEF TypeOK, SetRecipient

LEMMA IncrementType ==
  ASSUME TypeOK, NEW b \in Batch, Increment(b)
  PROVE  /\ completed' \in [Batch -> Nat]
         /\ batchStatus' \in [Batch -> {"none", "pending", "processing", "completed"}]
BY DEF TypeOK, Increment

(* Writing into a message row of a thread leaves threads of message rows. *)
LEMMA SeqWrite ==
  ASSUME NEW S, NEW q \in Seq(S), NEW i, NEW e \in S
  PROVE  [q EXCEPT ![i] = e] \in Seq(S)
<1>1. PICK n \in Nat : q \in [1..n -> S]
  OBVIOUS
<1>2. [q EXCEPT ![i] = e] \in [1..n -> S]
  BY <1>1
<1> QED BY <1>2

LEMMA ThreadWrite ==
  ASSUME TypeOK, NEW r \in Recipient, NEW i, NEW v \in DeliveryStatus
  PROVE  [thread EXCEPT ![r][i] = v] \in [Recipient -> Seq(DeliveryStatus)]
<1>1. thread[r] \in Seq(DeliveryStatus)
  BY DEF TypeOK
<1>4. [thread[r] EXCEPT ![i] = v] \in Seq(DeliveryStatus)
  BY <1>1, SeqWrite
<1>5. \A x \in Seq(DeliveryStatus) :
        [thread EXCEPT ![r] = x] \in [Recipient -> Seq(DeliveryStatus)]
  BY DEF TypeOK
<1>6. [thread EXCEPT ![r][i] = v] = [thread EXCEPT ![r] = [thread[r] EXCEPT ![i] = v]]
  OBVIOUS
<1> QED BY <1>4, <1>5, <1>6

(* Every step of processRecipient keeps the types. *)
LEMMA ProcessType ==
  ASSUME TypeOK, NEW w \in Replica, NEW r \in Recipient, ProcessRecipient(w, r)
  PROVE  TypeOK'
<1> DEFINE t == <<w, r>>
<1> USE DEF reportVars
<1>t. t \in Task
  BY DEF Task
<1>b. BatchOf[r] \in Batch
  BY SetsAssumption
<1>1. CASE Claim(w, r)
  <2> PICK o \in Replies : Claim(w, r)!(o)
    BY <1>1 DEF Claim
  <2>1. step' \in [Task -> Steps] /\ tries' \in [Task -> Nat]
    BY <1>t, GotoType DEF Steps
  <2>2. faults' \in 0..MaxFaults
    BY AnsweredType
  <2> QED BY <2>1, <2>2 DEF TypeOK, batchVars, tickVars, histVars
<1>2. CASE Prepare(w, r)
  <2> PICK o \in Replies : Prepare(w, r)!(o)
    BY <1>2 DEF Prepare
  <2>1. step' \in [Task -> Steps] /\ tries' \in [Task -> Nat]
    BY <1>t, GotoType DEF Steps
  <2>2. faults' \in 0..MaxFaults
    BY AnsweredType
  <2>3. thread' \in [Recipient -> Seq(DeliveryStatus)] /\ row' \in [Task -> Nat]
    <3>1. thread[r] \in Seq(DeliveryStatus) /\ Len(thread[r]) + 1 \in Nat
      BY DEF TypeOK
    <3>2. CASE Committed(o) /\ r \notin Unsendable
      <4>1. Append(thread[r], "queued") \in Seq(DeliveryStatus)
        BY <3>1 DEF DeliveryStatus
      <4> QED BY <3>1, <3>2, <4>1 DEF TypeOK
    <3>3. CASE ~(Committed(o) /\ r \notin Unsendable)
      BY <3>3 DEF TypeOK
    <3> QED BY <3>2, <3>3
  <2> QED BY <2>1, <2>2, <2>3 DEF TypeOK, rowVars, batchVars, tickVars, histVars
<1>3. CASE Send(w, r)
  <2>1. step' \in [Task -> Steps] /\ tries' \in [Task -> Nat]
    BY <1>3, <1>t, GotoType DEF Send, Steps
  <2>2. handed' \in [Recipient -> Nat]
    BY <1>3 DEF Send, TypeOK
  <2>3. /\ UNCHANGED <<status, stale, link, thread, completed, batchStatus>>
        /\ UNCHANGED <<phase, round, row, reclaims, faults, crashes, tracked, bounced>>
    BY <1>3 DEF Send, rowVars, batchVars, tickVars
  <2> QED BY <2>1, <2>2, <2>3 DEF TypeOK
<1>4. CASE RecordSent(w, r)
  <2> PICK o \in Replies : RecordSent(w, r)!(o)
    BY <1>4 DEF RecordSent
  <2>1. step' \in [Task -> Steps] /\ tries' \in [Task -> Nat]
    BY <1>t, RetryOrType DEF Steps
  <2>2. faults' \in 0..MaxFaults
    BY AnsweredType
  <2>3. /\ thread' \in [Recipient -> Seq(DeliveryStatus)]
        /\ tracked' \in [Recipient -> SUBSET Nat]
    <3>1. CASE Committed(o)
      <4>1. thread' \in [Recipient -> Seq(DeliveryStatus)]
        BY <3>1, ThreadWrite DEF DeliveryStatus
      <4>2. row[t] \in Nat /\ tracked \in [Recipient -> SUBSET Nat]
        BY <1>t DEF TypeOK
      <4>3. tracked' \in [Recipient -> SUBSET Nat]
        BY <3>1, <4>2
      <4> QED BY <4>1, <4>3
    <3>2. CASE ~Committed(o)
      BY <3>2 DEF TypeOK
    <3> QED BY <3>1, <3>2
  <2> QED BY <2>1, <2>2, <2>3 DEF TypeOK, rowVars, batchVars, tickVars, histVars
<1>5. CASE RecordRefused(w, r)
  <2> PICK o \in Replies : RecordRefused(w, r)!(o)
    BY <1>5 DEF RecordRefused
  <2>1. step' \in [Task -> Steps] /\ tries' \in [Task -> Nat]
    BY <1>t, GotoType DEF Steps
  <2>2. faults' \in 0..MaxFaults
    BY AnsweredType
  <2>3. thread' \in [Recipient -> Seq(DeliveryStatus)]
    BY ThreadWrite DEF TypeOK, DeliveryStatus
  <2> QED BY <2>1, <2>2, <2>3 DEF TypeOK, rowVars, batchVars, tickVars, histVars
<1>6. CASE LinkOutcome(w, r)
  <2> PICK o \in Replies : LinkOutcome(w, r)!(o)
    BY <1>6 DEF LinkOutcome
  <2>1. step' \in [Task -> Steps] /\ tries' \in [Task -> Nat]
    BY <1>t, RetryOrType DEF Steps, AfterDispatch
  <2>2. faults' \in 0..MaxFaults
    BY AnsweredType
  <2>3. /\ status' \in [Recipient -> {"none", "pending", "sending"} \cup Resolved]
        /\ stale' \in SUBSET Recipient
        /\ link' \in [Recipient -> Nat]
    <3>1. row[t] \in Nat
      BY <1>t DEF TypeOK
    <3>2. CASE Committed(o)
      BY <3>1, <3>2, SetRecipientType DEF Resolved
    <3>3. CASE ~Committed(o)
      BY <3>3 DEF TypeOK, rowVars
    <3> QED BY <3>2, <3>3
  <2> QED BY <2>1, <2>2, <2>3 DEF TypeOK, batchVars, tickVars, histVars
<1>7. CASE Count(w, r)
  <2> PICK o \in Replies : Count(w, r)!(o)
    BY <1>7 DEF Count
  <2>1. step' \in [Task -> Steps] /\ tries' \in [Task -> Nat]
    BY <1>t, RetryOrType DEF Steps, AfterDispatch
  <2>2. faults' \in 0..MaxFaults
    BY AnsweredType
  <2>3. /\ completed' \in [Batch -> Nat]
        /\ batchStatus' \in [Batch -> {"none", "pending", "processing", "completed"}]
    BY <1>b, IncrementType DEF TypeOK, batchVars
  <2> QED BY <2>1, <2>2, <2>3 DEF TypeOK, rowVars, tickVars, histVars
<1>8. CASE FailStatus(w, r)
  <2> PICK o \in Replies : FailStatus(w, r)!(o)
    BY <1>8 DEF FailStatus
  <2>1. step' \in [Task -> Steps] /\ tries' \in [Task -> Nat]
    BY <1>t, GotoType DEF Steps, AfterThrow
  <2>2. faults' \in 0..MaxFaults
    BY AnsweredType
  <2>3. /\ status' \in [Recipient -> {"none", "pending", "sending"} \cup Resolved]
        /\ stale' \in SUBSET Recipient
        /\ link' \in [Recipient -> Nat]
    <3>1. CASE Committed(o)
      BY <3>1, SetRecipientType DEF Resolved
    <3>2. CASE ~Committed(o)
      BY <3>2 DEF TypeOK, rowVars
    <3> QED BY <3>1, <3>2
  <2> QED BY <2>1, <2>2, <2>3 DEF TypeOK, batchVars, tickVars, histVars
<1>9. CASE FailCount(w, r)
  <2> PICK o \in Replies : FailCount(w, r)!(o)
    BY <1>9 DEF FailCount
  <2>1. step' \in [Task -> Steps] /\ tries' \in [Task -> Nat]
    BY <1>t, GotoType DEF Steps, AfterThrow
  <2>2. faults' \in 0..MaxFaults
    BY AnsweredType
  <2>3. /\ completed' \in [Batch -> Nat]
        /\ batchStatus' \in [Batch -> {"none", "pending", "processing", "completed"}]
    BY <1>b, IncrementType DEF TypeOK, batchVars
  <2> QED BY <2>1, <2>2, <2>3 DEF TypeOK, rowVars, tickVars, histVars
<1> QED BY <1>1, <1>2, <1>3, <1>4, <1>5, <1>6, <1>7, <1>8, <1>9 DEF ProcessRecipient

LEMMA NextType ==
  ASSUME TypeOK, [Next]_vars
  PROVE  TypeOK'
<1> USE DEF rowVars, batchVars, tickVars, taskVars, histVars, reportVars
<1>1. ASSUME NEW b \in Batch, CreateBatch(b) PROVE TypeOK'
  BY <1>1 DEF CreateBatch, TypeOK
<1>2. ASSUME NEW w \in Replica, Tick(w) PROVE TypeOK'
  <2> PICK o \in Replies : Tick(w)!(o)
    BY <1>2 DEF Tick
  <2>1. faults' \in 0..MaxFaults
    BY AnsweredType
  <2>2. /\ status' \in [Recipient -> {"none", "pending", "sending"} \cup Resolved]
        /\ stale' \in SUBSET Recipient
        /\ reclaims' \in [Recipient -> Nat]
    <3>1. CASE Committed(o)
      <4>1. status' \in [Recipient -> {"none", "pending", "sending"} \cup Resolved]
        BY <3>1 DEF TypeOK
      <4>2. reclaims \in [Recipient -> Nat]
        BY DEF TypeOK
      <4>3. reclaims' = [x \in Recipient |-> IF x \in StuckRows THEN reclaims[x] + 1 ELSE reclaims[x]]
        BY <3>1
      <4>4. reclaims' \in [Recipient -> Nat]
        BY <4>2, <4>3
      <4> QED BY <3>1, <4>1, <4>4 DEF TypeOK
    <3>2. CASE ~Committed(o)
      BY <3>2 DEF TypeOK
    <3> QED BY <3>1, <3>2
  <2>3. /\ phase' \in [Replica -> {"off", "listing", "draining", "last"}]
        /\ round' \in [Replica -> Nat]
    <3>1. "listing" \in {"off", "listing", "draining", "last"} /\ 0 \in Nat
      OBVIOUS
    <3> QED BY <3>1 DEF TypeOK
  <2> QED BY <2>1, <2>2, <2>3 DEF TypeOK
<1>3. ASSUME NEW w \in Replica, List(w) PROVE TypeOK'
  <2> PICK S \in SUBSET {r \in Recipient : status[r] = "pending"} : List(w)!2!(S)
    BY <1>3 DEF List
  <2>1. step' \in [Task -> Steps]
    BY DEF TypeOK, Steps
  <2>2. phase' \in [Replica -> {"off", "listing", "draining", "last"}]
    BY DEF TypeOK
  <2> QED BY <1>3, <2>1, <2>2 DEF List, TypeOK
<1>4. ASSUME NEW w \in Replica, EndRound(w) PROVE TypeOK'
  <2>1. phase' \in [Replica -> {"off", "listing", "draining", "last"}]
    BY <1>4 DEF EndRound, TypeOK
  <2>2. round' \in [Replica -> Nat]
    <3>1. round[w] + 1 \in Nat /\ 0 \in Nat
      BY DEF TypeOK
    <3>2. \E n \in Nat : round' = [round EXCEPT ![w] = n]
      BY <1>4, <3>1 DEF EndRound
    <3> QED BY <3>2 DEF TypeOK
  <2> QED BY <1>4, <2>1, <2>2 DEF EndRound, TypeOK
<1>5. ASSUME NEW w \in Replica, ListFails(w) PROVE TypeOK'
  <2>1. faults' \in 0..MaxFaults
    BY <1>5, AnsweredType DEF ListFails
  <2> QED BY <1>5, <2>1 DEF ListFails, TypeOK
<1>6. ASSUME NEW w \in Replica, Crash(w) PROVE TypeOK'
  BY <1>6, BoundsAssumption DEF Crash, TypeOK, Steps
<1>7. ASSUME NEW r \in Recipient, ClaimGrowsStale(r) PROVE TypeOK'
  BY <1>7 DEF ClaimGrowsStale, TypeOK
<1>8. ASSUME NEW r \in Recipient, NEW n \in tracked[r], NEW s \in ReportsOf[r],
             DeliveryReport(r, n, s)
      PROVE  TypeOK'
  <2>1. s \in DeliveryStatus /\ n \in Nat
    BY SetsAssumption DEF TypeOK
  <2>2. thread' \in [Recipient -> Seq(DeliveryStatus)]
    BY <1>8, <2>1, ThreadWrite DEF DeliveryReport
  <2>3. bounced' \in [Recipient -> SUBSET Nat]
    BY <1>8, <2>1 DEF DeliveryReport, TypeOK
  <2> QED BY <1>8, <2>2, <2>3 DEF DeliveryReport, TypeOK
<1>9. CASE UNCHANGED vars
  BY <1>9 DEF vars, TypeOK
<1> QED BY <1>1, <1>2, <1>3, <1>4, <1>5, <1>6, <1>7, <1>8, <1>9, ProcessType DEF Next, Loop

LEMMA InitType == Init => TypeOK
BY BoundsAssumption DEF Init, TypeOK, Steps

(* Every variable keeps its type: in particular the only statuses a row    *)
(* ever holds are those the table's CHECK constraint allows.               *)
THEOREM TypeCorrect == SafeSpec => []TypeOK
BY InitType, NextType, PTL DEF SafeSpec

-----------------------------------------------------------------------------
(* The double-send guard.  A claim is a token: whoever is between the      *)
(* claim and the hand-off holds it.  A pending row, a holder and a         *)
(* hand-off are three places one token can be, and only a sweep makes a    *)
(* new one.                                                                *)
Holders(r) == {w \in Replica : step[<<w, r>>] \in {"prepare", "send"}}
Waiting(r) == IF status[r] \in {"none", "pending"} THEN 1 ELSE 0
Tokens(r) == handed[r] + Cardinality(Holders(r)) + Waiting(r)
TokenInv == \A r \in Recipient : Tokens(r) <= 1 + reclaims[r]

LEMMA HoldersFinite ==
  ASSUME NEW r \in Recipient
  PROVE  IsFiniteSet(Holders(r)) /\ Cardinality(Holders(r)) \in Nat
BY SetsAssumption, FS_Subset, FS_CardinalityType DEF Holders


(* The steps that move no token of r: no hand-off, no row of r turned      *)
(* pending, and nobody new between claim and hand-off.                     *)
LEMMA TokensStay ==
  ASSUME TypeOK, TypeOK', NEW r \in Recipient,
         Tokens(r) <= 1 + reclaims[r],
         handed'[r] = handed[r], reclaims'[r] = reclaims[r],
         Waiting(r)' \in {0, Waiting(r)}, Holders(r)' \subseteq Holders(r)
  PROVE  Tokens(r)' <= 1 + reclaims'[r]
<1>1. Cardinality(Holders(r)') <= Cardinality(Holders(r))
  BY HoldersFinite, FS_Subset
<1>2. Cardinality(Holders(r)') \in Nat
  BY HoldersFinite, FS_Subset, FS_CardinalityType
<1>3. handed[r] \in Nat /\ reclaims[r] \in Nat /\ Waiting(r) \in Nat /\ Waiting(r)' \in Nat
  BY DEF TypeOK, Waiting
<1> QED BY <1>1, <1>2, <1>3, HoldersFinite DEF Tokens


LEMMA TokenTick ==
  ASSUME TypeOK, TypeOK', NEW w \in Replica, Tick(w), NEW r \in Recipient,
         Tokens(r) <= 1 + reclaims[r]
  PROVE  Tokens(r)' <= 1 + reclaims'[r]
<1> PICK o \in Replies : Tick(w)!(o)
  BY DEF Tick
<1>1. Holders(r)' = Holders(r) /\ handed'[r] = handed[r]
  BY DEF Holders, taskVars
<1>2. CASE Committed(o) /\ r \in StuckRows
  <2>1. Waiting(r) = 0 /\ Waiting(r)' = 1
    BY <1>2 DEF Waiting, StuckRows
  <2>2. reclaims'[r] = reclaims[r] + 1
    BY <1>2
  <2>3. handed[r] \in Nat /\ reclaims[r] \in Nat
    BY DEF TypeOK
  <2> QED BY <1>1, <2>1, <2>2, <2>3, HoldersFinite DEF Tokens
<1>3. CASE ~(Committed(o) /\ r \in StuckRows)
  <2>1. status'[r] = status[r] /\ reclaims'[r] = reclaims[r]
    BY <1>3 DEF TypeOK
  <2>2. Waiting(r)' = Waiting(r) /\ Waiting(r) \in Nat
    BY <2>1 DEF Waiting
  <2> QED BY <1>1, <2>1, <2>2, TokensStay
<1> QED BY <1>2, <1>3

LEMMA TokenClaim ==
  ASSUME TypeOK, TypeOK', NEW w \in Replica, NEW q \in Recipient, Claim(w, q),
         NEW r \in Recipient, Tokens(r) <= 1 + reclaims[r]
  PROVE  Tokens(r)' <= 1 + reclaims'[r]
<1> PICK o \in Replies : Claim(w, q)!(o)
  BY DEF Claim
<1>t. <<w, q>> \in Task
  BY DEF Task
<1>1. handed'[r] = handed[r] /\ reclaims'[r] = reclaims[r]
  BY DEF histVars
<1>2. Waiting(r)' \in {0, Waiting(r)} /\ Waiting(r) \in Nat /\ Waiting(r)' \in Nat
  <2>1. status'[r] = status[r] \/ (status[r] = "pending" /\ status'[r] = "sending")
    <3>1. status \in [Recipient -> {"none", "pending", "sending"} \cup Resolved]
      BY DEF TypeOK
    <3> QED BY <3>1 DEF Claimable
  <2> QED BY <2>1 DEF Waiting
<1>s. \E s : step' = [step EXCEPT ![<<w, q>>] = s]
  BY DEF Goto
<1>d. step \in [Task -> Steps]
  BY DEF TypeOK
<1>3. CASE r = q /\ o = "ok" /\ Claimable(r)
  <2>1. Waiting(r) = 1 /\ Waiting(r)' = 0
    BY <1>3 DEF Waiting, Claimable, Committed, TypeOK
  <2>2. Holders(r)' = Holders(r) \cup {w} /\ w \notin Holders(r)
    BY <1>3, <1>t DEF Holders, Goto, TypeOK, Task
  <2>3. Cardinality(Holders(r)') = Cardinality(Holders(r)) + 1
    BY <2>2, HoldersFinite, FS_AddElement
  <2>4. handed[r] \in Nat /\ reclaims[r] \in Nat
    BY DEF TypeOK
  <2> QED BY <1>1, <2>1, <2>3, <2>4, HoldersFinite DEF Tokens
<1>4. CASE ~(r = q /\ o = "ok" /\ Claimable(r))
  <2>1. Holders(r)' \subseteq Holders(r)
    <3>1. ~(r = q) \/ step'[<<w, q>>] \notin {"prepare", "send"}
      BY <1>4, <1>t, <1>d DEF Goto
    <3>2. \A v \in Replica : <<v, r>> # <<w, q>> => step'[<<v, r>>] = step[<<v, r>>]
      BY <1>s, <1>t, <1>d DEF Task
    <3> QED BY <3>1, <3>2 DEF Holders
  <2> QED BY <1>1, <1>2, <2>1, TokensStay
<1> QED BY <1>3, <1>4

LEMMA TokenSend ==
  ASSUME TypeOK, TypeOK', NEW w \in Replica, NEW q \in Recipient, Send(w, q),
         NEW r \in Recipient, Tokens(r) <= 1 + reclaims[r]
  PROVE  Tokens(r)' <= 1 + reclaims'[r]
<1>t. <<w, q>> \in Task
  BY DEF Task
<1>1. reclaims' = reclaims /\ Waiting(r)' = Waiting(r) /\ Waiting(r) \in Nat
  BY DEF Send, rowVars, Waiting
<1>d. step \in [Task -> Steps]
  BY DEF TypeOK
<1>s. /\ step[<<w, q>>] = "send"
      /\ step'[<<w, q>>] \notin {"prepare", "send"}
      /\ \A v \in Replica : <<v, r>> # <<w, q>> => step'[<<v, r>>] = step[<<v, r>>]
  BY <1>t, <1>d DEF Send, Goto, Task
<1>2. CASE r = q
  <2>1. handed'[r] = handed[r] + 1
    BY <1>2 DEF Send, TypeOK
  <2>2. Holders(r)' = Holders(r) \ {w} /\ w \in Holders(r)
    BY <1>2, <1>s DEF Holders
  <2>3. Cardinality(Holders(r)') = Cardinality(Holders(r)) - 1
    BY <2>2, HoldersFinite, FS_RemoveElement
  <2>4. handed[r] \in Nat /\ reclaims[r] \in Nat
    BY DEF TypeOK
  <2> QED BY <1>1, <2>1, <2>3, <2>4, HoldersFinite DEF Tokens
<1>3. CASE r # q
  <2>1. handed'[r] = handed[r]
    BY <1>3 DEF Send, TypeOK
  <2>2. Holders(r)' \subseteq Holders(r)
    BY <1>3, <1>s DEF Holders
  <2> QED BY <1>1, <2>1, <2>2, TokensStay
<1> QED BY <1>2, <1>3


(* The remaining steps of processRecipient leave the holders or reduce     *)
(* them, and never make a row pending.                                     *)
LEMMA TokenBookkeeping ==
  ASSUME TypeOK, TypeOK', NEW w \in Replica, NEW q \in Recipient,
         NEW r \in Recipient, Tokens(r) <= 1 + reclaims[r],
         handed' = handed, reclaims' = reclaims,
         status'[r] = status[r] \/ status'[r] \in Resolved,
         step' = step \/ \E s : step' = [step EXCEPT ![<<w, q>>] = s],
         step[<<w, q>>] \notin {"prepare", "send"} => step'[<<w, q>>] \notin {"prepare", "send"}
  PROVE  Tokens(r)' <= 1 + reclaims'[r]
<1>t. <<w, q>> \in Task /\ step \in [Task -> Steps]
  BY DEF Task, TypeOK
<1>1. handed'[r] = handed[r] /\ reclaims'[r] = reclaims[r]
  OBVIOUS
<1>2. Waiting(r)' \in {0, Waiting(r)}
  <2>1. Waiting(r) \in Nat
    BY DEF Waiting
  <2>2. CASE status'[r] = status[r]
    <3>1. Waiting(r)' = Waiting(r)
      BY <2>2 DEF Waiting
    <3> QED BY <2>1, <3>1
  <2>3. CASE status'[r] \in Resolved
    <3>1. Waiting(r)' = 0
      BY <2>3 DEF Waiting, Resolved
    <3> QED BY <2>1, <3>1
  <2> QED BY <2>2, <2>3
<1>3. \A v \in Replica : <<v, r>> # <<w, q>> => step'[<<v, r>>] = step[<<v, r>>]
  BY <1>t DEF Task
<1>4. Holders(r)' \subseteq Holders(r)
  <2>1. step[<<w, q>>] \notin {"prepare", "send"} => step'[<<w, q>>] \notin {"prepare", "send"}
    OBVIOUS
  <2> QED BY <1>3, <2>1 DEF Holders
<1> QED BY <1>1, <1>2, <1>4, TokensStay

LEMMA TokenProcess ==
  ASSUME TypeOK, TypeOK', NEW w \in Replica, NEW q \in Recipient, ProcessRecipient(w, q),
         NEW r \in Recipient, Tokens(r) <= 1 + reclaims[r]
  PROVE  Tokens(r)' <= 1 + reclaims'[r]
<1> DEFINE t == <<w, q>>
<1>t. t \in Task /\ step \in [Task -> Steps]
  BY DEF Task, TypeOK
<1>s. status \in [Recipient -> {"none", "pending", "sending"} \cup Resolved]
  BY DEF TypeOK
<1>1. CASE Claim(w, q)
  BY <1>1, TokenClaim
<1>2. CASE Prepare(w, q)
  <2> PICK o \in Replies : Prepare(w, q)!(o)
    BY <1>2 DEF Prepare
  <2>1. step[t] = "prepare" /\ \E s : step' = [step EXCEPT ![t] = s]
    BY DEF Goto
  <2> QED BY <2>1, TokenBookkeeping DEF rowVars, histVars
<1>3. CASE Send(w, q)
  BY <1>3, TokenSend
<1>4. CASE RecordSent(w, q)
  <2> PICK o \in Replies : RecordSent(w, q)!(o)
    BY <1>4 DEF RecordSent
  <2>1. step' = step \/ step' = [step EXCEPT ![t] = "linkSent"]
    BY DEF RetryOr, Goto
  <2> QED BY <1>t, <2>1, TokenBookkeeping DEF rowVars, histVars
<1>5. CASE RecordRefused(w, q)
  <2> PICK o \in Replies : RecordRefused(w, q)!(o)
    BY <1>5 DEF RecordRefused
  <2>1. step' = [step EXCEPT ![t] = "linkFailed"] \/ step' = [step EXCEPT ![t] = "failStatus"]
    BY DEF Goto
  <2> QED BY <1>t, <2>1, TokenBookkeeping DEF rowVars, histVars
<1>6. CASE LinkOutcome(w, q)
  <2> PICK o \in Replies : LinkOutcome(w, q)!(o)
    BY <1>6 DEF LinkOutcome
  <2>1. \/ step' = step
        \/ step' = [step EXCEPT ![t] = "count"]
        \/ step' = [step EXCEPT ![t] = "idle"]
    BY DEF RetryOr, Goto, AfterDispatch
  <2>2. status'[r] = status[r] \/ status'[r] \in Resolved
    BY <1>s DEF SetRecipient, rowVars, Resolved
  <2> QED BY <1>t, <2>1, <2>2, TokenBookkeeping DEF histVars
<1>7. CASE Count(w, q)
  <2> PICK o \in Replies : Count(w, q)!(o)
    BY <1>7 DEF Count
  <2>1. step' = step \/ step' = [step EXCEPT ![t] = "idle"]
    BY DEF RetryOr, Goto, AfterDispatch
  <2> QED BY <1>t, <2>1, TokenBookkeeping DEF rowVars, histVars
<1>8. CASE FailStatus(w, q)
  <2> PICK o \in Replies : FailStatus(w, q)!(o)
    BY <1>8 DEF FailStatus
  <2>1. \E s \in {"failStatus", "idle", "rejectCount", "failCount"} : step' = [step EXCEPT ![t] = s]
    BY DEF Goto, AfterThrow
  <2>2. status'[r] = status[r] \/ status'[r] \in Resolved
    BY <1>s DEF SetRecipient, rowVars, Resolved
  <2>3. (\E s : step' = [step EXCEPT ![t] = s]) /\ step'[t] \notin {"prepare", "send"}
    BY <1>t, <2>1
  <2> QED BY <2>2, <2>3, TokenBookkeeping DEF histVars
<1>9. CASE FailCount(w, q)
  <2> PICK o \in Replies : FailCount(w, q)!(o)
    BY <1>9 DEF FailCount
  <2>1. \E s \in {"failStatus", "idle"} : step' = [step EXCEPT ![t] = s]
    BY DEF Goto, AfterThrow
  <2>2. (\E s : step' = [step EXCEPT ![t] = s]) /\ step'[t] \notin {"prepare", "send"}
    BY <1>t, <2>1
  <2> QED BY <2>2, TokenBookkeeping DEF rowVars, histVars
<1> QED BY <1>1, <1>2, <1>3, <1>4, <1>5, <1>6, <1>7, <1>8, <1>9 DEF ProcessRecipient

(* createOutboundBatch posts a batch and its rows together, so until then  *)
(* no row exists and no replica works on one.                              *)
Posted ==
  \A r \in Recipient : batchStatus[BatchOf[r]] = "none" =>
    status[r] = "none" /\ \A w \in Replica : step[<<w, r>>] = "idle"

LEMMA PostedStep ==
  ASSUME TypeOK, Posted, [Next]_vars
  PROVE  Posted'
<1> SUFFICES ASSUME NEW r \in Recipient, batchStatus'[BatchOf[r]] = "none"
             PROVE  status'[r] = "none" /\ \A w \in Replica : step'[<<w, r>>] = "idle"
  BY DEF Posted
<1> USE DEF rowVars, batchVars, tickVars, taskVars, histVars, reportVars
<1>b. /\ batchStatus \in [Batch -> {"none", "pending", "processing", "completed"}]
      /\ status \in [Recipient -> {"none", "pending", "sending"} \cup Resolved]
      /\ step \in [Task -> Steps]
      /\ \A q \in Recipient : BatchOf[q] \in Batch
  BY SetsAssumption DEF TypeOK
<1>g. ASSUME batchStatus[BatchOf[r]] = "none"
      PROVE  status[r] = "none" /\ \A w \in Replica : step[<<w, r>>] = "idle"
  BY <1>g DEF Posted
<1>1. ASSUME NEW b \in Batch, CreateBatch(b)
      PROVE  status'[r] = "none" /\ \A w \in Replica : step'[<<w, r>>] = "idle"
  BY <1>1, <1>b, <1>g DEF CreateBatch
<1>2. ASSUME NEW w \in Replica, Tick(w)
      PROVE  status'[r] = "none" /\ \A v \in Replica : step'[<<v, r>>] = "idle"
  BY <1>2, <1>b, <1>g DEF Tick, StuckRows
<1>3. ASSUME NEW w \in Replica, List(w)
      PROVE  status'[r] = "none" /\ \A v \in Replica : step'[<<v, r>>] = "idle"
  BY <1>3, <1>b, <1>g DEF List, Task
<1>4. ASSUME NEW w \in Replica, EndRound(w) \/ ListFails(w)
      PROVE  status'[r] = "none" /\ \A v \in Replica : step'[<<v, r>>] = "idle"
  BY <1>4, <1>g DEF EndRound, ListFails
<1>5. ASSUME NEW w \in Replica, Crash(w)
      PROVE  status'[r] = "none" /\ \A v \in Replica : step'[<<v, r>>] = "idle"
  BY <1>5, <1>g DEF Crash, Task
<1>6. ASSUME NEW w \in Replica, NEW q \in Recipient, ProcessRecipient(w, q)
      PROVE  status'[r] = "none" /\ \A v \in Replica : step'[<<v, r>>] = "idle"
  <2>1. step[<<w, q>>] # "idle"
    BY <1>6 DEF ProcessRecipient, Claim, Prepare, Send, RecordSent, RecordRefused,
                LinkOutcome, Count, FailStatus, FailCount
  <2>2. \A c \in Batch : batchStatus'[c] = "none" => batchStatus[c] = "none"
    BY <1>6, <1>b DEF ProcessRecipient, Claim, Prepare, Send, RecordSent, RecordRefused,
                LinkOutcome, Count, FailStatus, FailCount, Increment
  <2>3. batchStatus[BatchOf[r]] = "none"
    BY <1>b, <2>2
  <2>4. q # r
    BY <1>g, <2>1, <2>3
  <2>5. status'[r] = status[r]
    BY <1>6, <1>b, <2>4 DEF ProcessRecipient, Claim, Prepare, Send, RecordSent, RecordRefused,
                LinkOutcome, Count, FailStatus, FailCount, SetRecipient
  <2>6. step' = step \/ \E s : step' = [step EXCEPT ![<<w, q>>] = s]
    BY <1>6 DEF ProcessRecipient, Claim, Prepare, Send, RecordSent, RecordRefused,
                LinkOutcome, Count, FailStatus, FailCount, Goto, RetryOr
  <2>7. \A v \in Replica : step'[<<v, r>>] = step[<<v, r>>]
    BY <1>b, <2>4, <2>6 DEF Task
  <2> QED BY <1>g, <2>3, <2>5, <2>7
<1>7. ASSUME NEW q \in Recipient, ClaimGrowsStale(q)
      PROVE  status'[r] = "none" /\ \A v \in Replica : step'[<<v, r>>] = "idle"
  BY <1>7, <1>g DEF ClaimGrowsStale
<1>8. ASSUME NEW q \in Recipient, NEW n, NEW s, DeliveryReport(q, n, s)
      PROVE  status'[r] = "none" /\ \A v \in Replica : step'[<<v, r>>] = "idle"
  BY <1>8, <1>g DEF DeliveryReport
<1>9. CASE UNCHANGED vars
  BY <1>9, <1>g DEF vars
<1> QED BY <1>1, <1>2, <1>3, <1>4, <1>5, <1>6, <1>7, <1>8, <1>9 DEF Next, Loop

LEMMA TokenStep ==
  ASSUME TypeOK, TypeOK', Posted, TokenInv, [Next]_vars
  PROVE  TokenInv'
<1> SUFFICES ASSUME NEW r \in Recipient
             PROVE  Tokens(r)' <= 1 + reclaims'[r]
  BY DEF TokenInv
<1>0. Tokens(r) <= 1 + reclaims[r]
  BY DEF TokenInv
<1> USE DEF rowVars, batchVars, tickVars, taskVars, histVars, reportVars
<1>w. Waiting(r) \in Nat
  BY DEF Waiting
<1>1. ASSUME NEW b \in Batch, CreateBatch(b) PROVE Tokens(r)' <= 1 + reclaims'[r]
  <2>1. Holders(r)' = Holders(r)
    BY <1>1 DEF CreateBatch, Holders
  <2>2. CASE BatchOf[r] = b
    <3>1. status[r] = "none" /\ status'[r] = "pending"
      BY <1>1, <2>2 DEF Posted, CreateBatch
    <3> QED BY <1>0, <1>1, <2>1, <3>1, TokensStay DEF CreateBatch, Waiting
  <2>3. CASE BatchOf[r] # b
    <3>1. Waiting(r)' = Waiting(r)
      BY <1>1, <2>3 DEF CreateBatch, Waiting
    <3> QED BY <1>0, <1>1, <1>w, <2>1, <3>1, TokensStay DEF CreateBatch
  <2> QED BY <2>2, <2>3
<1>2. ASSUME NEW w \in Replica, Tick(w) PROVE Tokens(r)' <= 1 + reclaims'[r]
  BY <1>0, <1>2, TokenTick
<1>3. ASSUME NEW w \in Replica, List(w) PROVE Tokens(r)' <= 1 + reclaims'[r]
  <2>1. Holders(r)' \subseteq Holders(r)
    <3>1. \A v \in Replica : step'[<<v, r>>] \in {"queued", step[<<v, r>>]}
      BY <1>3 DEF List, Task
    <3> QED BY <3>1 DEF Holders
  <2>2. Waiting(r)' = Waiting(r) /\ handed' = handed /\ reclaims' = reclaims
    BY <1>3 DEF List, Waiting
  <2> QED BY <1>0, <1>w, <2>1, <2>2, TokensStay
<1>4. ASSUME NEW w \in Replica, EndRound(w) \/ ListFails(w) PROVE Tokens(r)' <= 1 + reclaims'[r]
  <2>1. Holders(r)' = Holders(r) /\ Waiting(r)' = Waiting(r)
    BY <1>4 DEF EndRound, ListFails, Holders, Waiting
  <2>2. handed' = handed /\ reclaims' = reclaims
    BY <1>4 DEF EndRound, ListFails
  <2> QED BY <1>0, <1>w, <2>1, <2>2, TokensStay
<1>5. ASSUME NEW w \in Replica, Crash(w) PROVE Tokens(r)' <= 1 + reclaims'[r]
  <2>1. Holders(r)' \subseteq Holders(r) /\ Waiting(r)' = Waiting(r)
    BY <1>5 DEF Crash, Holders, Task, Waiting
  <2> QED BY <1>0, <1>5, <1>w, <2>1, TokensStay DEF Crash
<1>6. ASSUME NEW w \in Replica, NEW q \in Recipient, ProcessRecipient(w, q)
      PROVE  Tokens(r)' <= 1 + reclaims'[r]
  BY <1>0, <1>6, TokenProcess
<1>7. ASSUME NEW q \in Recipient, ClaimGrowsStale(q) PROVE Tokens(r)' <= 1 + reclaims'[r]
  <2>1. Holders(r)' = Holders(r) /\ Waiting(r)' = Waiting(r)
    BY <1>7 DEF ClaimGrowsStale, Holders, Waiting
  <2> QED BY <1>0, <1>7, <1>w, <2>1, TokensStay DEF ClaimGrowsStale
<1>8. ASSUME NEW q \in Recipient, NEW n, NEW s, DeliveryReport(q, n, s)
      PROVE  Tokens(r)' <= 1 + reclaims'[r]
  <2>1. Holders(r)' = Holders(r) /\ Waiting(r)' = Waiting(r)
    BY <1>8 DEF DeliveryReport, Holders, Waiting
  <2> QED BY <1>0, <1>8, <1>w, <2>1, TokensStay DEF DeliveryReport
<1>9. CASE UNCHANGED vars
  <2>1. Holders(r)' = Holders(r) /\ Waiting(r)' = Waiting(r)
    BY <1>9 DEF vars, Holders, Waiting
  <2> QED BY <1>0, <1>9, <1>w, <2>1, TokensStay DEF vars
<1> QED BY <1>1, <1>2, <1>3, <1>4, <1>5, <1>6, <1>7, <1>8, <1>9 DEF Next, Loop

LEMMA InitToken == Init => TokenInv /\ Posted
<1> SUFFICES ASSUME Init PROVE TokenInv /\ Posted
  OBVIOUS
<1>1. ASSUME NEW r \in Recipient PROVE Holders(r) = {} /\ Tokens(r) <= 1 + reclaims[r]
  <2>1. Holders(r) = {}
    BY DEF Init, Holders, Task
  <2>2. handed[r] = 0 /\ reclaims[r] = 0 /\ Waiting(r) = 1
    BY DEF Init, Waiting
  <2> QED BY <2>1, <2>2, FS_EmptySet DEF Tokens
<1> QED BY <1>1, SetsAssumption DEF TokenInv, Posted, Init, Task

(* However replicas race, crash, lose replies or run slow, a recipient's   *)
(* message is handed to the provider at most once more often than its      *)
(* claim was swept back to pending: without a sweep there is no second     *)
(* copy.  The claim UPDATE's status predicate is what this rests on.       *)
THEOREM DoubleSendGuard == SafeSpec => []HandedOncePerClaim
<1>1. Init => TypeOK /\ TokenInv /\ Posted
  BY InitType, InitToken
<1>2. TypeOK /\ TokenInv /\ Posted /\ [Next]_vars => (TypeOK /\ TokenInv /\ Posted)'
  BY NextType, TokenStep, PostedStep
<1>3. TypeOK /\ TokenInv => HandedOncePerClaim
  <2> SUFFICES ASSUME TypeOK, TokenInv, NEW r \in Recipient
               PROVE  handed[r] <= 1 + reclaims[r]
    BY DEF HandedOncePerClaim
  <2>1. Tokens(r) <= 1 + reclaims[r] /\ handed[r] \in Nat /\ reclaims[r] \in Nat
    BY DEF TypeOK, TokenInv
  <2> QED BY <2>1, HoldersFinite DEF Tokens, Waiting
<1> QED BY <1>1, <1>2, <1>3, PTL DEF SafeSpec

-----------------------------------------------------------------------------
(* What a recipient's row links to.  From Prepare to the link a replica    *)
(* has a message row of its own, to which no other replica writes, and     *)
(* which is not linked to before its own outcome is on it.  The provider's *)
(* reports write only rows it took: never the row of a refused attempt,    *)
(* and on a row it took a bad status is one it reported.                   *)
Unlinked == {"send", "recordSent", "recordRefused"}
Reporting == Unlinked \cup {"linkSent", "linkFailed"}

Truthful(r, n) == thread[r][n] \in NotDelivered => n \in bounced[r]

Reports(w, r) ==
  LET t == <<w, r>> IN
  /\ step[t] \in Reporting => row[t] \in 1..Len(thread[r])
  /\ step[t] \in Unlinked => link[r] # row[t]
  /\ step[t] \in {"send", "recordSent", "linkSent"} => Truthful(r, row[t])
  /\ step[t] = "linkFailed" => thread[r][row[t]] = "failed"
  /\ step[t] \in {"send", "recordRefused", "linkFailed"} => row[t] \notin tracked[r]

RowsApart(r) ==
  \A v, w \in Replica :
    /\ step[<<v, r>>] \in Reporting /\ step[<<w, r>>] \in Reporting
    /\ row[<<v, r>>] = row[<<w, r>>]
    => v = w

Linked(r) ==
  /\ link[r] \in 0..Len(thread[r])
  /\ tracked[r] \subseteq 1..Len(thread[r])
  /\ status[r] = "sent" => link[r] # 0 /\ Truthful(r, link[r])
  /\ status[r] = "failed" /\ link[r] # 0 =>
       thread[r][link[r]] = "failed" /\ link[r] \notin tracked[r]

ReportInv(r) == Linked(r) /\ RowsApart(r) /\ \A w \in Replica : Reports(w, r)

ReportsInv == \A r \in Recipient : ReportInv(r)

-----------------------------------------------------------------------------
(* The ledger is kept while nothing has thrown and no claim was swept, or, *)
(* with one replica, while no reply is lost.                               *)
Lone == \A v, w \in Replica : v = w
Calm == faults = 0 /\ \A r \in Recipient : reclaims[r] = 0
Orderly == Calm \/ (Lone /\ ~LostReplies)

(* Then one replica at most is at a recipient, and what it does next says  *)
(* whether the recipient is settled.                                       *)
Settling == {"prepare", "send", "recordSent", "recordRefused", "linkSent", "linkFailed", "rejectStatus"}
Tallying == {"count", "rejectCount", "failCount"}

Alone(r) ==
  \A v, w \in Replica :
    step[<<v, r>>] \notin {"idle", "queued"} /\ step[<<w, r>>] \notin {"idle", "queued"} => v = w

Placed(w, r) ==
  LET s == step[<<w, r>>] IN
  /\ s \in Settling => status[r] = "sending"
  /\ s = "count" => status[r] \in Resolved
  /\ s \in {"rejectCount", "failCount"} => status[r] = "failed"
  /\ s = "failStatus" => status[r] \in {"pending", "sending", "failed"} /\ ~Calm
  /\ s = "queued" /\ Lone => status[r] = "pending"

(* What is settled and not about to be counted bounds the batch's count.   *)
Counted(b) ==
  {r \in Members(b) : status[r] \in Resolved /\
     \A w \in Replica : step[<<w, r>>] \notin Tallying \cup {"failStatus"}}

Tallied(b) ==
  /\ completed[b] <= Cardinality(Counted(b))
  /\ batchStatus[b] = "completed" => completed[b] >= Cardinality(Members(b))

OrderInv ==
  Orderly =>
    /\ \A r \in Recipient : Alone(r) /\ \A w \in Replica : Placed(w, r)
    /\ \A b \in Batch : Tallied(b)

(* No row is listed or processed outside a drain.                          *)
Resting ==
  \A w \in Replica, r \in Recipient : phase[w] \in {"off", "listing"} => step[<<w, r>>] = "idle"

IInv == TypeOK /\ TokenInv /\ Posted /\ Resting /\ ReportsInv /\ OrderInv

-----------------------------------------------------------------------------
(* One processRecipient call changes nothing of another recipient, nor of  *)
(* another replica's call.                                                 *)
LEMMA ProcessOthers ==
  ASSUME TypeOK, NEW w \in Replica, NEW q \in Recipient, ProcessRecipient(w, q)
  PROVE  /\ \A v \in Replica, r \in Recipient : <<v, r>> # <<w, q>> =>
              step'[<<v, r>>] = step[<<v, r>>] /\ row'[<<v, r>>] = row[<<v, r>>]
         /\ \A r \in Recipient : r # q =>
              /\ status'[r] = status[r] /\ link'[r] = link[r] /\ thread'[r] = thread[r]
              /\ tracked'[r] = tracked[r] /\ bounced'[r] = bounced[r]
<1>1. /\ step \in [Task -> Steps] /\ row \in [Task -> Nat]
      /\ status \in [Recipient -> {"none", "pending", "sending"} \cup Resolved]
      /\ link \in [Recipient -> Nat]
      /\ thread \in [Recipient -> Seq(DeliveryStatus)]
      /\ tracked \in [Recipient -> SUBSET Nat]
  BY DEF TypeOK
<1>2. step' = step \/ \E s : step' = [step EXCEPT ![<<w, q>>] = s]
  BY DEF ProcessRecipient, Claim, Prepare, Send, RecordSent, RecordRefused,
         LinkOutcome, Count, FailStatus, FailCount, Goto, RetryOr
<1>3. row' = row \/ \E n : row' = [row EXCEPT ![<<w, q>>] = n]
  BY DEF ProcessRecipient, Claim, Prepare, Send, RecordSent, RecordRefused,
         LinkOutcome, Count, FailStatus, FailCount
<1>4. status' = status \/ \E s : status' = [status EXCEPT ![q] = s]
  BY DEF ProcessRecipient, Claim, Prepare, Send, RecordSent, RecordRefused,
         LinkOutcome, Count, FailStatus, FailCount, SetRecipient, rowVars
<1>5. link' = link \/ \E n : link' = [link EXCEPT ![q] = n]
  BY DEF ProcessRecipient, Claim, Prepare, Send, RecordSent, RecordRefused,
         LinkOutcome, Count, FailStatus, FailCount, SetRecipient, rowVars
<1>6. thread' = thread \/ \E x : thread' = [thread EXCEPT ![q] = x]
  BY DEF ProcessRecipient, Claim, Prepare, Send, RecordSent, RecordRefused,
         LinkOutcome, Count, FailStatus, FailCount, rowVars
<1>7. \A v \in Replica, r \in Recipient : <<v, r>> # <<w, q>> =>
        step'[<<v, r>>] = step[<<v, r>>] /\ row'[<<v, r>>] = row[<<v, r>>]
  BY <1>1, <1>2, <1>3 DEF Task
<1>8. bounced' = bounced /\ (tracked' = tracked \/ \E x : tracked' = [tracked EXCEPT ![q] = x])
  BY DEF ProcessRecipient, Claim, Prepare, Send, RecordSent, RecordRefused,
         LinkOutcome, Count, FailStatus, FailCount, reportVars
<1>9. \A r \in Recipient : r # q =>
        /\ status'[r] = status[r] /\ link'[r] = link[r] /\ thread'[r] = thread[r]
        /\ tracked'[r] = tracked[r] /\ bounced'[r] = bounced[r]
  BY <1>1, <1>4, <1>5, <1>6, <1>8
<1> QED BY <1>7, <1>9

LEMMA ThreadIs ==
  ASSUME TypeOK, NEW r \in Recipient
  PROVE  thread[r] \in Seq(DeliveryStatus) /\ Len(thread[r]) \in Nat
BY DEF TypeOK

(* What a write to, and an append to, a sequence makes of it.              *)
LEMMA WriteIs ==
  ASSUME NEW S, NEW q \in Seq(S), NEW i \in 1..Len(q), NEW e, NEW y, y = [q EXCEPT ![i] = e]
  PROVE  /\ Len(y) = Len(q) /\ y[i] = e
         /\ \A j \in 1..Len(q) : j # i => y[j] = q[j]
OBVIOUS

LEMMA AppendIs ==
  ASSUME NEW S, NEW q \in Seq(S), NEW e \in S
  PROVE  /\ Len(Append(q, e)) = Len(q) + 1
         /\ Append(q, e)[Len(q) + 1] = e
         /\ \A j \in 1..Len(q) : Append(q, e)[j] = q[j]
OBVIOUS

(* The steps that write no message row and no link: no outcome is reported *)
(* of r, and nobody begins to report one.                                  *)
LEMMA ReportStays ==
  ASSUME TypeOK, NEW r \in Recipient, ReportInv(r),
         status'[r] = status[r] \/ status'[r] \in {"none", "pending", "sending"},
         link'[r] = link[r], thread'[r] = thread[r],
         tracked'[r] = tracked[r], bounced'[r] = bounced[r],
         \A v \in Replica : \/ step'[<<v, r>>] \notin Reporting
                            \/ step'[<<v, r>>] = step[<<v, r>>] /\ row'[<<v, r>>] = row[<<v, r>>]
  PROVE  ReportInv(r)'
<1>1. Linked(r)'
  BY DEF ReportInv, Linked, Truthful
<1>2. RowsApart(r)'
  BY DEF ReportInv, RowsApart
<1>3. ASSUME NEW v \in Replica PROVE Reports(v, r)'
  <2>1. Reports(v, r)
    BY DEF ReportInv
  <2>2. CASE step'[<<v, r>>] \notin Reporting
    BY <2>2 DEF Reports, Reporting, Unlinked
  <2>3. CASE step'[<<v, r>>] = step[<<v, r>>] /\ row'[<<v, r>>] = row[<<v, r>>]
    BY <2>1, <2>3 DEF Reports, Truthful
  <2> QED BY <2>2, <2>3
<1> QED BY <1>1, <1>2, <1>3 DEF ReportInv

(* A replica that reports of r moves on, its message row the one it had.   *)
LEMMA ReportMoves ==
  ASSUME TypeOK, NEW w \in Replica, NEW r \in Recipient, ReportInv(r),
         step[<<w, r>>] \in Reporting, row' = row,
         \A v \in Replica : v # w => step'[<<v, r>>] = step[<<v, r>>],
         Len(thread'[r]) = Len(thread[r]),
         \A i \in 1..Len(thread[r]) : i # row[<<w, r>>] => thread'[r][i] = thread[r][i],
         link'[r] \in {0, link[r], row[<<w, r>>]},
         tracked'[r] \subseteq tracked[r] \cup {row[<<w, r>>]}, bounced'[r] = bounced[r],
         Linked(r)', Reports(w, r)'
  PROVE  ReportInv(r)'
<1>1. RowsApart(r)'
  BY DEF ReportInv, RowsApart
<1>2. ASSUME NEW v \in Replica PROVE Reports(v, r)'
  <2>1. Reports(v, r) /\ Reports(w, r) /\ RowsApart(r)
    BY DEF ReportInv
  <2>2. CASE v # w /\ step[<<v, r>>] \in Reporting
    <3>1. row[<<v, r>>] # row[<<w, r>>] /\ row[<<v, r>>] \in 1..Len(thread[r])
      BY <2>1, <2>2 DEF RowsApart, Reports
    <3>2. step'[<<v, r>>] = step[<<v, r>>] /\ thread'[r][row[<<v, r>>]] = thread[r][row[<<v, r>>]]
      BY <2>2, <3>1
    <3>3. step[<<v, r>>] \in Unlinked => link'[r] # row[<<v, r>>]
      BY <2>1, <3>1 DEF Reports
    <3> QED BY <2>1, <3>1, <3>2, <3>3 DEF Reports, Truthful
  <2>3. CASE v # w /\ step[<<v, r>>] \notin Reporting
    <3>1. step'[<<v, r>>] \notin Reporting
      BY <2>3
    <3> QED BY <3>1 DEF Reports, Reporting, Unlinked
  <2> QED BY <2>2, <2>3
<1> QED BY <1>1, <1>2 DEF ReportInv

LEMMA ReportPrepare ==
  ASSUME TypeOK, NEW w \in Replica, NEW r \in Recipient, ReportInv(r), Prepare(w, r)
  PROVE  ReportInv(r)'
<1> DEFINE t == <<w, r>>
<1> PICK o \in Replies : Prepare(w, r)!(o)
  BY DEF Prepare
<1>t. t \in Task /\ step \in [Task -> Steps] /\ row \in [Task -> Nat]
  BY DEF Task, TypeOK
<1>o. \A v \in Replica : v # w => step'[<<v, r>>] = step[<<v, r>>] /\ row'[<<v, r>>] = row[<<v, r>>]
  BY ProcessOthers DEF ProcessRecipient, Prepare
<1>1. status' = status /\ link' = link /\ tracked' = tracked /\ bounced' = bounced
  BY DEF rowVars, reportVars
<1>2. CASE ~(Committed(o) /\ r \notin Unsendable)
  <2>1. thread' = thread /\ step'[t] \notin Reporting
    BY <1>t, <1>2 DEF Goto, Committed, Reporting, Unlinked
  <2> QED BY <1>1, <1>o, <2>1, ReportStays
<1>3. CASE Committed(o) /\ r \notin Unsendable
  <2> DEFINE n == Len(thread[r]) + 1
  <2>1. thread'[r] = Append(thread[r], "queued") /\ row'[t] = n
    BY <1>t, <1>3 DEF TypeOK
  <2>2. /\ Len(thread'[r]) = n /\ thread'[r][n] = "queued" /\ Len(thread[r]) \in Nat
        /\ \A i \in 1..Len(thread[r]) : thread'[r][i] = thread[r][i]
    BY <2>1, ThreadIs, AppendIs
  <2>3. step'[t] \in {"send", "failStatus"}
    BY <1>t, <1>3 DEF Goto
  <2> HIDE DEF n
  <2>n. n = Len(thread[r]) + 1
    BY DEF n
  <2>4. Linked(r) /\ RowsApart(r) /\ \A v \in Replica : Reports(v, r)
    BY DEF ReportInv
  <2>5. Linked(r)'
    <3>1. link[r] \in 0..n /\ link[r] # n /\ (link[r] # 0 => link[r] \in 1..Len(thread[r]))
      BY <2>2, <2>4, <2>n DEF Linked
    <3>2. link[r] # 0 => thread'[r][link[r]] = thread[r][link[r]]
      BY <2>2, <3>1
    <3>3. tracked'[r] \subseteq 1..n
      BY <1>1, <2>2, <2>4, <2>n DEF Linked
    <3> QED BY <1>1, <2>2, <2>4, <3>1, <3>2, <3>3 DEF Linked, Truthful
  <2>6. \A v \in Replica : v # w /\ step'[<<v, r>>] \in Reporting =>
          /\ step[<<v, r>>] \in Reporting /\ row'[<<v, r>>] = row[<<v, r>>]
          /\ row[<<v, r>>] \in 1..Len(thread[r]) /\ row[<<v, r>>] # n
    BY <1>o, <2>2, <2>4, <2>n DEF Reports
  <2>7. RowsApart(r)'
    BY <2>1, <2>4, <2>6 DEF RowsApart
  <2>8. ASSUME NEW v \in Replica PROVE Reports(v, r)'
    <3>1. CASE v = w
      <4>1. n \in 1..Len(thread'[r]) /\ link'[r] # n /\ n \notin tracked'[r]
        BY <1>1, <2>2, <2>4, <2>n DEF Linked
      <4> QED BY <2>1, <2>2, <2>3, <3>1, <4>1 DEF Reports, Reporting, Unlinked, Truthful,
                                                  NotDelivered
    <3>2. CASE v # w /\ step'[<<v, r>>] \in Reporting
      <4>1. row[<<v, r>>] \in 1..Len(thread'[r]) /\ step'[<<v, r>>] = step[<<v, r>>]
        BY <1>o, <2>2, <2>6, <2>n, <3>2
      <4>2. thread'[r][row[<<v, r>>]] = thread[r][row[<<v, r>>]] /\ row'[<<v, r>>] = row[<<v, r>>]
        BY <2>2, <2>6, <3>2
      <4>3. Reports(v, r)
        BY <2>4
      <4> QED BY <1>1, <4>1, <4>2, <4>3 DEF Reports, Truthful
    <3>3. CASE step'[<<v, r>>] \notin Reporting
      BY <3>3 DEF Reports, Reporting, Unlinked
    <3> QED BY <3>1, <3>2, <3>3
  <2> QED BY <2>5, <2>7, <2>8 DEF ReportInv
<1> QED BY <1>2, <1>3

LEMMA ReportSend ==
  ASSUME TypeOK, NEW w \in Replica, NEW r \in Recipient, ReportInv(r), Send(w, r)
  PROVE  ReportInv(r)'
<1> DEFINE t == <<w, r>>
<1>t. t \in Task /\ step \in [Task -> Steps]
  BY DEF Task, TypeOK
<1>o. \A v \in Replica : v # w => step'[<<v, r>>] = step[<<v, r>>]
  BY ProcessOthers DEF ProcessRecipient
<1>1. /\ status' = status /\ link' = link /\ thread' = thread /\ row' = row
      /\ tracked' = tracked /\ bounced' = bounced
      /\ step[t] = "send" /\ step'[t] \in {"recordSent", "recordRefused"}
  BY <1>t DEF Send, rowVars, reportVars, Goto
<1>2. Linked(r) /\ Reports(w, r)
  BY DEF ReportInv
<1>3. Linked(r)' /\ Reports(w, r)'
  BY <1>1, <1>2 DEF Linked, Reports, Reporting, Unlinked, Truthful
<1> QED BY <1>o, <1>1, <1>3, ReportMoves DEF Reporting, Unlinked

(* Both outcomes of a dispatch are written to its own message row.         *)
LEMMA ReportRecord ==
  ASSUME TypeOK, NEW w \in Replica, NEW r \in Recipient, ReportInv(r),
         RecordSent(w, r) \/ RecordRefused(w, r)
  PROVE  ReportInv(r)'
<1> DEFINE t == <<w, r>>  n == row[t]
<1>t. t \in Task /\ step \in [Task -> Steps]
  BY DEF Task, TypeOK
<1>o. \A v \in Replica : v # w => step'[<<v, r>>] = step[<<v, r>>]
  BY ProcessOthers DEF ProcessRecipient
<1>1. status' = status /\ link' = link /\ row' = row /\ bounced' = bounced
  BY DEF RecordSent, RecordRefused, rowVars, reportVars
<1>2. Linked(r) /\ Reports(w, r) /\ step[t] \in Unlinked
  BY DEF ReportInv, RecordSent, RecordRefused, Unlinked
<1>3. n \in 1..Len(thread[r]) /\ link[r] # n /\ Len(thread[r]) \in Nat
  BY <1>2, ThreadIs DEF Reports, Reporting
<1>4. \/ thread'[r] = thread[r]
      \/ thread'[r] = [thread[r] EXCEPT ![n] = "sent"] /\ step[t] = "recordSent"
      \/ thread'[r] = [thread[r] EXCEPT ![n] = "failed"] /\ step[t] = "recordRefused"
  BY DEF RecordSent, RecordRefused, TypeOK
<1>k. /\ tracked'[r] \subseteq tracked[r] \cup {n}
      /\ step[t] = "recordRefused" => tracked'[r] = tracked[r]
  BY DEF RecordSent, RecordRefused, TypeOK, reportVars
<1>w. ASSUME NEW x, thread'[r] = [thread[r] EXCEPT ![n] = x]
      PROVE  /\ Len(thread'[r]) = Len(thread[r]) /\ thread'[r][n] = x
             /\ \A i \in 1..Len(thread[r]) : i # n => thread'[r][i] = thread[r][i]
  <2>1. thread[r] \in Seq(DeliveryStatus) /\ n \in 1..Len(thread[r])
    BY <1>3, ThreadIs
  <2> HIDE DEF n
  <2> QED BY <1>w, <2>1, WriteIs
<1>5. /\ Len(thread'[r]) = Len(thread[r])
      /\ \A i \in 1..Len(thread[r]) : i # n => thread'[r][i] = thread[r][i]
      /\ thread'[r] # thread[r] => thread'[r][n] = IF step[t] = "recordSent" THEN "sent" ELSE "failed"
  <2> HIDE DEF n
  <2>1. CASE thread'[r] = thread[r]
    BY <2>1
  <2>2. CASE thread'[r] = [thread[r] EXCEPT ![n] = "sent"] /\ step[t] = "recordSent"
    BY <1>w, <2>2
  <2>3. CASE thread'[r] = [thread[r] EXCEPT ![n] = "failed"] /\ step[t] = "recordRefused"
    BY <1>w, <2>3
  <2> QED BY <1>4, <2>1, <2>2, <2>3
<1>6. Linked(r)'
  <2>1. link[r] # 0 => thread'[r][link[r]] = thread[r][link[r]]
    BY <1>2, <1>3, <1>5 DEF Linked
  <2>2. tracked'[r] \subseteq 1..Len(thread'[r]) /\ (link[r] \in tracked'[r] => link[r] \in tracked[r])
    BY <1>2, <1>3, <1>5, <1>k DEF Linked
  <2> HIDE DEF n
  <2> QED BY <1>1, <1>2, <1>5, <2>1, <2>2 DEF Linked, Truthful
<1>7. Reports(w, r)'
  <2>1. CASE RecordSent(w, r)
    <3>1. step[t] = "recordSent" /\ step'[t] \in {"recordSent", "linkSent"}
      BY <1>t, <2>1 DEF RecordSent, RetryOr, Goto
    <3>2. thread'[r][n] \in NotDelivered => n \in bounced'[r]
      BY <1>1, <1>2, <1>5, <3>1 DEF Reports, Truthful, NotDelivered
    <3> QED BY <1>1, <1>3, <1>5, <3>1, <3>2 DEF Reports, Reporting, Unlinked, Truthful
  <2>2. CASE RecordRefused(w, r)
    <3> PICK o \in Replies : RecordRefused(w, r)!(o)
      BY <2>2 DEF RecordRefused
    <3>1. step'[t] = IF o = "ok" THEN "linkFailed" ELSE "failStatus"
      BY <1>t DEF Goto
    <3>2. o = "ok" => thread'[r][n] = "failed"
      <4>1. o = "ok" => thread'[r] = [thread[r] EXCEPT ![n] = "failed"]
        BY DEF Committed, TypeOK
      <4> HIDE DEF n
      <4> QED BY <1>w, <4>1
    <3>3. step[t] = "recordRefused" /\ n \notin tracked'[r]
      BY <1>2, <1>k, <2>2 DEF RecordRefused, Reports
    <3> QED BY <1>1, <1>3, <1>5, <3>1, <3>2, <3>3 DEF Reports, Reporting, Unlinked
  <2> QED BY <2>1, <2>2
<1>8. step[t] \in Reporting /\ link'[r] \in {0, link[r], row[t]}
  BY <1>1, <1>2 DEF Reporting
<1> HIDE DEF n
<1>n. n = row[t]
  BY DEF n
<1> QED BY <1>o, <1>1, <1>5, <1>6, <1>7, <1>8, <1>k, <1>n, ReportMoves

LEMMA ReportLink ==
  ASSUME TypeOK, NEW w \in Replica, NEW r \in Recipient, ReportInv(r), LinkOutcome(w, r)
  PROVE  ReportInv(r)'
<1> DEFINE t == <<w, r>>
<1> PICK o \in Replies : LinkOutcome(w, r)!(o)
  BY DEF LinkOutcome
<1>t. t \in Task /\ step \in [Task -> Steps]
  BY DEF Task, TypeOK
<1>o. \A v \in Replica : v # w => step'[<<v, r>>] = step[<<v, r>>]
  BY ProcessOthers DEF ProcessRecipient, LinkOutcome
<1>1. /\ thread' = thread /\ row' = row /\ step[t] \in {"linkSent", "linkFailed"}
      /\ tracked' = tracked /\ bounced' = bounced
  BY DEF reportVars
<1>2. Linked(r) /\ Reports(w, r)
  BY DEF ReportInv
<1>3. step'[t] = step[t] \/ step'[t] \in {"count", "idle"}
  BY <1>t DEF RetryOr, Goto, AfterDispatch
<1>4. \/ status'[r] = status[r] /\ link'[r] = link[r]
      \/ /\ status'[r] = IF step[t] = "linkSent" THEN "sent" ELSE "failed"
         /\ link'[r] = row[t]
  BY DEF SetRecipient, rowVars, TypeOK
<1>5. Linked(r)'
  <2>1. row[t] \in 1..Len(thread[r]) /\ Len(thread[r]) \in Nat
    BY <1>1, <1>2, ThreadIs DEF Reports, Reporting
  <2>2. row[t] \in 0..Len(thread[r]) /\ row[t] # 0
    BY <2>1
  <2> QED BY <1>1, <1>2, <1>4, <2>2 DEF Linked, Reports, Truthful
<1>6. Reports(w, r)'
  BY <1>1, <1>2, <1>3 DEF Reports, Reporting, Unlinked, Truthful
<1> QED BY <1>o, <1>1, <1>4, <1>5, <1>6, ReportMoves DEF Reporting, Unlinked

(* failRecipient unlinks: it has no message row to tell of.                *)
LEMMA ReportFail ==
  ASSUME TypeOK, NEW w \in Replica, NEW r \in Recipient, ReportInv(r), FailStatus(w, r)
  PROVE  ReportInv(r)'
<1> DEFINE t == <<w, r>>
<1> PICK o \in Replies : FailStatus(w, r)!(o)
  BY DEF FailStatus
<1>t. t \in Task /\ step \in [Task -> Steps]
  BY DEF Task, TypeOK
<1>o. \A v \in Replica : v # w => step'[<<v, r>>] = step[<<v, r>>] /\ row'[<<v, r>>] = row[<<v, r>>]
  BY ProcessOthers DEF ProcessRecipient, FailStatus
<1>1. /\ thread' = thread /\ row' = row /\ step'[t] \notin Reporting
      /\ tracked' = tracked /\ bounced' = bounced
  BY <1>t DEF Goto, AfterThrow, Reporting, Unlinked, reportVars
<1>2. \/ status'[r] = status[r] /\ link'[r] = link[r]
      \/ status'[r] = "failed" /\ link'[r] = 0
  BY DEF SetRecipient, rowVars, TypeOK
<1>3. Linked(r) /\ Len(thread[r]) \in Nat /\ \A v \in Replica : Reports(v, r)
  BY ThreadIs DEF ReportInv
<1>4. Linked(r)'
  BY <1>1, <1>2, <1>3 DEF Linked, Truthful
<1>5. RowsApart(r)'
  BY <1>o, <1>1 DEF ReportInv, RowsApart
<1>6. ASSUME NEW v \in Replica PROVE Reports(v, r)'
  <2>1. CASE step'[<<v, r>>] \notin Reporting
    BY <2>1 DEF Reports, Reporting, Unlinked
  <2>2. CASE step'[<<v, r>>] \in Reporting
    <3>1. v # w /\ step'[<<v, r>>] = step[<<v, r>>] /\ row[<<v, r>>] \in 1..Len(thread[r])
      BY <1>o, <1>1, <1>3, <2>2 DEF Reports
    <3>2. row[<<v, r>>] # 0
      BY <3>1
    <3> QED BY <1>1, <1>2, <1>3, <3>1, <3>2 DEF Reports, Truthful
  <2> QED BY <2>1, <2>2
<1> QED BY <1>4, <1>5, <1>6 DEF ReportInv

(* A report writes a row the provider took, and remembers a bad one: the   *)
(* rows of refused attempts, and of those not yet answered, are not such.  *)
LEMMA ReportReport ==
  ASSUME TypeOK, NEW q \in Recipient, NEW n \in tracked[q], NEW s \in ReportsOf[q],
         DeliveryReport(q, n, s), NEW r \in Recipient, ReportInv(r)
  PROVE  ReportInv(r)'
<1>1. /\ status' = status /\ link' = link /\ tracked' = tracked /\ step' = step /\ row' = row
      /\ thread' = [thread EXCEPT ![q][n] = s]
      /\ bounced' = IF s \in NotDelivered THEN [bounced EXCEPT ![q] = @ \cup {n}] ELSE bounced
  BY DEF DeliveryReport, rowVars, taskVars
<1>2. Linked(r) /\ RowsApart(r) /\ \A v \in Replica : Reports(v, r)
  BY DEF ReportInv
<1>3. CASE r # q
  <2>1. thread'[r] = thread[r] /\ bounced'[r] = bounced[r]
    BY <1>1, <1>3 DEF TypeOK
  <2> QED BY <1>1, <2>1, ReportStays
<1>4. CASE r = q
  <2>1. thread'[r] = [thread[r] EXCEPT ![n] = s]
    BY <1>1, <1>4 DEF TypeOK
  <2>2. n \in 1..Len(thread[r]) /\ thread[r] \in Seq(DeliveryStatus)
    BY <1>2, <1>4, ThreadIs DEF Linked
  <2>3. /\ Len(thread'[r]) = Len(thread[r]) /\ thread'[r][n] = s
        /\ \A i \in 1..Len(thread[r]) : i # n => thread'[r][i] = thread[r][i]
    BY <2>1, <2>2, WriteIs
  <2>4. bounced[r] \subseteq bounced'[r] /\ (s \in NotDelivered => n \in bounced'[r])
    BY <1>1, <1>4 DEF TypeOK
  <2>5. \A i \in 1..Len(thread[r]) : Truthful(r, i) => Truthful(r, i)'
    BY <2>3, <2>4 DEF Truthful
  <2>6. Linked(r)'
    <3>1. link[r] # 0 => link[r] \in 1..Len(thread[r])
      BY <1>2, ThreadIs DEF Linked
    <3> QED BY <1>1, <1>2, <1>4, <2>3, <2>5, <3>1 DEF Linked, Truthful
  <2>7. RowsApart(r)'
    BY <1>1, <1>2 DEF RowsApart
  <2>8. ASSUME NEW v \in Replica PROVE Reports(v, r)'
    <3>1. Reports(v, r)
      BY <1>2
    <3>2. CASE step[<<v, r>>] \in Reporting
      <4>1. row[<<v, r>>] \in 1..Len(thread[r])
        BY <3>1, <3>2 DEF Reports
      <4>2. Truthful(r, row[<<v, r>>]) => Truthful(r, row[<<v, r>>])'
        BY <1>1, <2>5, <4>1 DEF Truthful
      <4> QED BY <1>1, <1>4, <2>3, <3>1, <4>1, <4>2 DEF Reports
    <3>3. CASE step[<<v, r>>] \notin Reporting
      BY <1>1, <3>3 DEF Reports, Reporting, Unlinked
    <3> QED BY <3>2, <3>3
  <2> QED BY <2>6, <2>7, <2>8 DEF ReportInv
<1> QED BY <1>3, <1>4

LEMMA ReportProcess ==
  ASSUME TypeOK, NEW w \in Replica, NEW q \in Recipient, ProcessRecipient(w, q),
         NEW r \in Recipient, ReportInv(r)
  PROVE  ReportInv(r)'
<1>t. <<w, q>> \in Task /\ step \in [Task -> Steps]
  BY DEF Task, TypeOK
<1>1. CASE r # q
  <2>1. \A v \in Replica : step'[<<v, r>>] = step[<<v, r>>] /\ row'[<<v, r>>] = row[<<v, r>>]
    BY <1>1, ProcessOthers
  <2> QED BY <1>1, <2>1, ProcessOthers, ReportStays
<1>2. CASE r = q /\ (Prepare(w, q) \/ Send(w, q) \/ RecordSent(w, q) \/ RecordRefused(w, q)
                       \/ LinkOutcome(w, q) \/ FailStatus(w, q))
  BY <1>2, ReportPrepare, ReportSend, ReportRecord, ReportLink, ReportFail
<1>3. CASE r = q /\ (Claim(w, q) \/ Count(w, q) \/ FailCount(w, q))
  <2>1. \A v \in Replica : v # w => step'[<<v, r>>] = step[<<v, r>>] /\ row'[<<v, r>>] = row[<<v, r>>]
    BY <1>3, ProcessOthers
  <2>2. step'[<<w, q>>] \notin Reporting
    BY <1>t, <1>3 DEF Claim, Count, FailCount, Goto, RetryOr, AfterThrow, AfterDispatch,
                     Reporting, Unlinked
  <2>3. link' = link /\ thread' = thread /\ tracked' = tracked /\ bounced' = bounced
    BY <1>3 DEF Claim, Count, FailCount, rowVars, reportVars
  <2>4. status'[r] = status[r] \/ status'[r] = "sending"
    BY <1>3 DEF Claim, Count, FailCount, rowVars, TypeOK
  <2> QED BY <1>3, <2>1, <2>2, <2>3, <2>4, ReportStays
<1> QED BY <1>1, <1>2, <1>3 DEF ProcessRecipient

LEMMA ReportStep ==
  ASSUME TypeOK, Posted, ReportsInv, [Next]_vars
  PROVE  ReportsInv'
<1> SUFFICES ASSUME NEW r \in Recipient PROVE ReportInv(r)'
  BY DEF ReportsInv
<1>0. ReportInv(r) /\ step \in [Task -> Steps]
  BY DEF ReportsInv, TypeOK
<1> USE DEF rowVars, batchVars, tickVars, taskVars, histVars, reportVars
<1>1. ASSUME \/ \E b \in Batch : CreateBatch(b)
             \/ \E w \in Replica : Tick(w) \/ EndRound(w) \/ ListFails(w)
             \/ \E q \in Recipient : ClaimGrowsStale(q)
             \/ UNCHANGED vars
      PROVE  ReportInv(r)'
  <2>1. /\ link' = link /\ thread' = thread /\ step' = step /\ row' = row
        /\ tracked' = tracked /\ bounced' = bounced
    BY <1>1 DEF CreateBatch, Tick, EndRound, ListFails, ClaimGrowsStale, vars
  <2>2. status'[r] = status[r] \/ status'[r] = "pending"
    BY <1>1 DEF CreateBatch, Tick, EndRound, ListFails, ClaimGrowsStale, vars
  <2> QED BY <1>0, <2>1, <2>2, ReportStays
<1>2. ASSUME NEW w \in Replica, List(w) \/ Crash(w)
      PROVE  ReportInv(r)'
  <2>1. /\ link' = link /\ thread' = thread /\ status' = status
        /\ tracked' = tracked /\ bounced' = bounced
    BY <1>2 DEF List, Crash
  <2>2. ASSUME NEW v \in Replica
        PROVE  \/ step'[<<v, r>>] \notin Reporting
               \/ step'[<<v, r>>] = step[<<v, r>>] /\ row'[<<v, r>>] = row[<<v, r>>]
    <3>1. <<v, r>> \in Task
      BY DEF Task
    <3> QED BY <1>2, <3>1 DEF List, Crash, Reporting, Unlinked
  <2> QED BY <1>0, <2>1, <2>2, ReportStays
<1>3. ASSUME NEW w \in Replica, NEW q \in Recipient, ProcessRecipient(w, q)
      PROVE  ReportInv(r)'
  BY <1>0, <1>3, ReportProcess
<1>4. ASSUME NEW q \in Recipient, NEW n \in tracked[q], NEW s \in ReportsOf[q],
             DeliveryReport(q, n, s)
      PROVE  ReportInv(r)'
  BY <1>0, <1>4, ReportReport
<1> QED BY <1>1, <1>2, <1>3, <1>4 DEF Next, Loop

-----------------------------------------------------------------------------
LEMMA RestingStep ==
  ASSUME TypeOK, Resting, [Next]_vars
  PROVE  Resting'
<1> SUFFICES ASSUME NEW v \in Replica, NEW r \in Recipient, phase'[v] \in {"off", "listing"}
             PROVE  step'[<<v, r>>] = "idle"
  BY DEF Resting
<1>0. /\ step \in [Task -> Steps] /\ <<v, r>> \in Task
      /\ phase \in [Replica -> {"off", "listing", "draining", "last"}]
  BY DEF TypeOK, Task
<1>g. phase[v] \in {"off", "listing"} => step[<<v, r>>] = "idle"
  BY DEF Resting
<1> USE DEF rowVars, batchVars, tickVars, taskVars, histVars, reportVars
<1>1. ASSUME \/ \E b \in Batch : CreateBatch(b)
             \/ \E q \in Recipient : ClaimGrowsStale(q)
             \/ \E q \in Recipient : \E n \in tracked[q], s \in ReportsOf[q] : DeliveryReport(q, n, s)
             \/ UNCHANGED vars
      PROVE  step'[<<v, r>>] = "idle"
  BY <1>g, <1>1 DEF CreateBatch, ClaimGrowsStale, DeliveryReport, vars
<1>2. ASSUME NEW w \in Replica, Tick(w) \/ EndRound(w) \/ ListFails(w)
      PROVE  step'[<<v, r>>] = "idle"
  <2>1. step' = step
    BY <1>2 DEF Tick, EndRound, ListFails
  <2>2. phase'[v] = phase[v] \/ (v = w /\ (phase[w] \in {"off", "listing"} \/ step[<<v, r>>] = "idle"))
    BY <1>0, <1>2 DEF Tick, EndRound, ListFails
  <2> QED BY <1>g, <2>1, <2>2
<1>3. ASSUME NEW w \in Replica, List(w)
      PROVE  step'[<<v, r>>] = "idle"
  <2> PICK S \in SUBSET {q \in Recipient : status[q] = "pending"} : List(w)!2!(S)
    BY <1>3 DEF List
  <2>1. CASE v = w
    <3>1. S = {}
      BY <1>0, <2>1
    <3>2. phase[v] = "listing"
      BY <1>3, <2>1 DEF List
    <3> QED BY <1>0, <1>g, <3>1, <3>2
  <2>2. CASE v # w
    BY <1>0, <1>g, <2>2
  <2> QED BY <2>1, <2>2
<1>4. ASSUME NEW w \in Replica, Crash(w)
      PROVE  step'[<<v, r>>] = "idle"
  BY <1>0, <1>g, <1>4 DEF Crash
<1>5. ASSUME NEW w \in Replica, NEW q \in Recipient, ProcessRecipient(w, q)
      PROVE  step'[<<v, r>>] = "idle"
  <2>1. step[<<w, q>>] # "idle" /\ phase' = phase
    BY <1>5 DEF ProcessRecipient, Claim, Prepare, Send, RecordSent, RecordRefused,
                LinkOutcome, Count, FailStatus, FailCount
  <2>2. <<v, r>> # <<w, q>>
    BY <1>g, <2>1
  <2> QED BY <1>5, <1>g, <2>1, <2>2, ProcessOthers
<1> QED BY <1>1, <1>2, <1>3, <1>4, <1>5 DEF Next, Loop

-----------------------------------------------------------------------------
(* Faults and sweeps are counted and never forgotten.                      *)
LEMMA BudgetsGrow ==
  ASSUME TypeOK, [Next]_vars
  PROVE  /\ faults' \in {faults, faults + 1}
         /\ \A r \in Recipient : reclaims'[r] \in {reclaims[r], reclaims[r] + 1}
<1> USE DEF rowVars, batchVars, tickVars, taskVars, histVars, reportVars
<1>1. ASSUME NEW w \in Replica, NEW r \in Recipient, ProcessRecipient(w, r)
      PROVE  faults' \in {faults, faults + 1} /\ reclaims' = reclaims
  BY <1>1 DEF ProcessRecipient, Claim, Prepare, Send, RecordSent, RecordRefused, LinkOutcome,
              Count, FailStatus, FailCount, Answered
<1>2. ASSUME NEW w \in Replica, Tick(w)
      PROVE  /\ faults' \in {faults, faults + 1}
             /\ \A r \in Recipient : reclaims'[r] \in {reclaims[r], reclaims[r] + 1}
  BY <1>2 DEF Tick, Answered
<1>3. ASSUME NEW w \in Replica, List(w) \/ ListFails(w) \/ EndRound(w) \/ Crash(w)
      PROVE  faults' \in {faults, faults + 1} /\ reclaims' = reclaims
  BY <1>3 DEF List, ListFails, EndRound, Crash, Answered
<1>4. ASSUME \/ \E b \in Batch : CreateBatch(b)
             \/ \E r \in Recipient : ClaimGrowsStale(r)
             \/ \E r \in Recipient : \E n \in tracked[r], s \in ReportsOf[r] : DeliveryReport(r, n, s)
             \/ UNCHANGED vars
      PROVE  faults' \in {faults, faults + 1} /\ reclaims' = reclaims
  BY <1>4 DEF CreateBatch, ClaimGrowsStale, DeliveryReport, vars
<1> QED BY <1>1, <1>2, <1>3, <1>4 DEF Next, Loop

LEMMA OrderlyBefore ==
  ASSUME TypeOK, [Next]_vars
  PROVE  (Calm' => Calm) /\ (Orderly' => Orderly)
<1>1. Calm' => Calm
  <2>1. faults \in Nat /\ \A r \in Recipient : reclaims[r] \in Nat
    BY BoundsAssumption DEF TypeOK
  <2> QED BY <2>1, BudgetsGrow DEF Calm
<1> QED BY <1>1 DEF Orderly, Lone

(* In an orderly run a statement answers, or it throws in the only replica *)
(* with nothing written.                                                   *)
LEMMA OrderlyReply ==
  ASSUME TypeOK, NEW o \in Replies, Answered(o), Orderly'
  PROVE  \/ o = "ok"
         \/ o = "error" /\ Lone /\ ~Calm'
<1>1. o # "ok" => ~Calm'
  <2>1. faults \in Nat
    BY BoundsAssumption DEF TypeOK
  <2> QED BY <2>1 DEF Answered, Calm
<1>2. Orderly' => Calm' \/ (Lone /\ ~LostReplies)
  BY DEF Orderly, Lone
<1> QED BY <1>1, <1>2 DEF Replies

-----------------------------------------------------------------------------
(* Whose settling is counted: a recipient stays so as long as it is        *)
(* settled and nobody is about to count or to fail it.                     *)
Tally(r) ==
  status[r] \in Resolved /\ \A w \in Replica : step[<<w, r>>] \notin Tallying \cup {"failStatus"}

LEMMA CountedFinite ==
  ASSUME NEW b \in Batch
  PROVE  /\ IsFiniteSet(Members(b)) /\ Cardinality(Members(b)) \in Nat
         /\ IsFiniteSet(Counted(b)) /\ Cardinality(Counted(b)) \in Nat
         /\ Cardinality(Counted(b)) <= Cardinality(Members(b))
         /\ IsFiniteSet(Counted(b)') /\ Cardinality(Counted(b)') \in Nat
<1>1. IsFiniteSet(Members(b))
  BY SetsAssumption DEF Members
<1>2. Counted(b) \subseteq Members(b) /\ Counted(b)' \subseteq Members(b)
  BY DEF Counted
<1> QED BY <1>1, <1>2, FS_Subset, FS_CardinalityType

(* The steps that count nothing keep a batch's tally if they keep whoever  *)
(* is counted.                                                             *)
LEMMA TallyStays ==
  ASSUME TypeOK, NEW b \in Batch, Tallied(b), completed'[b] = completed[b],
         batchStatus'[b] = "completed" => batchStatus[b] = "completed",
         \A r \in Members(b) : Tally(r) => Tally(r)'
  PROVE  Tallied(b)'
<1>1. Counted(b) \subseteq Counted(b)'
  BY DEF Counted, Tally
<1>2. Cardinality(Counted(b)) <= Cardinality(Counted(b)')
  BY <1>1, CountedFinite, FS_Subset
<1>3. completed[b] \in Nat /\ Members(b)' = Members(b)
  BY DEF TypeOK, Members
<1> QED BY <1>2, <1>3, CountedFinite DEF Tallied

(* The counter moves with one more recipient counted, and closes its batch *)
(* only with the last.                                                     *)
LEMMA TallyCounts ==
  ASSUME TypeOK, NEW q \in Recipient, Increment(BatchOf[q]), NEW b \in Batch, Tallied(b),
         ~Tally(q), Tally(q)', \A r \in Recipient : r # q /\ Tally(r) => Tally(r)'
  PROVE  Tallied(b)'
<1>0. /\ completed \in [Batch -> Nat] /\ BatchOf[q] \in Batch
      /\ batchStatus \in [Batch -> {"none", "pending", "processing", "completed"}]
  BY SetsAssumption DEF TypeOK
<1>1. CASE b # BatchOf[q]
  <2>1. completed'[b] = completed[b] /\ batchStatus'[b] = batchStatus[b]
    BY <1>0, <1>1 DEF Increment
  <2>2. \A r \in Members(b) : r \in Recipient /\ r # q
    BY <1>1 DEF Members
  <2> QED BY <2>1, <2>2, TallyStays
<1>2. CASE b = BatchOf[q]
  <2>1. completed'[b] = completed[b] + 1 /\ completed[b] \in Nat
    BY <1>0, <1>2 DEF Increment
  <2>2. batchStatus'[b] = "completed" => completed[b] + 1 >= Cardinality(Members(b))
    BY <1>0, <1>2 DEF Increment, IsDone
  <2>3. q \notin Counted(b) /\ Counted(b) \cup {q} \subseteq Counted(b)'
    BY <1>2 DEF Counted, Tally, Members
  <2>4. Cardinality(Counted(b) \cup {q}) = Cardinality(Counted(b)) + 1
    BY <2>3, CountedFinite, FS_AddElement
  <2>5. Cardinality(Counted(b) \cup {q}) <= Cardinality(Counted(b)')
    BY <2>3, CountedFinite, FS_Subset
  <2>6. Members(b)' = Members(b)
    BY DEF Members
  <2> QED BY <2>1, <2>2, <2>4, <2>5, <2>6, CountedFinite DEF Tallied
<1> QED BY <1>1, <1>2

(* A batch that is not complete has somebody uncounted, and a complete one *)
(* has nobody left to count.                                               *)
LEMMA CompleteIsCounted ==
  ASSUME TypeOK, NEW b \in Batch, Tallied(b), NEW q \in Members(b), ~Tally(q)
  PROVE  /\ batchStatus[b] # "completed"
         /\ IsDone(b) => \A r \in Members(b) : r # q => Tally(r)
<1>0. completed[b] \in Nat /\ Counted(b) \subseteq Members(b) \ {q}
  BY DEF TypeOK, Counted, Tally
<1>1. /\ IsFiniteSet(Members(b) \ {q})
      /\ Cardinality(Members(b) \ {q}) = Cardinality(Members(b)) - 1
  BY CountedFinite, FS_RemoveElement
<1>2. Cardinality(Counted(b)) <= Cardinality(Members(b)) - 1
  BY <1>0, <1>1, FS_Subset
<1>3. batchStatus[b] # "completed"
  BY <1>0, <1>2, CountedFinite DEF Tallied
<1>4. ASSUME IsDone(b)
      PROVE  \A r \in Members(b) : r # q => Tally(r)
  <2>1. Cardinality(Counted(b)) = Cardinality(Members(b) \ {q})
    BY <1>0, <1>1, <1>2, <1>4, CountedFinite DEF IsDone, Tallied
  <2>2. Counted(b) = Members(b) \ {q}
    BY <1>0, <1>1, <2>1, FS_Subset
  <2> QED BY <2>2 DEF Counted, Tally
<1> QED BY <1>3, <1>4

-----------------------------------------------------------------------------
(* Who is at a recipient keeps everybody else away from it.                *)
LEMMA OthersRest ==
  ASSUME NEW w \in Replica, NEW r \in Recipient, Alone(r),
         step[<<w, r>>] \notin {"idle", "queued"},
         \A v \in Replica : v # w => step'[<<v, r>>] = step[<<v, r>>]
  PROVE  /\ Alone(r)'
         /\ \A v \in Replica : v # w => step'[<<v, r>>] \in {"idle", "queued"} /\ Placed(v, r)'
         /\ status'[r] \in Resolved /\ step'[<<w, r>>] \notin Tallying \cup {"failStatus"} => Tally(r)'
<1>1. \A v \in Replica : v # w => step'[<<v, r>>] \in {"idle", "queued"}
  BY DEF Alone
<1>2. \A v \in Replica : v # w => Placed(v, r)'
  BY <1>1 DEF Placed, Lone, Settling, Tallying
<1> QED BY <1>1, <1>2 DEF Alone, Tally, Tallying

(* What one statement of processRecipient does in an orderly run.          *)
Outside == {"pending", "sending"}

Told(r) ==
  \/ status'[r] = status[r]
  \/ status[r] \in Outside /\ status'[r] \in Outside \cup Resolved

Orderliness(w, r) ==
  /\ Alone(r)' /\ \A v \in Replica : Placed(v, r)'
  /\ Tally(r) => Tally(r)'
  /\ Told(r)
  /\ \/ UNCHANGED batchVars
     \/ Increment(BatchOf[r]) /\ ~Tally(r) /\ Tally(r)' /\ status' = status

LEMMA OrderlyClaim ==
  ASSUME TypeOK, Orderly', NEW w \in Replica, NEW r \in Recipient, Claim(w, r),
         Alone(r), \A v \in Replica : Placed(v, r), Calm' => Calm, Orderly
  PROVE  Orderliness(w, r)
<1> DEFINE t == <<w, r>>
<1> PICK o \in Replies : Claim(w, r)!(o)
  BY DEF Claim
<1>t. t \in Task /\ step \in [Task -> Steps]
  BY DEF Task, TypeOK
<1>o. \A v \in Replica : v # w => step'[<<v, r>>] = step[<<v, r>>]
  BY ProcessOthers DEF ProcessRecipient, Claim
<1>s. status \in [Recipient -> {"none", "pending", "sending"} \cup Resolved]
  BY DEF TypeOK
<1>q. step[t] = "queued" /\ UNCHANGED batchVars
  OBVIOUS
<1>1. CASE o = "ok" /\ Claimable(r)
  <2>1. step'[t] = "prepare" /\ status[r] = "pending" /\ status'[r] = "sending"
    BY <1>t, <1>s, <1>1 DEF Goto, Committed, Claimable
  <2>2. ASSUME NEW v \in Replica, v # w
        PROVE  step'[<<v, r>>] \in {"idle", "queued"} /\ Placed(v, r)'
    <3>1. Placed(v, r) /\ ~Lone
      BY <2>2 DEF Lone
    <3>2. step[<<v, r>>] \notin Settling \cup Tallying \cup {"failStatus"}
      BY <2>1, <3>1 DEF Placed, Orderly, Resolved, Tallying
    <3>3. step[<<v, r>>] \in {"idle", "queued"}
      <4>1. step[<<v, r>>] \in Steps
        BY <1>t DEF Task
      <4> QED BY <3>2, <4>1 DEF Steps, Settling, Tallying
    <3> QED BY <1>o, <2>2, <3>1, <3>3 DEF Placed, Lone, Settling, Tallying
  <2>3. Placed(w, r)'
    BY <2>1 DEF Placed, Settling, Tallying
  <2>4. Alone(r)'
    BY <2>2 DEF Alone
  <2>5. ~Tally(r) /\ Told(r)
    BY <2>1 DEF Tally, Told, Outside, Resolved
  <2> QED BY <1>q, <2>2, <2>3, <2>4, <2>5 DEF Orderliness
<1>2. CASE o = "ok" /\ ~Claimable(r)
  <2>1. step'[t] = "idle" /\ status' = status
    BY <1>t, <1>2 DEF Goto
  <2>2. ASSUME NEW v \in Replica
        PROVE  Placed(v, r)'
    BY <1>o, <2>1 DEF Placed, Lone, Settling, Tallying
  <2>3. Alone(r)'
    BY <1>o, <2>1 DEF Alone
  <2>4. Tally(r) => Tally(r)'
    BY <1>o, <2>1 DEF Tally, Tallying
  <2> QED BY <1>q, <2>1, <2>2, <2>3, <2>4 DEF Orderliness, Told
<1>3. CASE o = "error" /\ Lone /\ ~Calm'
  <2>1. step'[t] = "failStatus" /\ status' = status
    BY <1>t, <1>3 DEF Goto, Committed
  <2>2. status[r] = "pending" /\ \A v \in Replica : v = w
    BY <1>q, <1>3 DEF Placed, Lone
  <2>3. \A v \in Replica : Placed(v, r)'
    BY <1>3, <2>1, <2>2 DEF Placed, Settling, Tallying
  <2>4. Alone(r)' /\ ~Tally(r)
    BY <2>2 DEF Alone, Tally, Resolved
  <2> QED BY <1>q, <2>1, <2>3, <2>4 DEF Orderliness, Told
<1> QED BY <1>1, <1>2, <1>3, OrderlyReply

(* From the claim to the link the row stays "sending".                     *)
LEMMA OrderlySettling ==
  ASSUME TypeOK, Orderly', NEW w \in Replica, NEW r \in Recipient,
         Prepare(w, r) \/ Send(w, r) \/ RecordSent(w, r) \/ RecordRefused(w, r),
         Alone(r), \A v \in Replica : Placed(v, r)
  PROVE  Orderliness(w, r)
<1> DEFINE t == <<w, r>>
<1>t. t \in Task /\ step \in [Task -> Steps]
  BY DEF Task, TypeOK
<1>o. \A v \in Replica : v # w => step'[<<v, r>>] = step[<<v, r>>]
  BY ProcessOthers DEF ProcessRecipient
<1>1. status' = status /\ UNCHANGED batchVars /\ step[t] \in Settling
  BY DEF Prepare, Send, RecordSent, RecordRefused, rowVars, Settling
<1>2. status[r] = "sending"
  BY <1>1 DEF Placed
<1>3. step'[t] \in Settling \/ (step'[t] = "failStatus" /\ ~Calm')
  <2>1. CASE Prepare(w, r)
    <3> PICK o \in Replies : Prepare(w, r)!(o)
      BY <2>1 DEF Prepare
    <3> QED BY <1>t, OrderlyReply DEF Goto, Settling
  <2>2. CASE Send(w, r)
    BY <1>t, <2>2 DEF Send, Goto, Settling
  <2>3. CASE RecordSent(w, r)
    BY <1>t, <2>3 DEF RecordSent, RetryOr, Goto, Settling
  <2>4. CASE RecordRefused(w, r)
    <3> PICK o \in Replies : RecordRefused(w, r)!(o)
      BY <2>4 DEF RecordRefused
    <3> QED BY <1>t, OrderlyReply DEF Goto, Settling
  <2> QED BY <2>1, <2>2, <2>3, <2>4
<1>4. Placed(w, r)'
  BY <1>1, <1>2, <1>3 DEF Placed, Settling, Tallying
<1>5. ~Tally(r) /\ Told(r)
  BY <1>1, <1>2 DEF Tally, Told, Resolved
<1>6. step[t] \notin {"idle", "queued"}
  BY <1>1 DEF Settling
<1> QED BY <1>o, <1>1, <1>4, <1>5, <1>6, OthersRest DEF Orderliness

(* The outcome is written once, over "sending" or over a claim that threw. *)
LEMMA OrderlyOutcome ==
  ASSUME TypeOK, Orderly', NEW w \in Replica, NEW r \in Recipient,
         LinkOutcome(w, r) \/ FailStatus(w, r),
         Alone(r), \A v \in Replica : Placed(v, r)
  PROVE  Orderliness(w, r)
<1> DEFINE t == <<w, r>>
<1>t. t \in Task /\ step \in [Task -> Steps]
  BY DEF Task, TypeOK
<1>s. status \in [Recipient -> {"none", "pending", "sending"} \cup Resolved]
  BY DEF TypeOK
<1>o. \A v \in Replica : v # w => step'[<<v, r>>] = step[<<v, r>>]
  BY ProcessOthers DEF ProcessRecipient
<1>1. UNCHANGED batchVars /\ step[t] \in {"linkSent", "linkFailed", "rejectStatus", "failStatus"}
  BY DEF LinkOutcome, FailStatus
<1>2. /\ status[r] \in Outside \cup {"failed"}
      /\ step[t] # "failStatus" => status[r] = "sending"
  BY <1>1 DEF Placed, Outside, Settling
<1>3. /\ Told(r)
      /\ \/ status'[r] \in Resolved /\ step'[t] = "count"
         \/ status'[r] = "failed" /\ step'[t] \in {"rejectCount", "failCount"}
         \/ step'[t] = "idle"
         \/ status'[r] = status[r] /\ step'[t] = step[t] /\ step[t] \in {"linkSent", "linkFailed"}
         \/ status'[r] = "sending" /\ step'[t] = "failStatus" /\ ~Calm'
  <2>1. CASE LinkOutcome(w, r)
    <3> PICK o \in Replies : LinkOutcome(w, r)!(o)
      BY <2>1 DEF LinkOutcome
    <3>1. CASE o = "ok"
      <4>1. status'[r] \in Resolved /\ status[r] = "sending"
        BY <1>2, <1>s, <3>1 DEF SetRecipient, Committed, Resolved
      <4>2. step'[t] = "count"
        BY <1>t, <3>1 DEF RetryOr, Goto
      <4> QED BY <4>1, <4>2 DEF Told, Outside
    <3>2. CASE o = "error"
      <4>1. status' = status
        BY <3>2 DEF Committed, rowVars
      <4>2. step'[t] \in {"idle", step[t]}
        BY <1>t, <3>2 DEF RetryOr, Goto, AfterDispatch
      <4> QED BY <4>1, <4>2 DEF Told
    <3> QED BY <3>1, <3>2, OrderlyReply
  <2>2. CASE FailStatus(w, r)
    <3> PICK o \in Replies : FailStatus(w, r)!(o)
      BY <2>2 DEF FailStatus
    <3>1. CASE o = "ok"
      <4>1. status'[r] = "failed"
        BY <1>s, <3>1 DEF SetRecipient, Committed
      <4>2. step'[t] \in {"rejectCount", "failCount"}
        BY <1>t, <3>1 DEF Goto
      <4> QED BY <1>2, <4>1, <4>2 DEF Told, Outside, Resolved
    <3>2. CASE o = "error" /\ ~Calm'
      <4>1. status' = status
        BY <3>2 DEF Committed, rowVars
      <4>2. \/ step'[t] = "idle"
            \/ step'[t] = "failStatus" /\ step[t] = "rejectStatus"
        BY <1>t, <3>2 DEF Goto, AfterThrow
      <4> QED BY <1>2, <3>2, <4>1, <4>2 DEF Told
    <3> QED BY <3>1, <3>2, OrderlyReply
  <2> QED BY <2>1, <2>2
<1>4. Placed(w, r)'
  <2>1. CASE status'[r] \in Resolved /\ step'[t] = "count"
    BY <2>1 DEF Placed, Settling, Tallying
  <2>2. CASE status'[r] = "failed" /\ step'[t] \in {"rejectCount", "failCount"}
    BY <2>2 DEF Placed, Settling, Tallying
  <2>3. CASE step'[t] = "idle"
    BY <2>3 DEF Placed, Settling, Tallying
  <2>4. CASE status'[r] = status[r] /\ step'[t] = step[t] /\ step[t] \in {"linkSent", "linkFailed"}
    BY <1>2, <2>4 DEF Placed, Settling, Tallying
  <2>5. CASE status'[r] = "sending" /\ step'[t] = "failStatus" /\ ~Calm'
    BY <2>5 DEF Placed, Settling, Tallying
  <2> QED BY <1>3, <2>1, <2>2, <2>3, <2>4, <2>5
<1>5. ~Tally(r)
  BY <1>1, <1>2 DEF Tally, Resolved
<1>6. step[t] \notin {"idle", "queued"}
  BY <1>1
<1> QED BY <1>o, <1>1, <1>3, <1>4, <1>5, <1>6, OthersRest DEF Orderliness

(* ... and counted once.                                                   *)
LEMMA OrderlyCount ==
  ASSUME TypeOK, Orderly', NEW w \in Replica, NEW r \in Recipient,
         Count(w, r) \/ FailCount(w, r),
         Alone(r), \A v \in Replica : Placed(v, r)
  PROVE  Orderliness(w, r)
<1> DEFINE t == <<w, r>>
<1>t. t \in Task /\ step \in [Task -> Steps]
  BY DEF Task, TypeOK
<1>o. \A v \in Replica : v # w => step'[<<v, r>>] = step[<<v, r>>]
  BY ProcessOthers DEF ProcessRecipient
<1>1. status' = status /\ step[t] \in Tallying
  BY DEF Count, FailCount, rowVars, Tallying
<1>2. status[r] \in Resolved /\ (step[t] # "count" => status[r] = "failed")
  BY <1>1 DEF Placed, Tallying, Resolved
<1>3. \/ UNCHANGED batchVars /\ step'[t] \in {"idle", step[t]}
      \/ UNCHANGED batchVars /\ step'[t] = "failStatus" /\ step[t] = "rejectCount" /\ ~Calm'
      \/ Increment(BatchOf[r]) /\ step'[t] = "idle"
  <2>1. CASE Count(w, r)
    <3> PICK o \in Replies : Count(w, r)!(o)
      BY <2>1 DEF Count
    <3>1. CASE o = "ok"
      BY <1>t, <3>1 DEF RetryOr, Goto, Committed
    <3>2. CASE o = "error"
      BY <1>t, <3>2 DEF RetryOr, Goto, Committed, AfterDispatch
    <3> QED BY <3>1, <3>2, OrderlyReply
  <2>2. CASE FailCount(w, r)
    <3> PICK o \in Replies : FailCount(w, r)!(o)
      BY <2>2 DEF FailCount
    <3>1. CASE o = "ok"
      BY <1>t, <3>1 DEF Goto, Committed
    <3>2. CASE o = "error" /\ ~Calm'
      BY <1>t, <3>2 DEF Goto, Committed, AfterThrow
    <3> QED BY <3>1, <3>2, OrderlyReply
  <2> QED BY <2>1, <2>2
<1>4. Placed(w, r)'
  BY <1>1, <1>2, <1>3 DEF Placed, Settling, Tallying
<1>5. ~Tally(r) /\ Told(r)
  BY <1>1 DEF Tally, Told
<1>6. step[t] \notin {"idle", "queued"}
  BY <1>1 DEF Tallying
<1>7. step'[t] = "idle" => Tally(r)'
  BY <1>o, <1>1, <1>2, <1>6, OthersRest DEF Tallying
<1> QED BY <1>o, <1>1, <1>3, <1>4, <1>5, <1>6, <1>7, OthersRest DEF Orderliness

-----------------------------------------------------------------------------
(* Who is at r goes on or is gone, and r's status is what it was.          *)
LEMMA OrderStays ==
  ASSUME NEW r \in Recipient, Alone(r), \A v \in Replica : Placed(v, r), Calm' => Calm,
         status'[r] = status[r],
         \A v \in Replica : step'[<<v, r>>] \in {"idle", step[<<v, r>>]}
  PROVE  /\ Alone(r)' /\ \A v \in Replica : Placed(v, r)'
         /\ Tally(r) => Tally(r)'
<1>1. Alone(r)'
  BY DEF Alone
<1>2. ASSUME NEW v \in Replica PROVE Placed(v, r)'
  <2>1. CASE step'[<<v, r>>] = "idle"
    BY <2>1 DEF Placed, Settling, Tallying
  <2>2. CASE step'[<<v, r>>] = step[<<v, r>>]
    BY <2>2 DEF Placed, Lone
  <2> QED BY <2>1, <2>2
<1>3. Tally(r) => Tally(r)'
  <2> SUFFICES ASSUME Tally(r) PROVE Tally(r)'
    OBVIOUS
  <2>1. \A v \in Replica : step'[<<v, r>>] \notin Tallying \cup {"failStatus"}
    BY DEF Tally, Tallying
  <2> QED BY <2>1 DEF Tally
<1> QED BY <1>1, <1>2, <1>3

LEMMA OrderProcess ==
  ASSUME TypeOK, OrderInv, [Next]_vars, Orderly',
         NEW w \in Replica, NEW q \in Recipient, ProcessRecipient(w, q)
  PROVE  /\ Orderliness(w, q)
         /\ \A r \in Recipient : r # q => /\ Alone(r)' /\ \A v \in Replica : Placed(v, r)'
                                          /\ Tally(r) => Tally(r)'
<1>1. /\ Orderly /\ (Calm' => Calm)
      /\ \A r \in Recipient : Alone(r) /\ \A v \in Replica : Placed(v, r)
  BY OrderlyBefore DEF OrderInv
<1>2. Orderliness(w, q)
  BY <1>1, OrderlyClaim, OrderlySettling, OrderlyOutcome, OrderlyCount DEF ProcessRecipient
<1>3. ASSUME NEW r \in Recipient, r # q
      PROVE  /\ Alone(r)' /\ \A v \in Replica : Placed(v, r)'
             /\ Tally(r) => Tally(r)'
  <2>1. status'[r] = status[r] /\ \A v \in Replica : step'[<<v, r>>] = step[<<v, r>>]
    BY <1>3, ProcessOthers
  <2> QED BY <1>1, <2>1, OrderStays
<1> QED BY <1>2, <1>3

LEMMA OrderStep ==
  ASSUME TypeOK, Posted, Resting, OrderInv, [Next]_vars
  PROVE  OrderInv'
<1> SUFFICES ASSUME Orderly'
             PROVE  /\ \A r \in Recipient : Alone(r)' /\ \A v \in Replica : Placed(v, r)'
                    /\ \A b \in Batch : Tallied(b)'
  BY DEF OrderInv
<1>0. /\ Orderly /\ (Calm' => Calm)
      /\ \A r \in Recipient : Alone(r) /\ \A v \in Replica : Placed(v, r)
      /\ \A b \in Batch : Tallied(b)
  BY OrderlyBefore DEF OrderInv
<1>t. /\ step \in [Task -> Steps] /\ \A v \in Replica, r \in Recipient : <<v, r>> \in Task
      /\ status \in [Recipient -> {"none", "pending", "sending"} \cup Resolved]
      /\ batchStatus \in [Batch -> {"none", "pending", "processing", "completed"}]
      /\ \A r \in Recipient : reclaims[r] \in Nat
  BY DEF TypeOK, Task
<1> DEFINE Kept(r) == /\ Alone(r)' /\ \A v \in Replica : Placed(v, r)'
                      /\ Tally(r) => Tally(r)'
<1>q. ASSUME \A r \in Recipient : Kept(r), completed' = completed,
             \A b \in Batch : batchStatus'[b] = "completed" => batchStatus[b] = "completed"
      PROVE  /\ \A r \in Recipient : Alone(r)' /\ \A v \in Replica : Placed(v, r)'
             /\ \A b \in Batch : Tallied(b)'
  <2>1. ASSUME NEW b \in Batch PROVE Tallied(b)'
    <3>1. \A r \in Members(b) : Tally(r) => Tally(r)'
      BY <1>q DEF Members
    <3> QED BY <1>0, <1>q, <3>1, TallyStays
  <2> QED BY <1>q, <2>1
<1> USE DEF rowVars, batchVars, tickVars, taskVars, histVars, reportVars
<1>1. ASSUME NEW b \in Batch, CreateBatch(b)
      PROVE  /\ \A r \in Recipient : Alone(r)' /\ \A v \in Replica : Placed(v, r)'
             /\ \A c \in Batch : Tallied(c)'
  <2>1. step' = step /\ completed' = completed
        /\ \A c \in Batch : batchStatus'[c] = "completed" => batchStatus[c] = "completed"
    BY <1>1, <1>t DEF CreateBatch
  <2>2. ASSUME NEW r \in Recipient PROVE Kept(r)
    <3>1. CASE BatchOf[r] = b
      <4>1. status[r] = "none" /\ \A v \in Replica : step'[<<v, r>>] = "idle"
        BY <1>1, <2>1, <3>1 DEF CreateBatch, Posted
      <4> QED BY <4>1 DEF Alone, Placed, Tally, Settling, Tallying, Resolved
    <3>2. CASE BatchOf[r] # b
      <4>1. status'[r] = status[r]
        BY <1>1, <3>2 DEF CreateBatch
      <4> QED BY <1>0, <2>1, <4>1, OrderStays
    <3> QED BY <3>1, <3>2
  <2> HIDE DEF Kept
  <2> QED BY <1>q, <2>1, <2>2
<1>2. ASSUME NEW w \in Replica, Tick(w)
      PROVE  /\ \A r \in Recipient : Alone(r)' /\ \A v \in Replica : Placed(v, r)'
             /\ \A c \in Batch : Tallied(c)'
  <2> PICK o \in Replies : Tick(w)!(o)
    BY <1>2 DEF Tick
  <2>1. step' = step /\ completed' = completed /\ batchStatus' = batchStatus
    OBVIOUS
  <2>2. ASSUME NEW r \in Recipient PROVE Kept(r)
    <3>1. CASE Committed(o) /\ r \in StuckRows
      <4>1. reclaims'[r] = reclaims[r] + 1 /\ status[r] = "sending"
        BY <3>1 DEF StuckRows
      <4>2. Lone
        BY <1>t, <4>1 DEF Orderly, Calm, Lone
      <4>3. \A v \in Replica : step'[<<v, r>>] = "idle"
        BY <2>1, <4>2 DEF Lone, Resting
      <4> QED BY <4>1, <4>3 DEF Alone, Placed, Tally, Settling, Tallying, Resolved
    <3>2. CASE ~(Committed(o) /\ r \in StuckRows)
      <4>1. status'[r] = status[r]
        BY <3>2
      <4> QED BY <1>0, <2>1, <4>1, OrderStays
    <3> QED BY <3>1, <3>2
  <2> HIDE DEF Kept
  <2> QED BY <1>q, <2>1, <2>2
<1>3. ASSUME NEW w \in Replica, List(w)
      PROVE  /\ \A r \in Recipient : Alone(r)' /\ \A v \in Replica : Placed(v, r)'
             /\ \A c \in Batch : Tallied(c)'
  <2> PICK S \in SUBSET {r \in Recipient : status[r] = "pending"} : List(w)!2!(S)
    BY <1>3 DEF List
  <2>1. status' = status /\ completed' = completed /\ batchStatus' = batchStatus
    BY <1>3 DEF List
  <2>2. ASSUME NEW r \in Recipient PROVE Kept(r)
    <3>1. CASE r \in S
      <4>1. status[r] = "pending"
        BY <3>1
      <4>2. step'[<<w, r>>] = "queued" /\ step[<<w, r>>] = "idle"
        BY <1>3, <1>t, <3>1 DEF List, Resting
      <4>3. \A v \in Replica : v # w => step'[<<v, r>>] = step[<<v, r>>]
        BY <1>t
      <4>4. Alone(r)'
        BY <1>0, <4>2, <4>3 DEF Alone
      <4>5. ASSUME NEW v \in Replica PROVE Placed(v, r)'
        <5>1. CASE v = w
          BY <2>1, <4>1, <4>2, <5>1 DEF Placed, Settling, Tallying
        <5>2. CASE v # w
          <6>1. step'[<<v, r>>] = step[<<v, r>>] /\ Placed(v, r)
            BY <1>0, <4>3, <5>2
          <6> QED BY <1>0, <2>1, <6>1 DEF Placed, Lone
        <5> QED BY <5>1, <5>2
      <4> QED BY <4>1, <4>4, <4>5 DEF Tally, Resolved
    <3>2. CASE r \notin S
      <4>1. \A v \in Replica : step'[<<v, r>>] = step[<<v, r>>]
        BY <1>t, <3>2
      <4> QED BY <1>0, <2>1, <4>1, OrderStays
    <3> QED BY <3>1, <3>2
  <2> HIDE DEF Kept
  <2> QED BY <1>q, <2>1, <2>2
<1>4. ASSUME \/ \E w \in Replica : EndRound(w) \/ ListFails(w) \/ Crash(w)
             \/ \E q \in Recipient : ClaimGrowsStale(q)
             \/ \E q \in Recipient : \E n \in tracked[q], s \in ReportsOf[q] : DeliveryReport(q, n, s)
             \/ UNCHANGED vars
      PROVE  /\ \A r \in Recipient : Alone(r)' /\ \A v \in Replica : Placed(v, r)'
             /\ \A c \in Batch : Tallied(c)'
  <2>1. status' = status /\ completed' = completed /\ batchStatus' = batchStatus
    BY <1>4 DEF EndRound, ListFails, Crash, ClaimGrowsStale, DeliveryReport, vars
  <2>2. ASSUME NEW r \in Recipient PROVE Kept(r)
    <3>1. \A v \in Replica : step'[<<v, r>>] \in {"idle", step[<<v, r>>]}
      BY <1>t, <1>4 DEF EndRound, ListFails, Crash, ClaimGrowsStale, DeliveryReport, vars
    <3> QED BY <1>0, <2>1, <3>1, OrderStays
  <2> HIDE DEF Kept
  <2> QED BY <1>q, <2>1, <2>2
<1>5. ASSUME NEW w \in Replica, NEW q \in Recipient, ProcessRecipient(w, q)
      PROVE  /\ \A r \in Recipient : Alone(r)' /\ \A v \in Replica : Placed(v, r)'
             /\ \A c \in Batch : Tallied(c)'
  <2>1. \A r \in Recipient : Kept(r)
    BY <1>5, OrderProcess DEF Orderliness
  <2>2. CASE UNCHANGED batchVars
    <3> HIDE DEF Kept
    <3> QED BY <1>q, <2>1, <2>2
  <2>3. CASE Increment(BatchOf[q]) /\ ~Tally(q) /\ Tally(q)'
    <3>1. \A c \in Batch : Tallied(c)'
      BY <1>0, <2>1, <2>3, TallyCounts
    <3> QED BY <2>1, <3>1
  <2> QED BY <1>5, <2>2, <2>3, OrderProcess DEF Orderliness
<1> QED BY <1>1, <1>2, <1>3, <1>4, <1>5 DEF Next, Loop

LEMMA InitInv == Init => IInv
<1> SUFFICES ASSUME Init PROVE IInv
  OBVIOUS
<1>1. TypeOK /\ TokenInv /\ Posted
  BY InitType, InitToken
<1>2. \A v \in Replica, r \in Recipient : step[<<v, r>>] = "idle" /\ status[r] = "none"
  BY DEF Init, Task
<1>3. Resting
  BY <1>2 DEF Resting
<1>4. ReportsInv
  <2> SUFFICES ASSUME NEW r \in Recipient PROVE ReportInv(r)
    BY DEF ReportsInv
  <2>1. Linked(r)
    <3>1. link[r] = 0 /\ status[r] = "none" /\ Len(thread[r]) \in Nat /\ tracked[r] = {}
      BY <1>1, ThreadIs DEF Init
    <3> QED BY <3>1 DEF Linked
  <2>2. RowsApart(r) /\ \A v \in Replica : Reports(v, r)
    BY <1>2 DEF RowsApart, Reports, Reporting, Unlinked
  <2> QED BY <2>1, <2>2 DEF ReportInv
<1>5. OrderInv
  <2>1. ASSUME NEW r \in Recipient PROVE Alone(r) /\ \A v \in Replica : Placed(v, r)
    BY <1>2 DEF Alone, Placed, Settling, Tallying
  <2>2. ASSUME NEW b \in Batch PROVE Tallied(b)
    <3>1. completed[b] = 0 /\ batchStatus[b] = "none"
      BY DEF Init
    <3> QED BY <3>1, CountedFinite DEF Tallied
  <2> QED BY <2>1, <2>2 DEF OrderInv
<1> QED BY <1>1, <1>3, <1>4, <1>5 DEF IInv

LEMMA NextInv ==
  ASSUME IInv, [Next]_vars
  PROVE  IInv'
<1>1. TypeOK'
  BY NextType DEF IInv
<1>2. TokenInv' /\ Posted'
  BY <1>1, TokenStep, PostedStep DEF IInv
<1>3. Resting' /\ ReportsInv' /\ OrderInv'
  BY RestingStep, ReportStep, OrderStep DEF IInv
<1> QED BY <1>1, <1>2, <1>3 DEF IInv

(* The whole inductive invariant holds throughout.                         *)
THEOREM Inductive == SafeSpec => []IInv
BY InitInv, NextInv, PTL DEF SafeSpec

(* What reside reads of a recipient is about one attempt, whichever of     *)
(* several reported last: a sent recipient links to a row that says        *)
(* otherwise only where the provider reported so, a failed one to a row of *)
(* a failed attempt or to none.                                            *)
THEOREM LinkIsTrue == SafeSpec => []LinkedRowAgrees
<1>1. IInv => LinkedRowAgrees
  BY DEF IInv, ReportsInv, ReportInv, Linked, LinkedRowAgrees, Truthful
<1> QED BY <1>1, Inductive, PTL

-----------------------------------------------------------------------------
(* What reside is told (BatchLedger), step by step.                        *)
OutcomeOf(r) == IF status[r] \in Outside THEN "waiting" ELSE status[r]
ProgressOf(b) == IF batchStatus[b] \in {"pending", "processing"} THEN "open" ELSE batchStatus[b]

LEMMA OutcomeIs ==
  /\ Outcome = [r \in Recipient |-> OutcomeOf(r)]
  /\ Outcome' = [r \in Recipient |-> OutcomeOf(r)']
BY DEF Outcome, OutcomeOf, Outside

LEMMA ProgressIs ==
  /\ Progress = [b \in Batch |-> ProgressOf(b)]
  /\ Progress' = [b \in Batch |-> ProgressOf(b)']
BY DEF Progress, ProgressOf

LEMMA LedgerStays ==
  ASSUME \A r \in Recipient : OutcomeOf(r)' = OutcomeOf(r),
         \A b \in Batch : ProgressOf(b)' = ProgressOf(b)
  PROVE  [Ledger!Next]_(Ledger!vars)
<1>1. Outcome' = Outcome /\ Progress' = Progress
  BY OutcomeIs, ProgressIs
<1> QED BY <1>1 DEF Ledger!vars

(* A recipient settles at most once, whatever is written to its row.       *)
LEMMA LedgerSettles ==
  ASSUME TypeOK, NEW q \in Recipient, Told(q),
         \A r \in Recipient : r # q => status'[r] = status[r], batchStatus' = batchStatus
  PROVE  [Ledger!Next]_(Ledger!vars)
<1>1. /\ \A r \in Recipient : r # q => OutcomeOf(r)' = OutcomeOf(r)
      /\ \A b \in Batch : ProgressOf(b)' = ProgressOf(b)
  BY DEF OutcomeOf, ProgressOf
<1>2. CASE OutcomeOf(q)' = OutcomeOf(q)
  BY <1>1, <1>2, LedgerStays
<1>3. CASE OutcomeOf(q)' # OutcomeOf(q)
  <2>1. OutcomeOf(q) = "waiting" /\ OutcomeOf(q)' \in {"sent", "failed"}
    BY <1>3 DEF Told, OutcomeOf, Outside, Resolved
  <2>2. Outcome[q] = "waiting" /\ Outcome' = [Outcome EXCEPT ![q] = OutcomeOf(q)']
    BY <1>1, <2>1, OutcomeIs
  <2>3. Progress' = Progress
    BY <1>1, ProgressIs
  <2>4. Ledger!Settle(q)
    BY <2>1, <2>2, <2>3 DEF Ledger!Settle
  <2> QED BY <2>4 DEF Ledger!Next
<1> QED BY <1>2, <1>3

(* The counter closes a batch only when everybody in it has settled.       *)
LEMMA LedgerCounts ==
  ASSUME TypeOK, NEW q \in Recipient, Increment(BatchOf[q]), Tallied(BatchOf[q]),
         ~Tally(q), Tally(q)', status' = status, batchStatus[BatchOf[q]] # "none"
  PROVE  [Ledger!Next]_(Ledger!vars)
<1> DEFINE b == BatchOf[q]
<1>0. /\ b \in Batch /\ q \in Members(b)
      /\ batchStatus \in [Batch -> {"none", "pending", "processing", "completed"}]
  BY SetsAssumption DEF TypeOK, Members
<1>1. \A r \in Recipient : OutcomeOf(r)' = OutcomeOf(r)
  BY DEF OutcomeOf
<1>2. batchStatus[b] # "completed" /\ (IsDone(b) => \A r \in Members(b) : r # q => Tally(r))
  BY <1>0, CompleteIsCounted
<1>3. ProgressOf(b) = "open"
  BY <1>0, <1>2 DEF ProgressOf
<1>4. \A c \in Batch : c # b => ProgressOf(c)' = ProgressOf(c)
  BY <1>0 DEF Increment, ProgressOf
<1>5. CASE ~IsDone(b)
  <2>1. ProgressOf(b)' = "open"
    BY <1>0, <1>5 DEF Increment, ProgressOf
  <2> HIDE DEF b
  <2> QED BY <1>1, <1>3, <1>4, <2>1, LedgerStays
<1>6. CASE IsDone(b)
  <2>1. ProgressOf(b)' = "completed"
    BY <1>0, <1>6 DEF Increment, ProgressOf
  <2>2. ASSUME NEW r \in Ledger!Members(b)
        PROVE  Outcome[r] \in {"sent", "failed"}
    <3>1. r \in Members(b) /\ r \in Recipient
      BY <2>2 DEF Ledger!Members, Members
    <3>2. status[r] \in Resolved
      BY <1>2, <1>6, <3>1 DEF Tally
    <3>3. OutcomeOf(r) \in {"sent", "failed"}
      BY <3>2 DEF OutcomeOf, Outside, Resolved
    <3> QED BY <3>1, <3>3, OutcomeIs
  <2> HIDE DEF b
  <2>3. Progress[b] = "open" /\ Progress' = [Progress EXCEPT ![b] = "completed"]
    BY <1>0, <1>3, <1>4, <2>1, ProgressIs
  <2>4. Outcome' = Outcome
    BY <1>1, OutcomeIs
  <2>5. Ledger!Close(b)
    BY <2>2, <2>3, <2>4 DEF Ledger!Close
  <2> QED BY <1>0, <2>5 DEF Ledger!Next
<1> QED BY <1>5, <1>6

LEMMA LedgerStep ==
  ASSUME IInv, [Next]_vars, Orderly'
  PROVE  [Ledger!Next]_(Ledger!vars)
<1>0. /\ TypeOK /\ Posted /\ OrderInv
      /\ Orderly /\ \A b \in Batch : Tallied(b)
      /\ status \in [Recipient -> {"none", "pending", "sending"} \cup Resolved]
      /\ batchStatus \in [Batch -> {"none", "pending", "processing", "completed"}]
  BY OrderlyBefore DEF IInv, OrderInv, TypeOK
<1> USE DEF rowVars, batchVars, tickVars, taskVars, histVars, reportVars
<1>1. ASSUME NEW b \in Batch, CreateBatch(b)
      PROVE  [Ledger!Next]_(Ledger!vars)
  <2>1. ProgressOf(b) = "none" /\ ProgressOf(b)' = "open"
        /\ \A c \in Batch : c # b => ProgressOf(c)' = ProgressOf(c)
    BY <1>0, <1>1 DEF CreateBatch, ProgressOf
  <2>2. \A r \in Recipient : OutcomeOf(r)' = IF BatchOf[r] = b THEN "waiting" ELSE OutcomeOf(r)
    BY <1>1 DEF CreateBatch, OutcomeOf, Outside
  <2>3. Progress[b] = "none" /\ Progress' = [Progress EXCEPT ![b] = "open"]
    BY <2>1, ProgressIs
  <2>4. Outcome' = [r \in Recipient |-> IF BatchOf[r] = b THEN "waiting" ELSE Outcome[r]]
    BY <2>2, OutcomeIs
  <2>5. Ledger!Post(b)
    BY <2>3, <2>4 DEF Ledger!Post
  <2> QED BY <2>5 DEF Ledger!Next
<1>2. ASSUME \/ \E w \in Replica : Loop(w) \/ ListFails(w) \/ Crash(w)
             \/ \E r \in Recipient : ClaimGrowsStale(r)
             \/ \E r \in Recipient : \E n \in tracked[r], s \in ReportsOf[r] : DeliveryReport(r, n, s)
             \/ UNCHANGED vars
      PROVE  [Ledger!Next]_(Ledger!vars)
  <2>1. batchStatus' = batchStatus
    BY <1>2 DEF Loop, Tick, List, EndRound, ListFails, Crash, ClaimGrowsStale, DeliveryReport, vars
  <2>2. ASSUME NEW r \in Recipient
        PROVE  status'[r] = status[r] \/ (status[r] \in Outside /\ status'[r] \in Outside)
    BY <1>2 DEF Loop, Tick, List, EndRound, ListFails, Crash, ClaimGrowsStale, DeliveryReport, vars,
                StuckRows, Outside
  <2>3. \A r \in Recipient : OutcomeOf(r)' = OutcomeOf(r)
    BY <2>2 DEF OutcomeOf
  <2>4. \A b \in Batch : ProgressOf(b)' = ProgressOf(b)
    BY <2>1 DEF ProgressOf
  <2> QED BY <2>3, <2>4, LedgerStays
<1>3. ASSUME NEW w \in Replica, NEW q \in Recipient, ProcessRecipient(w, q)
      PROVE  [Ledger!Next]_(Ledger!vars)
  <2>1. Orderliness(w, q)
    BY <1>0, <1>3, OrderProcess
  <2>2. \A r \in Recipient : r # q => status'[r] = status[r]
    BY <1>0, <1>3, ProcessOthers
  <2>3. CASE UNCHANGED batchVars
    BY <1>0, <2>1, <2>2, <2>3, LedgerSettles DEF Orderliness
  <2>4. CASE Increment(BatchOf[q]) /\ ~Tally(q) /\ Tally(q)' /\ status' = status
    <3>1. step[<<w, q>>] # "idle"
      BY <1>3 DEF ProcessRecipient, Claim, Prepare, Send, RecordSent, RecordRefused,
                  LinkOutcome, Count, FailStatus, FailCount
    <3>2. batchStatus[BatchOf[q]] # "none" /\ Tallied(BatchOf[q])
      BY <1>0, <3>1, SetsAssumption DEF Posted
    <3> QED BY <1>0, <2>4, <3>2, LedgerCounts
  <2> QED BY <2>1, <2>3, <2>4 DEF Orderliness
<1> QED BY <1>1, <1>2, <1>3 DEF Next

(* As long as nothing has thrown and no claim was swept, every step of     *)
(* racing, slow and crashing replicas is a step of BatchLedger or none:    *)
(* an outcome is final, and a batch closes only when all have settled.     *)
THEOREM LedgerKept == SafeSpec => LedgerUntilFault
<1>1. ASSUME IInv, [Next]_vars
      PROVE  [faults' = 0 /\ (\A r \in Recipient : reclaims'[r] = 0)
                => [Ledger!Next]_(Ledger!vars)]_vars
  BY <1>1, LedgerStep DEF Orderly, Calm
<1> QED BY <1>1, Inductive, PTL DEF SafeSpec, LedgerUntilFault

(* A lone replica that loses no reply implements BatchLedger throughout,   *)
(* whatever throws, wherever it crashes and however often it is swept up   *)
(* after: no batch closes early, and no outcome once reported changes.     *)
THEOREM LoneLedgerKept ==
  ASSUME Lone, ~LostReplies
  PROVE  SafeSpec => KeepsLedgerSafely
<1>1. Init => Ledger!Init
  <2> SUFFICES ASSUME Init PROVE Ledger!Init
    OBVIOUS
  <2>1. /\ \A r \in Recipient : OutcomeOf(r) = "none"
        /\ \A b \in Batch : ProgressOf(b) = "none"
    BY DEF Init, OutcomeOf, ProgressOf, Outside
  <2> QED BY <2>1, OutcomeIs, ProgressIs DEF Ledger!Init
<1>2. ASSUME IInv, [Next]_vars
      PROVE  [Ledger!Next]_(Ledger!vars)
  <2>1. Orderly'
    BY DEF Orderly, Lone
  <2> QED BY <1>2, <2>1, LedgerStep
<1> QED BY <1>1, <1>2, Inductive, PTL DEF SafeSpec, KeepsLedgerSafely, Ledger!Spec
=============================================================================
