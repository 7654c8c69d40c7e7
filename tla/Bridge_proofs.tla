--------------------------- MODULE Bridge_proofs ---------------------------
(* Theorems about two components of the realtime bridge that share no      *)
(* state, each proved about on its own: ClaimedJobs, the workers that      *)
(* claim the rows they work on, and VoiceCall, the telephone calls.        *)
EXTENDS ClaimedJobs, VoiceCall, FiniteSetTheorems, SequenceTheorems, WellFoundedInduction, TLAPS

-----------------------------------------------------------------------------
(* ClaimedJobs, for any number of replicas, rows, faults, crashes and slow *)
(* calls, and any batch and split limits.                                  *)

(* The work on a row is owed to a claim: a row that may yet be claimed     *)
(* holds one token, a claim hands it to the replica that is about to work, *)
(* the work spends it, and only a requeueing mints another.                *)
AtWork(j) == {w \in Replica : step[w, j] = "work"}

Unclaimed(j) == IF state[j] \in {"absent", "pending"} THEN 1 ELSE 0

WorkIsOwed ==
  \A j \in Job : worked[j] + Cardinality(AtWork(j)) + Unclaimed(j) <= 1 + requeued[j]

TopicsNeverRequeued == kind = "topic" => \A j \in Job : requeued[j] = 0

-----------------------------------------------------------------------------
(* A replica has one row in hand at a time, and none between two ticks, so *)
(* that it can be between the breaker and the log entry of one split only. *)
OneInHand ==
  \A w \in Replica, i, j \in Job :
    step[w, i] \notin {"idle", "listed"} /\ step[w, j] \notin {"idle", "listed"} => i = j

IdleBetweenTicks == \A w \in Replica : phase[w] # "working" => \A j \in Job : step[w, j] = "idle"

Splitters == {w \in Replica : \E j \in Job : step[w, j] = "split"}

SplitsInFlight == recent + Cardinality(Splitters) <= SplitLimit + Cardinality(Replica) - 1

-----------------------------------------------------------------------------
(* A document that was never torn: one replica at most holds it, and what  *)
(* that one is about to do tells how many copies of its chunks there are.  *)
SweptWhileDeleting == \A w \in Replica : phase[w] # "deleting" => swept[w] = {}

Sweepers(j) == {w \in Replica : j \in swept[w]}

NoSplitOfDocuments ==
  kind = "document" => \A w \in Replica, j \in Job : step[w, j] \notin {"breaker", "split"}

Intact(j) ==
  /\ \A v, w \in Holders(j) : v = w
  /\ \A w \in Holders(j) :
       /\ state[j] \in {"claimed", "failed", "deleted"} /\ Sweepers(j) = {}
       /\ state[j] # "deleted" => chunks[j] = IF step[w, j] = "finish" THEN 1 ELSE 0
  /\ Sweepers(j) # {} => state[j] \in {"pending", "failed", "deleted"}
  /\ state[j] = "absent" => chunks[j] = 0
  /\ state[j] = "pending" => chunks[j] = 0 \/ Sweepers(j) # {}
  /\ state[j] = "done" => chunks[j] = 1

DocumentsIntact == kind = "document" => \A j \in Job \ torn : Intact(j)

JobsInv ==
  /\ TypeOK /\ WorkIsOwed /\ TopicsNeverRequeued
  /\ OneInHand /\ IdleBetweenTicks /\ SplitsInFlight
  /\ SweptWhileDeleting /\ NoSplitOfDocuments /\ DocumentsIntact

-----------------------------------------------------------------------------
(* What a replica does next, after each way of writing it down.            *)
Only(w, j, s) ==
  \A v \in Replica, i \in Job : step'[v, i] = IF v = w /\ i = j THEN s ELSE step[v, i]

OnlyIn(w, S, s) ==
  \A v \in Replica, i \in Job : step'[v, i] = IF v = w /\ i \in S THEN s ELSE step[v, i]

LEMMA StepGoes ==
  ASSUME step \in [Task -> Steps], NEW w \in Replica, NEW j \in Job, NEW s \in Steps, Goto(w, j, s)
  PROVE  step' \in [Task -> Steps] /\ Only(w, j, s)
<1>1. <<w, j>> \in Task /\ \A v \in Replica, i \in Job : <<v, i>> \in Task
  BY DEF Task
<1>2. step' = [step EXCEPT ![<<w, j>>] = s]
  BY DEF Goto
<1> QED BY <1>1, <1>2 DEF Only

LEMMA StepListed ==
  ASSUME step \in [Task -> Steps], NEW w \in Replica, NEW S \in SUBSET Job, NEW s \in Steps,
         step' = [t \in Task |-> IF t[1] = w /\ t[2] \in S THEN s ELSE step[t]]
  PROVE  step' \in [Task -> Steps] /\ OnlyIn(w, S, s)
<1>1. \A v \in Replica, i \in Job : <<v, i>> \in Task /\ <<v, i>>[1] = v /\ <<v, i>>[2] = i
  BY DEF Task
<1> QED BY <1>1 DEF OnlyIn

(* A crash forgets all a replica had in hand.                              *)
LEMMA StepForgotten ==
  ASSUME step \in [Task -> Steps], NEW w \in Replica,
         step' = [t \in Task |-> IF t[1] = w THEN "idle" ELSE step[t]]
  PROVE  /\ step' \in [Task -> Steps]
         /\ \A v \in Replica, i \in Job : step'[v, i] = IF v = w THEN "idle" ELSE step[v, i]
<1>1. \A v \in Replica, i \in Job : <<v, i>> \in Task /\ <<v, i>>[1] = v
  BY DEF Task
<1> QED BY <1>1 DEF Steps

LEMMA BatchesAreSubsets ==
  ASSUME NEW S, NEW T \in Batches(S)
  PROVE  T \subseteq S
BY DEF Batches

-----------------------------------------------------------------------------
(* Types.                                                                  *)
LEMMA TypesKept ==
  ASSUME TypeOK, [Next]_vars
  PROVE  TypeOK'
<1> USE BoundsAssumption
<1> DEFINE Status == {"absent", "pending", "claimed", "done", "failed", "deleted"}
           Phases == {"off", "deleting", "listing", "working"}
<1>0. step \in [Task -> Steps] /\ state \in [Job -> Status] /\ phase \in [Replica -> Phases]
  BY DEF TypeOK
<1>1. ASSUME NEW o \in Replies, Answered(o)
      PROVE  faults' \in 0..MaxFaults
  BY <1>1 DEF TypeOK, Answered
<1>2. ASSUME NEW w \in Replica, NEW o \in Replies, Sweep(w)!(o)
      PROVE  TypeOK'
  <2> DEFINE S == IF Committed(o) THEN Stranded ELSE {}
  <2>1. S \in SUBSET Job
    BY DEF Stranded
  <2>2. state' \in [Job -> Status]
    BY <1>0, <1>2 DEF SweptTo
  <2>3. requeued' \in [Job -> Nat]
    BY <1>2 DEF TypeOK
  <2>4. /\ swept' \in [Replica -> SUBSET Job] /\ torn' \in SUBSET Job /\ stale' \in SUBSET Job
    BY <1>2, <2>1 DEF TypeOK
  <2>5. phase' \in [Replica -> Phases]
    BY <1>0, <1>2
  <2>6. faults' \in 0..MaxFaults
    BY <1>1, <1>2
  <2> QED BY <1>2, <2>2, <2>3, <2>4, <2>5, <2>6 DEF TypeOK
<1>3. ASSUME NEW w \in Replica, NEW o \in Replies, DeleteChunks(w)!(o)
      PROVE  TypeOK'
  <2>1. chunks' \in [Job -> Nat]
    BY <1>3 DEF TypeOK, ChunksDeleted
  <2>2. swept' \in [Replica -> SUBSET Job] /\ torn' \in SUBSET Job
    BY <1>3 DEF TypeOK
  <2>3. phase' \in [Replica -> Phases] /\ faults' \in 0..MaxFaults
    BY <1>0, <1>1, <1>3
  <2> QED BY <1>3, <2>1, <2>2, <2>3 DEF TypeOK, rowVars
<1>4. ASSUME NEW w \in Replica, List(w)
      PROVE  TypeOK'
  <2>1. PICK S \in Batches({j \in Job : state[j] = "pending"}) :
          /\ step' = [t \in Task |-> IF t[1] = w /\ t[2] \in S THEN "listed" ELSE step[t]]
          /\ phase' = [phase EXCEPT ![w] = IF S = {} THEN "off" ELSE "working"]
    BY <1>4 DEF List
  <2>2. S \in SUBSET Job /\ "listed" \in Steps
    BY BatchesAreSubsets DEF Steps
  <2>3. step' \in [Task -> Steps]
    BY <1>0, <2>1, <2>2, StepListed
  <2>4. phase' \in [Replica -> Phases]
    BY <1>0, <2>1
  <2> QED BY <1>4, <2>3, <2>4 DEF TypeOK, List, rowVars, histVars, budgets
<1>5. ASSUME NEW w \in Replica, ListFails(w) \/ EndTick(w)
      PROVE  TypeOK'
  <2>1. phase' \in [Replica -> Phases]
    BY <1>0, <1>5 DEF ListFails, EndTick
  <2>2. faults' \in 0..MaxFaults
    BY <1>1, <1>5 DEF ListFails, EndTick, Replies, budgets, TypeOK
  <2> QED BY <1>5, <2>1, <2>2 DEF TypeOK, ListFails, EndTick, rowVars, histVars, budgets
<1>6. ASSUME NEW w \in Replica, NEW j \in Job, NEW o \in Replies, Claim(w, j)!(o)
      PROVE  TypeOK'
  <2> DEFINE s == IF o # "ok" THEN "fail" ELSE IF Claimable(j) THEN "work" ELSE "idle"
  <2>1. s \in Steps /\ Goto(w, j, s)
    BY <1>6 DEF Steps, Working
  <2>2. step' \in [Task -> Steps]
    BY <1>0, <2>1, StepGoes
  <2>3. state' \in [Job -> Status] /\ stale' \in SUBSET Job /\ torn' \in SUBSET Job
    BY <1>0, <1>6 DEF TypeOK, rowVars
  <2>4. faults' \in 0..MaxFaults
    BY <1>1, <1>6
  <2> QED BY <1>6, <2>2, <2>3, <2>4 DEF TypeOK, loopVars
<1>7. ASSUME NEW w \in Replica, NEW j \in Job, Work(w, j)
      PROVE  TypeOK'
  <2>1. PICK s \in Steps : Goto(w, j, s) /\ (UNCHANGED faults \/ Answered("error"))
    BY <1>7 DEF Work, AfterWork, Steps, Working, TypeOK, Kinds
  <2>2. step' \in [Task -> Steps]
    BY <1>0, <2>1, StepGoes
  <2>3. faults' \in 0..MaxFaults
    BY <1>1, <2>1 DEF Replies, TypeOK
  <2>4. worked' \in [Job -> Nat]
    <3>1. worked \in [Job -> Nat] /\ worked' = [worked EXCEPT ![j] = worked[j] + 1]
      BY <1>7 DEF TypeOK, Work
    <3>2. worked[j] + 1 \in Nat
      BY <3>1
    <3> QED BY <3>1, <3>2
  <2> QED BY <1>7, <2>2, <2>3, <2>4 DEF TypeOK, Work, rowVars, loopVars
<1>8. ASSUME NEW w \in Replica, NEW j \in Job, Breaker(w, j)
      PROVE  TypeOK'
  <2>1. PICK o \in {"ok", "error"} : Breaker(w, j)!(o)
    BY <1>8 DEF Breaker
  <2> DEFINE s == IF o # "ok" THEN "fail" ELSE IF BelowLimit THEN "split" ELSE "finish"
  <2>2. s \in Steps /\ Goto(w, j, s)
    BY <2>1 DEF Steps, Working
  <2>3. step' \in [Task -> Steps]
    BY <1>0, <2>2, StepGoes
  <2>4. faults' \in 0..MaxFaults
    BY <1>1, <2>1 DEF Replies
  <2> QED BY <2>1, <2>3, <2>4 DEF TypeOK, rowVars, loopVars, histVars
<1>9. ASSUME NEW w \in Replica, NEW j \in Job, NEW o \in Replies, Split(w, j)!(o)
      PROVE  TypeOK'
  <2> DEFINE s == IF o = "ok" THEN "finish" ELSE "fail"
  <2>1. s \in Steps /\ Goto(w, j, s)
    BY <1>9 DEF Steps, Working
  <2>2. step' \in [Task -> Steps]
    BY <1>0, <2>1, StepGoes
  <2>3. recent' \in Nat
    <3>1. recent' = recent \/ recent' = recent + 1
      BY <1>9
    <3>2. recent \in Nat
      BY DEF TypeOK
    <3> QED BY <3>1, <3>2
  <2>4. faults' \in 0..MaxFaults
    BY <1>1, <1>9
  <2> QED BY <1>9, <2>2, <2>3, <2>4 DEF TypeOK, rowVars, loopVars, histVars
<1>10. ASSUME NEW w \in Replica, NEW j \in Job, NEW o \in Replies, InsertChunks(w, j)!(o)
       PROVE  TypeOK'
  <2> DEFINE s == IF o = "ok" /\ Exists(j) THEN "finish" ELSE "fail"
  <2>1. s \in Steps /\ Goto(w, j, s)
    BY <1>10 DEF Steps, Working
  <2>2. step' \in [Task -> Steps]
    BY <1>0, <2>1, StepGoes
  <2>3. chunks' \in [Job -> Nat]
    <3>1. chunks \in [Job -> Nat] /\ (chunks' = chunks \/ chunks' = [chunks EXCEPT ![j] = chunks[j] + 1])
      BY <1>10 DEF TypeOK, Inserted
    <3>2. chunks[j] + 1 \in Nat
      BY <3>1
    <3> QED BY <3>1, <3>2
  <2>4. faults' \in 0..MaxFaults
    BY <1>1, <1>10
  <2> QED BY <1>10, <2>2, <2>3, <2>4 DEF TypeOK, rowVars, loopVars, histVars
<1>11. ASSUME NEW w \in Replica, NEW j \in Job, NEW o \in Replies, Settle(w, j)!(o)
       PROVE  TypeOK'
  <2> DEFINE s == IF o # "ok" /\ step[w, j] # "fail" THEN "fail" ELSE "idle"
  <2>1. s \in Steps /\ Goto(w, j, s)
    BY <1>11 DEF Steps, Working
  <2>2. step' \in [Task -> Steps]
    BY <1>0, <2>1, StepGoes
  <2>3. state' \in [Job -> Status] /\ faults' \in 0..MaxFaults
    BY <1>0, <1>1, <1>11 DEF Outcome
  <2> QED BY <1>11, <2>2, <2>3 DEF TypeOK, loopVars, histVars
<1>12. ASSUME NEW w \in Replica, Crash(w)
       PROVE  TypeOK'
  <2>1. step' \in [Task -> Steps]
    BY <1>0, <1>12, StepForgotten DEF Crash
  <2>2. phase' \in [Replica -> Phases]
    BY <1>0, <1>12 DEF Crash
  <2>3. swept' \in [Replica -> SUBSET Job] /\ torn' \in SUBSET Job
    BY <1>12 DEF Crash, TypeOK
  <2>4. crashes' \in 0..MaxCrashes
    BY <1>12 DEF Crash, TypeOK
  <2> QED BY <1>12, <2>1, <2>2, <2>3, <2>4 DEF TypeOK, Crash, rowVars
<1>13. ASSUME NEW j \in Job, ClaimGrowsStale(j) \/ WorkOutlastsClaim(j)
       PROVE  TypeOK'
  <2>1. stale' \in SUBSET Job
    BY <1>13 DEF TypeOK, ClaimGrowsStale, WorkOutlastsClaim
  <2>2. slow' \in 0..MaxSlow
    BY <1>13 DEF TypeOK, ClaimGrowsStale, WorkOutlastsClaim, budgets
  <2> QED BY <1>13, <2>1, <2>2 DEF TypeOK, ClaimGrowsStale, WorkOutlastsClaim, loopVars, histVars, budgets
<1>14. ASSUME NEW j \in Job, CreateDocument(j) \/ DeleteDocument(j)
       PROVE  TypeOK'
  <2>1. state' \in [Job -> Status]
    BY <1>0, <1>14 DEF CreateDocument, DeleteDocument
  <2>2. stale' \in SUBSET Job /\ chunks' \in [Job -> Nat]
    BY <1>14 DEF TypeOK, CreateDocument, DeleteDocument
  <2> QED BY <1>14, <2>1, <2>2 DEF TypeOK, CreateDocument, DeleteDocument, loopVars, histVars, budgets
<1>15. ASSUME WindowMoves
       PROVE  TypeOK'
  <2>1. recent' \in Nat
    BY <1>15 DEF WindowMoves, TypeOK
  <2> QED BY <1>15, <2>1 DEF TypeOK, WindowMoves, rowVars, loopVars, histVars, budgets
<1>16. ASSUME UNCHANGED vars
       PROVE  TypeOK'
  BY <1>16 DEF TypeOK, vars, rowVars, loopVars, histVars, budgets
<1>17. ASSUME NEW w \in Replica, Loop(w) \/ ListFails(w) \/ Crash(w)
       PROVE  TypeOK'
  BY <1>17, <1>2, <1>3, <1>4, <1>5, <1>12 DEF Loop, Sweep, DeleteChunks
<1>18. ASSUME NEW w \in Replica, NEW j \in Job, Process(w, j)
       PROVE  TypeOK'
  BY <1>18, <1>6, <1>7, <1>8, <1>9, <1>10, <1>11 DEF Process, Claim, Split, InsertChunks, Settle
<1> QED BY <1>13, <1>14, <1>15, <1>16, <1>17, <1>18 DEF Next

-----------------------------------------------------------------------------
(* The tokens of one row.                                                  *)
Owed(j) == worked[j] + Cardinality(AtWork(j)) + Unclaimed(j) <= 1 + requeued[j]

LEMMA AtWorkCounts ==
  ASSUME NEW j \in Job
  PROVE  /\ IsFiniteSet(AtWork(j)) /\ Cardinality(AtWork(j)) \in Nat
         /\ IsFiniteSet(AtWork(j)') /\ Cardinality(AtWork(j)') \in Nat
<1>1. AtWork(j) \subseteq Replica /\ AtWork(j)' \subseteq Replica
  BY DEF AtWork
<1>2. IsFiniteSet(AtWork(j)) /\ IsFiniteSet(AtWork(j)')
  BY <1>1, SetsAssumption, FS_Subset
<1> QED BY <1>2, FS_CardinalityType

(* Nobody comes to work on the row and nothing is put back.                *)
LEMMA OwedNoMore ==
  ASSUME TypeOK, NEW j \in Job, Owed(j), AtWork(j)' \subseteq AtWork(j),
         worked'[j] = worked[j], requeued'[j] = requeued[j],
         state[j] \notin {"absent", "pending"} => state'[j] \notin {"absent", "pending"}
  PROVE  Owed(j)'
<1>1. Cardinality(AtWork(j)') <= Cardinality(AtWork(j))
  BY AtWorkCounts, FS_Subset
<1>2. Unclaimed(j)' <= Unclaimed(j) /\ Unclaimed(j)' \in Nat /\ Unclaimed(j) \in Nat
  BY DEF Unclaimed
<1>3. worked[j] \in Nat /\ requeued[j] \in Nat
  BY DEF TypeOK
<1> QED BY <1>1, <1>2, <1>3, AtWorkCounts DEF Owed

(* Only a claim sends a replica to work: any other next step of one leaves *)
(* the others where they are.                                              *)
LEMMA AtWorkShrinks ==
  ASSUME TypeOK, NEW w \in Replica, NEW i \in Job, NEW s \in Steps \ {"work"}, Goto(w, i, s)
  PROVE  \A j \in Job : AtWork(j)' \subseteq AtWork(j)
<1>1. \A v \in Replica, j \in Job : step'[v, j] = IF v = w /\ j = i THEN s ELSE step[v, j]
  <2>1. step \in [Task -> Steps] /\ s \in Steps
    BY DEF TypeOK
  <2>2. Only(w, i, s)
    BY <2>1, StepGoes
  <2> QED BY <2>2 DEF Only
<1> QED BY <1>1 DEF AtWork

LEMMA OwedKept ==
  ASSUME TypeOK, WorkIsOwed, TopicsNeverRequeued, [Next]_vars
  PROVE  WorkIsOwed' /\ TopicsNeverRequeued'
<1> DEFINE Calm == /\ UNCHANGED <<kind, worked, requeued>>
                   /\ \A j \in Job : state[j] \notin {"absent", "pending"} => state'[j] \notin {"absent", "pending"}
<1>0. /\ step \in [Task -> Steps]
      /\ \A j \in Job : Owed(j)
      /\ WorkIsOwed' <=> \A j \in Job : Owed(j)'
  BY DEF TypeOK, WorkIsOwed, Owed
<1>1. ASSUME Calm, \A j \in Job : AtWork(j)' \subseteq AtWork(j)
      PROVE  WorkIsOwed' /\ TopicsNeverRequeued'
  <2>1. \A j \in Job : Owed(j)'
    BY <1>0, <1>1, OwedNoMore
  <2>2. TopicsNeverRequeued'
    BY <1>1 DEF TopicsNeverRequeued
  <2> QED BY <1>0, <2>1, <2>2
<1>2. ASSUME NEW w \in Replica, NEW o \in Replies, Sweep(w)!(o)
      PROVE  WorkIsOwed' /\ TopicsNeverRequeued'
  <2> DEFINE S == IF Committed(o) THEN Stranded ELSE {}
  <2>1. \A j \in S : state[j] = "claimed"
    BY DEF Stranded
  <2>2. \A j \in Job : AtWork(j)' = AtWork(j)
    BY <1>2 DEF AtWork
  <2>3. ASSUME NEW j \in Job
        PROVE  Owed(j)'
    <3>1. CASE j \in S /\ SweptTo = "pending"
      <4>1. requeued'[j] = requeued[j] + 1 /\ state'[j] = "pending" /\ worked'[j] = worked[j]
        BY <1>2, <3>1 DEF TypeOK
      <4>2. Unclaimed(j) = 0 /\ Unclaimed(j)' = 1
        BY <2>1, <3>1, <4>1 DEF Unclaimed
      <4>3. worked[j] \in Nat /\ requeued[j] \in Nat
        BY DEF TypeOK
      <4> QED BY <1>0, <2>2, <4>1, <4>2, <4>3, AtWorkCounts DEF Owed
    <3>2. CASE ~(j \in S /\ SweptTo = "pending")
      <4>1. requeued'[j] = requeued[j] /\ worked'[j] = worked[j]
        BY <1>2, <3>2 DEF TypeOK
      <4>2. state'[j] = state[j] \/ state'[j] = "done"
        BY <1>2, <3>2 DEF TypeOK, SweptTo
      <4> QED BY <1>0, <2>2, <4>1, <4>2, OwedNoMore
    <3> QED BY <3>1, <3>2
  <2>4. TopicsNeverRequeued'
    BY <1>2 DEF TopicsNeverRequeued, SweptTo
  <2> QED BY <1>0, <2>3, <2>4
<1>3. ASSUME NEW w \in Replica, DeleteChunks(w) \/ EndTick(w) \/ ListFails(w)
      PROVE  WorkIsOwed' /\ TopicsNeverRequeued'
  <2>1. UNCHANGED <<kind, worked, requeued, state, step>>
    BY <1>3 DEF DeleteChunks, EndTick, ListFails, rowVars, histVars
  <2> QED BY <1>1, <2>1 DEF AtWork
<1>4. ASSUME NEW w \in Replica, List(w)
      PROVE  WorkIsOwed' /\ TopicsNeverRequeued'
  <2>1. PICK S \in Batches({j \in Job : state[j] = "pending"}) :
          step' = [t \in Task |-> IF t[1] = w /\ t[2] \in S THEN "listed" ELSE step[t]]
    BY <1>4 DEF List
  <2>2. S \in SUBSET Job /\ "listed" \in Steps
    BY BatchesAreSubsets DEF Steps
  <2>3. OnlyIn(w, S, "listed")
    BY <1>0, <2>1, <2>2, StepListed
  <2>4. \A j \in Job : AtWork(j)' \subseteq AtWork(j)
    BY <2>3 DEF AtWork, OnlyIn
  <2>5. Calm
    BY <1>4 DEF List, rowVars, histVars
  <2> QED BY <1>1, <2>4, <2>5
<1>5. ASSUME NEW w \in Replica, NEW i \in Job, NEW o \in Replies, Claim(w, i)!(o)
      PROVE  WorkIsOwed' /\ TopicsNeverRequeued'
  <2> DEFINE s == IF o # "ok" THEN "fail" ELSE IF Claimable(i) THEN "work" ELSE "idle"
  <2>1. s \in Steps /\ Goto(w, i, s)
    BY <1>5 DEF Steps, Working
  <2>2. UNCHANGED <<kind, worked, requeued>>
    BY <1>5
  <2>3. state' = state \/ (Claimable(i) /\ state' = [state EXCEPT ![i] = "claimed"])
    BY <1>5 DEF rowVars
  <2>4. \A j \in Job : state[j] \notin {"absent", "pending"} => state'[j] \notin {"absent", "pending"}
    BY <2>3 DEF TypeOK
  <2>5. CASE s # "work"
    BY <1>1, <2>1, <2>2, <2>4, <2>5, AtWorkShrinks
  <2>6. CASE s = "work"
    <3>1. Claimable(i) /\ state' = [state EXCEPT ![i] = "claimed"]
      BY <1>5, <2>6 DEF Committed
    <3>2. \A v \in Replica, j \in Job : step'[v, j] = IF v = w /\ j = i THEN "work" ELSE step[v, j]
      <4>1. \A v \in Replica, j \in Job : step'[v, j] = IF v = w /\ j = i THEN s ELSE step[v, j]
        <5>1. Only(w, i, s)
          BY <1>0, <2>1, StepGoes
        <5> QED BY <5>1 DEF Only
      <4> QED BY <2>6, <4>1
    <3>3. ASSUME NEW j \in Job, j # i
          PROVE  Owed(j)'
      <4>1. AtWork(j)' \subseteq AtWork(j)
        BY <3>2, <3>3 DEF AtWork
      <4> QED BY <1>0, <2>2, <2>4, <4>1, OwedNoMore
    <3>4. Owed(i)'
      <4>1. AtWork(i)' \subseteq AtWork(i) \cup {w}
        BY <3>2 DEF AtWork
      <4>2. /\ IsFiniteSet(AtWork(i) \cup {w})
            /\ Cardinality(AtWork(i) \cup {w}) = IF w \in AtWork(i) THEN Cardinality(AtWork(i)) ELSE Cardinality(AtWork(i)) + 1
        BY AtWorkCounts, FS_AddElement
      <4>3. Cardinality(AtWork(i)') <= Cardinality(AtWork(i)) + 1
        BY <4>1, <4>2, AtWorkCounts, FS_Subset
      <4>4. Unclaimed(i) = 1 /\ Unclaimed(i)' = 0
        BY <3>1 DEF Unclaimed, Claimable, TypeOK
      <4>5. worked[i] \in Nat /\ requeued[i] \in Nat
        BY DEF TypeOK
      <4> QED BY <1>0, <2>2, <4>3, <4>4, <4>5, AtWorkCounts DEF Owed
    <3>5. TopicsNeverRequeued'
      BY <2>2 DEF TopicsNeverRequeued
    <3> QED BY <1>0, <3>3, <3>4, <3>5
  <2> QED BY <2>5, <2>6
<1>6. ASSUME NEW w \in Replica, NEW i \in Job, Work(w, i)
      PROVE  WorkIsOwed' /\ TopicsNeverRequeued'
  <2>1. PICK s \in Steps \ {"work"} : Goto(w, i, s)
    BY <1>6 DEF Work, AfterWork, Steps, Working, TypeOK, Kinds
  <2>2. \A v \in Replica, j \in Job : step'[v, j] = IF v = w /\ j = i THEN s ELSE step[v, j]
    <3>1. s \in Steps
      OBVIOUS
    <3>2. Only(w, i, s)
      BY <1>0, <2>1, <3>1, StepGoes
    <3> QED BY <3>2 DEF Only
  <2>3. UNCHANGED <<kind, state, requeued>> /\ worked' = [worked EXCEPT ![i] = worked[i] + 1]
    BY <1>6 DEF Work, rowVars
  <2>4. ASSUME NEW j \in Job, j # i
        PROVE  Owed(j)'
    <3>1. worked'[j] = worked[j]
      BY <2>3, <2>4 DEF TypeOK
    <3>2. AtWork(j)' \subseteq AtWork(j)
      BY <2>2 DEF AtWork
    <3> QED BY <1>0, <2>3, <3>1, <3>2, OwedNoMore
  <2>5. Owed(i)'
    <3>1. w \in AtWork(i) /\ AtWork(i)' = AtWork(i) \ {w}
      BY <1>6, <2>1, <2>2 DEF AtWork, Work
    <3>2. Cardinality(AtWork(i)') = Cardinality(AtWork(i)) - 1
      BY <3>1, AtWorkCounts, FS_RemoveElement
    <3>3. worked[i] \in Nat /\ requeued[i] \in Nat /\ worked'[i] = worked[i] + 1
      BY <2>3 DEF TypeOK
    <3>4. Unclaimed(i)' = Unclaimed(i) /\ Unclaimed(i) \in Nat /\ requeued'[i] = requeued[i]
      BY <2>3 DEF Unclaimed
    <3> QED BY <1>0, <3>2, <3>3, <3>4, AtWorkCounts DEF Owed
  <2>6. TopicsNeverRequeued'
    BY <2>3 DEF TopicsNeverRequeued
  <2> QED BY <1>0, <2>4, <2>5, <2>6
<1>7. ASSUME NEW w \in Replica, NEW i \in Job, Breaker(w, i) \/ Split(w, i) \/ InsertChunks(w, i)
      PROVE  WorkIsOwed' /\ TopicsNeverRequeued'
  <2>1. PICK s \in Steps \ {"work"} : Goto(w, i, s)
    BY <1>7 DEF Breaker, Split, InsertChunks, Steps, Working
  <2>2. Calm
    BY <1>7 DEF Breaker, Split, InsertChunks, rowVars, histVars
  <2> QED BY <1>1, <2>1, <2>2, AtWorkShrinks
<1>8. ASSUME NEW w \in Replica, NEW i \in Job, NEW o \in Replies, Settle(w, i)!(o)
      PROVE  WorkIsOwed' /\ TopicsNeverRequeued'
  <2>1. PICK s \in Steps \ {"work"} : Goto(w, i, s)
    BY <1>8 DEF Steps, Working
  <2>2. state' = state \/ \E a \in {"done", "failed"} : state' = [state EXCEPT ![i] = a]
    BY <1>8 DEF Outcome
  <2>3. Calm
    BY <1>8, <2>2 DEF histVars, TypeOK
  <2> QED BY <1>1, <2>1, <2>3, AtWorkShrinks
<1>9. ASSUME NEW w \in Replica, Crash(w)
      PROVE  WorkIsOwed' /\ TopicsNeverRequeued'
  <2>1. \A v \in Replica, i \in Job : step'[v, i] = IF v = w THEN "idle" ELSE step[v, i]
    BY <1>0, <1>9, StepForgotten DEF Crash
  <2>2. \A j \in Job : AtWork(j)' \subseteq AtWork(j)
    BY <2>1 DEF AtWork
  <2>3. Calm
    BY <1>9 DEF Crash, rowVars
  <2> QED BY <1>1, <2>2, <2>3
<1>10. ASSUME NEW i \in Job, ClaimGrowsStale(i) \/ WorkOutlastsClaim(i) \/ CreateDocument(i) \/ DeleteDocument(i)
       PROVE  WorkIsOwed' /\ TopicsNeverRequeued'
  <2>1. \A j \in Job : AtWork(j)' \subseteq AtWork(j)
    BY <1>10 DEF AtWork, ClaimGrowsStale, WorkOutlastsClaim, CreateDocument, DeleteDocument
  <2>2. Calm
    BY <1>10 DEF ClaimGrowsStale, WorkOutlastsClaim, CreateDocument, DeleteDocument, histVars, TypeOK
  <2> QED BY <1>1, <2>1, <2>2
<1>11. ASSUME WindowMoves \/ UNCHANGED vars
       PROVE  WorkIsOwed' /\ TopicsNeverRequeued'
  <2>1. UNCHANGED <<kind, worked, requeued, state, step>>
    BY <1>11 DEF WindowMoves, vars, rowVars, histVars
  <2> QED BY <1>1, <2>1 DEF AtWork
<1> HIDE DEF Calm
<1>12. ASSUME NEW w \in Replica, Loop(w) \/ ListFails(w) \/ Crash(w)
       PROVE  WorkIsOwed' /\ TopicsNeverRequeued'
  BY <1>12, <1>2, <1>3, <1>4, <1>9 DEF Loop, Sweep
<1>13. ASSUME NEW w \in Replica, NEW j \in Job, Process(w, j)
       PROVE  WorkIsOwed' /\ TopicsNeverRequeued'
  BY <1>13, <1>5, <1>6, <1>7, <1>8 DEF Process, Claim, Settle
<1> QED BY <1>10, <1>11, <1>12, <1>13 DEF Next

-----------------------------------------------------------------------------
(* The breaker.                                                            *)
Hands == OneInHand /\ IdleBetweenTicks

(* A replica goes on with the row it has in hand, or takes the next one of *)
(* its list when it has none.                                              *)
LEMMA HandsGoOn ==
  ASSUME Hands, NEW w \in Replica, NEW j \in Job, NEW s, Only(w, j, s), UNCHANGED phase,
         \/ step[w, j] \notin {"idle", "listed"}
         \/ step[w, j] = "listed" /\ \A i \in Job : step[w, i] \in {"idle", "listed"}
  PROVE  Hands'
<1>1. ASSUME NEW i \in Job, i # j
      PROVE  step[w, i] \in {"idle", "listed"}
  BY <1>1 DEF Hands, OneInHand
<1>2. OneInHand'
  <2> SUFFICES ASSUME NEW v \in Replica, NEW i \in Job, NEW k \in Job,
                      step'[v, i] \notin {"idle", "listed"}, step'[v, k] \notin {"idle", "listed"}
               PROVE  i = k
    BY DEF OneInHand
  <2>1. CASE v = w
    BY <1>1, <2>1 DEF Only
  <2>2. CASE v # w
    <3>1. step'[v, i] = step[v, i] /\ step'[v, k] = step[v, k]
      BY <2>2 DEF Only
    <3> QED BY <3>1 DEF Hands, OneInHand
  <2> QED BY <2>1, <2>2
<1>3. phase[w] = "working"
  BY DEF Hands, IdleBetweenTicks
<1>4. IdleBetweenTicks'
  <2> SUFFICES ASSUME NEW v \in Replica, phase'[v] # "working", NEW i \in Job
               PROVE  step'[v, i] = "idle"
    BY DEF IdleBetweenTicks
  <2>1. v # w /\ step[v, i] = "idle"
    BY <1>3 DEF Hands, IdleBetweenTicks
  <2> QED BY <2>1 DEF Only
<1> QED BY <1>2, <1>4 DEF Hands

(* Replicas count as finite sets.                                          *)
LEMMA SplittersCount ==
  /\ IsFiniteSet(Splitters) /\ Cardinality(Splitters) \in Nat
  /\ Cardinality(Splitters) <= Cardinality(Replica) /\ Cardinality(Replica) \in Nat
<1>1. Splitters \subseteq Replica
  BY DEF Splitters
<1>2. IsFiniteSet(Splitters) /\ Cardinality(Splitters) <= Cardinality(Replica)
  BY <1>1, SetsAssumption, FS_Subset
<1> QED BY <1>2, SetsAssumption, FS_CardinalityType

LEMMA NoNewSplitter ==
  ASSUME TypeOK, SplitsInFlight, Splitters' \subseteq Splitters, recent' \in Nat, recent' <= recent
  PROVE  SplitsInFlight'
<1>1. IsFiniteSet(Splitters') /\ Cardinality(Splitters') <= Cardinality(Splitters)
  BY SplittersCount, FS_Subset
<1>2. Cardinality(Splitters') \in Nat
  BY <1>1, FS_CardinalityType
<1>3. recent \in Nat /\ SplitLimit \in Nat
  BY BoundsAssumption DEF TypeOK
<1> QED BY <1>1, <1>2, <1>3, SplittersCount DEF SplitsInFlight

LEMMA BreakerKept ==
  ASSUME TypeOK, TypeOK', Hands, SplitsInFlight, [Next]_vars
  PROVE  Hands' /\ SplitsInFlight'
<1>0. step \in [Task -> Steps] /\ recent \in Nat /\ recent' \in Nat /\ phase \in [Replica -> {"off", "deleting", "listing", "working"}]
  BY DEF TypeOK
<1>1. ASSUME UNCHANGED <<phase, step>>, recent' <= recent
      PROVE  Hands' /\ SplitsInFlight'
  <2>1. Splitters' = Splitters
    BY <1>1 DEF Splitters
  <2> QED BY <1>0, <1>1, <2>1, NoNewSplitter DEF Hands, OneInHand, IdleBetweenTicks
<1>2. ASSUME NEW w \in Replica, Sweep(w) \/ DeleteChunks(w) \/ ListFails(w) \/ EndTick(w)
      PROVE  Hands' /\ SplitsInFlight'
  <2>1. UNCHANGED <<step, recent>>
    BY <1>2 DEF Sweep, DeleteChunks, ListFails, EndTick
  <2>2. \A j \in Job : step[w, j] = "idle"
    BY <1>2 DEF Sweep, DeleteChunks, ListFails, EndTick, Hands, IdleBetweenTicks
  <2>3. \A v \in Replica : v # w => phase'[v] = phase[v]
    BY <1>0, <1>2 DEF Sweep, DeleteChunks, ListFails, EndTick
  <2>4. Hands'
    BY <2>1, <2>2, <2>3 DEF Hands, OneInHand, IdleBetweenTicks
  <2>5. Splitters' = Splitters /\ recent' <= recent
    BY <1>0, <2>1 DEF Splitters
  <2> QED BY <1>0, <2>4, <2>5, NoNewSplitter
<1>3. ASSUME NEW w \in Replica, List(w)
      PROVE  Hands' /\ SplitsInFlight'
  <2>1. PICK S \in Batches({j \in Job : state[j] = "pending"}) :
          /\ step' = [t \in Task |-> IF t[1] = w /\ t[2] \in S THEN "listed" ELSE step[t]]
          /\ phase' = [phase EXCEPT ![w] = IF S = {} THEN "off" ELSE "working"]
    BY <1>3 DEF List
  <2>2. S \in SUBSET Job /\ "listed" \in Steps
    BY BatchesAreSubsets DEF Steps
  <2>3. OnlyIn(w, S, "listed")
    BY <1>0, <2>1, <2>2, StepListed
  <2>4. \A j \in Job : step[w, j] = "idle"
    BY <1>3 DEF List, Hands, IdleBetweenTicks
  <2>5. OneInHand'
    BY <2>3 DEF Hands, OneInHand, OnlyIn
  <2>6. IdleBetweenTicks'
    <3> SUFFICES ASSUME NEW v \in Replica, phase'[v] # "working", NEW i \in Job
                 PROVE  step'[v, i] = "idle"
      BY DEF IdleBetweenTicks
    <3>1. CASE v = w
      <4>1. S = {}
        BY <1>0, <2>1, <3>1
      <4> QED BY <2>3, <2>4, <3>1, <4>1 DEF OnlyIn
    <3>2. CASE v # w
      <4>1. step[v, i] = "idle"
        BY <1>0, <2>1, <3>2 DEF Hands, IdleBetweenTicks
      <4> QED BY <2>3, <3>2, <4>1 DEF OnlyIn
    <3> QED BY <3>1, <3>2
  <2>7. Splitters' \subseteq Splitters
    BY <2>3 DEF Splitters, OnlyIn
  <2>8. recent' <= recent
    BY <1>0, <1>3 DEF List
  <2> QED BY <1>0, <2>5, <2>6, <2>7, <2>8, NoNewSplitter DEF Hands
<1>4. ASSUME NEW w \in Replica, NEW j \in Job, NEW s \in Steps \ {"split"}, Goto(w, j, s),
             UNCHANGED <<phase, recent>>,
             \/ step[w, j] \notin {"idle", "listed"}
             \/ step[w, j] = "listed" /\ \A i \in Job : step[w, i] \in {"idle", "listed"}
      PROVE  Hands' /\ SplitsInFlight'
  <2>1. s \in Steps
    OBVIOUS
  <2>2. Only(w, j, s)
    BY <1>0, <1>4, <2>1, StepGoes
  <2>3. Hands'
    BY <1>4, <2>2, HandsGoOn
  <2>4. Splitters' \subseteq Splitters
    BY <2>2 DEF Splitters, Only
  <2>5. recent' <= recent
    <3>1. recent' = recent
      BY <1>4
    <3> QED BY <1>0, <3>1
  <2> QED BY <1>0, <2>3, <2>4, <2>5, NoNewSplitter
<1>5. ASSUME NEW w \in Replica, NEW j \in Job, Claim(w, j)
      PROVE  Hands' /\ SplitsInFlight'
  <2>1. PICK s \in Steps \ {"split"} : Goto(w, j, s)
    BY <1>5 DEF Claim, Steps, Working
  <2> QED BY <1>4, <1>5, <2>1 DEF Claim, loopVars
<1>6. ASSUME NEW w \in Replica, NEW j \in Job, Work(w, j) \/ InsertChunks(w, j) \/ Settle(w, j)
      PROVE  Hands' /\ SplitsInFlight'
  <2>1. PICK s \in Steps \ {"split"} : Goto(w, j, s)
    BY <1>6 DEF Work, InsertChunks, Settle, AfterWork, Steps, Working, TypeOK, Kinds
  <2>2. step[w, j] \notin {"idle", "listed"} /\ UNCHANGED <<phase, recent>>
    BY <1>6 DEF Work, InsertChunks, Settle, loopVars
  <2> QED BY <1>4, <2>1, <2>2
<1>7. ASSUME NEW w \in Replica, NEW j \in Job, Breaker(w, j)
      PROVE  Hands' /\ SplitsInFlight'
  <2>1. step[w, j] = "breaker" /\ UNCHANGED <<phase, recent>>
    BY <1>7 DEF Breaker, loopVars
  <2>2. PICK s \in {"fail", "split", "finish"} : Goto(w, j, s) /\ (s = "split" => BelowLimit)
    BY <1>7 DEF Breaker
  <2>3. CASE s # "split"
    <3>1. s \in Steps \ {"split"}
      BY <2>3 DEF Steps, Working
    <3> QED BY <1>4, <2>1, <2>2, <3>1
  <2>4. CASE s = "split"
    <3>1. s \in Steps
      BY <2>4 DEF Steps, Working
    <3>2. Only(w, j, s)
      BY <1>0, <2>2, <3>1, StepGoes
    <3>3. Hands'
      BY <2>1, <3>2, HandsGoOn
    <3>4. Splitters' \subseteq Replica
      BY DEF Splitters
    <3>5. IsFiniteSet(Splitters') /\ Cardinality(Splitters') <= Cardinality(Replica)
      BY <3>4, SetsAssumption, FS_Subset
    <3>6. Cardinality(Splitters') \in Nat
      BY <3>5, FS_CardinalityType
    <3>7. recent' < SplitLimit /\ SplitLimit \in Nat
      BY <2>1, <2>2, <2>4, BoundsAssumption DEF BelowLimit
    <3>8. SplitsInFlight'
      BY <1>0, <3>5, <3>6, <3>7, SplittersCount DEF SplitsInFlight
    <3> QED BY <3>3, <3>8
  <2> QED BY <2>3, <2>4
<1>8. ASSUME NEW w \in Replica, NEW j \in Job, Split(w, j)
      PROVE  Hands' /\ SplitsInFlight'
  <2>1. step[w, j] = "split" /\ UNCHANGED phase /\ (recent' = recent \/ recent' = recent + 1)
    BY <1>8 DEF Split, loopVars
  <2>2. PICK s \in {"finish", "fail"} : Goto(w, j, s)
    BY <1>8 DEF Split
  <2>3. s \in Steps
    BY DEF Steps, Working
  <2>4. Only(w, j, s)
    BY <1>0, <2>2, <2>3, StepGoes
  <2>5. Hands'
    BY <2>1, <2>4, HandsGoOn
  <2>6. w \in Splitters
    BY <2>1 DEF Splitters
  <2>7. \A i \in Job : i # j => step[w, i] \in {"idle", "listed"}
    BY <2>1 DEF Hands, OneInHand
  <2>8. Splitters' = Splitters \ {w}
    BY <2>4, <2>7 DEF Splitters, Only
  <2>9. IsFiniteSet(Splitters') /\ Cardinality(Splitters') = Cardinality(Splitters) - 1
    BY <2>6, <2>8, SplittersCount, FS_RemoveElement
  <2>10. Cardinality(Splitters') \in Nat /\ SplitLimit \in Nat
    BY <2>9, FS_CardinalityType, BoundsAssumption
  <2>11. SplitsInFlight'
    <3>1. recent + Cardinality(Splitters) <= SplitLimit + Cardinality(Replica) - 1
      BY DEF SplitsInFlight
    <3>2. recent' + Cardinality(Splitters') <= recent + Cardinality(Splitters)
      <4>1. /\ Cardinality(Splitters') = Cardinality(Splitters) - 1
            /\ Cardinality(Splitters) \in Nat
        BY <2>9, SplittersCount
      <4>2. recent' <= recent + 1
        <5>1. recent \in Nat
          BY <1>0
        <5>2. recent' = recent \/ recent' = recent + 1
          BY <2>1
        <5> QED BY <5>1, <5>2
      <4> QED BY <1>0, <4>1, <4>2
    <3> QED BY <1>0, <2>10, <3>1, <3>2, SplittersCount DEF SplitsInFlight
  <2> QED BY <2>5, <2>11
<1>9. ASSUME NEW w \in Replica, Crash(w)
      PROVE  Hands' /\ SplitsInFlight'
  <2>1. \A v \in Replica, i \in Job : step'[v, i] = IF v = w THEN "idle" ELSE step[v, i]
    BY <1>0, <1>9, StepForgotten DEF Crash
  <2>2. \A v \in Replica : v # w => phase'[v] = phase[v]
    BY <1>0, <1>9 DEF Crash
  <2>3. Hands'
    <3>1. OneInHand'
      <4>1. \A v \in Replica, i \in Job : step'[v, i] \notin {"idle", "listed"} => step'[v, i] = step[v, i]
        BY <2>1
      <4> QED BY <4>1 DEF Hands, OneInHand
    <3>2. IdleBetweenTicks'
      BY <2>1, <2>2 DEF Hands, IdleBetweenTicks
    <3> QED BY <3>1, <3>2 DEF Hands
  <2>4. Splitters' \subseteq Splitters
    BY <2>1 DEF Splitters
  <2>5. recent' <= recent
    BY <1>0, <1>9 DEF Crash
  <2> QED BY <1>0, <2>3, <2>4, <2>5, NoNewSplitter
<1>10. ASSUME NEW j \in Job, ClaimGrowsStale(j) \/ WorkOutlastsClaim(j) \/ CreateDocument(j) \/ DeleteDocument(j)
       PROVE  Hands' /\ SplitsInFlight'
  <2>1. UNCHANGED <<phase, step, recent>>
    BY <1>10 DEF ClaimGrowsStale, WorkOutlastsClaim, CreateDocument, DeleteDocument, loopVars
  <2> QED BY <1>0, <1>1, <2>1
<1>11. ASSUME WindowMoves \/ UNCHANGED vars
       PROVE  Hands' /\ SplitsInFlight'
  <2>1. UNCHANGED <<phase, step>> /\ recent' <= recent
    BY <1>0, <1>11 DEF WindowMoves, vars, loopVars
  <2> QED BY <1>1, <2>1
<1>12. ASSUME NEW w \in Replica, Loop(w) \/ ListFails(w) \/ Crash(w)
       PROVE  Hands' /\ SplitsInFlight'
  BY <1>12, <1>2, <1>3, <1>9 DEF Loop
<1>13. ASSUME NEW w \in Replica, NEW j \in Job, Process(w, j)
       PROVE  Hands' /\ SplitsInFlight'
  BY <1>13, <1>5, <1>6, <1>7, <1>8 DEF Process
<1> QED BY <1>10, <1>11, <1>12, <1>13 DEF Next

-----------------------------------------------------------------------------
(* A document's chunks.  Nothing happens to a document while its row and   *)
(* chunks stay and its holder, if any, only moves on or leaves.            *)
LEMMA IntactStays ==
  ASSUME NEW j \in Job, Intact(j), state'[j] = state[j], chunks'[j] = chunks[j],
         Sweepers(j)' = Sweepers(j),
         \A w \in Replica : step'[w, j] \in Working =>
           step[w, j] \in Working /\ (step'[w, j] = "finish" <=> step[w, j] = "finish")
  PROVE  Intact(j)'
BY DEF Intact, Holders

Swept == SweptWhileDeleting /\ NoSplitOfDocuments

LEMMA SweptKept ==
  ASSUME TypeOK, Swept, [Next]_vars
  PROVE  Swept'
<1>0. /\ step \in [Task -> Steps] /\ swept \in [Replica -> SUBSET Job]
      /\ phase \in [Replica -> {"off", "deleting", "listing", "working"}]
  BY DEF TypeOK
<1>1. ASSUME NEW w \in Replica, NEW o \in Replies, Sweep(w)!(o)
      PROVE  Swept'
  <2>1. \A v \in Replica : v # w => phase'[v] = phase[v] /\ swept'[v] = swept[v]
    BY <1>0, <1>1
  <2>2. phase'[w] # "deleting" => swept'[w] = {}
    BY <1>0, <1>1
  <2>3. SweptWhileDeleting'
    BY <2>1, <2>2 DEF Swept, SweptWhileDeleting
  <2> QED BY <1>1, <2>3 DEF Swept, NoSplitOfDocuments
<1>2. ASSUME NEW w \in Replica, NEW o \in Replies, DeleteChunks(w)!(o)
      PROVE  Swept'
  <2>1. \A v \in Replica : v # w => phase'[v] = phase[v] /\ swept'[v] = swept[v]
    BY <1>0, <1>2
  <2>2. swept'[w] = {}
    BY <1>0, <1>2
  <2>3. SweptWhileDeleting'
    BY <2>1, <2>2 DEF Swept, SweptWhileDeleting
  <2> QED BY <1>2, <2>3 DEF Swept, NoSplitOfDocuments
<1>3. ASSUME NEW w \in Replica, ListFails(w) \/ EndTick(w)
      PROVE  Swept'
  <2>1. phase[w] # "deleting" /\ UNCHANGED <<kind, step, swept>>
    BY <1>3 DEF ListFails, EndTick
  <2>2. \A v \in Replica : v # w => phase'[v] = phase[v]
    BY <1>0, <1>3 DEF ListFails, EndTick
  <2> QED BY <2>1, <2>2 DEF Swept, SweptWhileDeleting, NoSplitOfDocuments
<1>4. ASSUME NEW w \in Replica, List(w)
      PROVE  Swept'
  <2>1. PICK S \in Batches({j \in Job : state[j] = "pending"}) :
          /\ step' = [t \in Task |-> IF t[1] = w /\ t[2] \in S THEN "listed" ELSE step[t]]
          /\ phase' = [phase EXCEPT ![w] = IF S = {} THEN "off" ELSE "working"]
    BY <1>4 DEF List
  <2>2. S \in SUBSET Job /\ "listed" \in Steps
    BY BatchesAreSubsets DEF Steps
  <2>3. OnlyIn(w, S, "listed")
    BY <1>0, <2>1, <2>2, StepListed
  <2>4. phase[w] # "deleting" /\ UNCHANGED <<kind, swept>>
    BY <1>4 DEF List
  <2>5. \A v \in Replica : v # w => phase'[v] = phase[v]
    BY <1>0, <2>1
  <2>6. SweptWhileDeleting'
    BY <2>4, <2>5 DEF Swept, SweptWhileDeleting
  <2>7. NoSplitOfDocuments'
    BY <2>3, <2>4 DEF Swept, NoSplitOfDocuments, OnlyIn
  <2> QED BY <2>6, <2>7 DEF Swept
<1>5. ASSUME NEW w \in Replica, NEW j \in Job, Process(w, j)
      PROVE  Swept'
  <2>1. UNCHANGED <<kind, phase, swept>>
    BY <1>5 DEF Process, Claim, Work, Breaker, Split, InsertChunks, Settle, loopVars
  <2>2. SweptWhileDeleting'
    BY <2>1 DEF Swept, SweptWhileDeleting
  <2>3. NoSplitOfDocuments'
    <3>1. SUFFICES ASSUME kind = "document" PROVE NoSplitOfDocuments'
      BY <2>1 DEF NoSplitOfDocuments
    <3>2. step[w, j] \notin {"breaker", "split"}
      BY <3>1 DEF Swept, NoSplitOfDocuments
    <3>3. PICK s \in Steps \ {"breaker", "split"} : Goto(w, j, s)
      <4>1. CASE Claim(w, j)
        BY <4>1 DEF Claim, Steps, Working
      <4>2. CASE Work(w, j)
        BY <3>1, <4>2 DEF Work, AfterWork, Steps, Working
      <4>3. CASE InsertChunks(w, j) \/ Settle(w, j)
        BY <4>3 DEF InsertChunks, Settle, Steps, Working
      <4> QED BY <1>5, <3>2, <4>1, <4>2, <4>3 DEF Process, Breaker, Split
    <3>4. s \in Steps
      OBVIOUS
    <3>5. Only(w, j, s)
      BY <1>0, <3>3, <3>4, StepGoes
    <3> QED BY <3>1, <3>5 DEF Swept, NoSplitOfDocuments, Only
  <2> QED BY <2>2, <2>3 DEF Swept
<1>6. ASSUME NEW w \in Replica, Crash(w)
      PROVE  Swept'
  <2>1. \A v \in Replica, i \in Job : step'[v, i] = IF v = w THEN "idle" ELSE step[v, i]
    BY <1>0, <1>6, StepForgotten DEF Crash
  <2>2. \A v \in Replica : v # w => phase'[v] = phase[v] /\ swept'[v] = swept[v]
    BY <1>0, <1>6 DEF Crash
  <2>3. swept'[w] = {} /\ kind' = kind
    BY <1>0, <1>6 DEF Crash
  <2>4. SweptWhileDeleting'
    BY <2>2, <2>3 DEF Swept, SweptWhileDeleting
  <2>5. NoSplitOfDocuments'
    BY <2>1, <2>3 DEF Swept, NoSplitOfDocuments
  <2> QED BY <2>4, <2>5 DEF Swept
<1>7. ASSUME UNCHANGED <<kind, phase, swept, step>>
      PROVE  Swept'
  BY <1>7 DEF Swept, SweptWhileDeleting, NoSplitOfDocuments
<1>8. ASSUME NEW j \in Job,
             ClaimGrowsStale(j) \/ WorkOutlastsClaim(j) \/ CreateDocument(j) \/ DeleteDocument(j)
      PROVE  Swept'
  BY <1>7, <1>8 DEF ClaimGrowsStale, WorkOutlastsClaim, CreateDocument, DeleteDocument, loopVars
<1>9. ASSUME WindowMoves \/ UNCHANGED vars
      PROVE  Swept'
  BY <1>7, <1>9 DEF WindowMoves, vars, loopVars
<1> QED BY <1>1, <1>2, <1>3, <1>4, <1>5, <1>6, <1>8, <1>9 DEF Next, Loop, Sweep, DeleteChunks

(* What the one document a replica works on goes through.                  *)
LEMMA IntactWorkedOn ==
  ASSUME TypeOK, kind = "document", Swept, NEW w \in Replica, NEW j \in Job, Process(w, j),
         Intact(j), j \notin torn'
  PROVE  Intact(j)'
<1>0. /\ step \in [Task -> Steps]
      /\ state \in [Job -> {"absent", "pending", "claimed", "done", "failed", "deleted"}]
      /\ chunks \in [Job -> Nat]
  BY DEF TypeOK
<1>1. Sweepers(j)' = Sweepers(j)
  BY DEF Sweepers, Process, Claim, Work, Breaker, Split, InsertChunks, Settle, loopVars
<1>2. ASSUME NEW o \in Replies, Claim(w, j)!(o)
      PROVE  Intact(j)'
  <2> DEFINE s == IF o # "ok" THEN "fail" ELSE IF Claimable(j) THEN "work" ELSE "idle"
  <2>1. s \in Steps /\ Goto(w, j, s) /\ step[w, j] = "listed" /\ UNCHANGED chunks
    BY <1>2 DEF Steps, Working
  <2>2. Only(w, j, s)
    BY <1>0, <2>1, StepGoes
  <2>3. CASE Committed(o) /\ Claimable(j)
    <3>1. state[j] = "pending" /\ state'[j] = "claimed"
      BY <1>0, <1>2, <2>3 DEF Claimable
    <3>2. Sweepers(j) = {}
      BY <1>2, <2>3 DEF Sweepers
    <3>3. Holders(j) = {} /\ chunks[j] = 0
      BY <3>1, <3>2 DEF Intact
    <3>4. \A v \in Holders(j)' : v = w /\ step'[v, j] = "work"
      BY <2>2, <3>3 DEF Only, Holders, Working
    <3>5. chunks'[j] = 0
      BY <2>1, <3>3
    <3> QED BY <1>1, <3>1, <3>2, <3>4, <3>5 DEF Intact
  <2>4. CASE ~(Committed(o) /\ Claimable(j))
    <3>1. s \notin Working
      BY <2>4 DEF Working, Committed
    <3>2. state' = state
      BY <1>2, <2>4 DEF rowVars
    <3> QED BY <1>1, <2>1, <2>2, <3>1, <3>2, IntactStays DEF Only
  <2> QED BY <2>3, <2>4
<1>3. ASSUME Work(w, j)
      PROVE  Intact(j)'
  <2>1. PICK s \in {"insert", "reject", "fail"} : Goto(w, j, s)
    BY <1>3 DEF Work, AfterWork
  <2>2. s \in Steps
    BY DEF Steps, Working
  <2>3. Only(w, j, s)
    BY <1>0, <2>1, <2>2, StepGoes
  <2>4. step[w, j] = "work" /\ UNCHANGED <<state, chunks>>
    BY <1>3 DEF Work, rowVars
  <2> QED BY <1>1, <2>3, <2>4, IntactStays DEF Only, Working
<1>4. ASSUME NEW o \in Replies, InsertChunks(w, j)!(o)
      PROVE  Intact(j)'
  <2> DEFINE s == IF o = "ok" /\ Exists(j) THEN "finish" ELSE "fail"
  <2>1. s \in Steps /\ Goto(w, j, s) /\ step[w, j] = "insert" /\ UNCHANGED state
    BY <1>4 DEF Steps, Working, rowVars
  <2>2. Only(w, j, s)
    BY <1>0, <2>1, StepGoes
  <2>3. w \in Holders(j)
    BY <2>1 DEF Holders, Working
  <2>4. /\ state[j] \in {"claimed", "failed", "deleted"} /\ Sweepers(j) = {}
        /\ state[j] # "deleted" => chunks[j] = 0
    BY <2>1, <2>3 DEF Intact
  <2>5. \A v \in Holders(j)' : v = w /\ step'[v, j] = s
    BY <2>2, <2>3 DEF Intact, Only, Holders
  <2>6. \A v \in Holders(j)' : s = "finish"
    BY <2>5 DEF Holders, Working
  <2>7. s = "finish" /\ state[j] # "deleted" => chunks'[j] = 1
    <3> SUFFICES ASSUME s = "finish", state[j] # "deleted" PROVE chunks'[j] = 1
      OBVIOUS
    <3>1. chunks' = [chunks EXCEPT ![j] = chunks[j] + 1]
      BY <1>4 DEF Committed, Inserted
    <3>2. chunks'[j] = chunks[j] + 1 /\ chunks[j] = 0
      BY <1>0, <2>4, <3>1
    <3> QED BY <3>2
  <2> QED BY <1>1, <2>1, <2>4, <2>5, <2>6, <2>7 DEF Intact
<1>5. ASSUME NEW o \in Replies, Settle(w, j)!(o)
      PROVE  Intact(j)'
  <2> DEFINE s == IF o # "ok" /\ step[w, j] # "fail" THEN "fail" ELSE "idle"
  <2>1. s \in Steps /\ Goto(w, j, s) /\ UNCHANGED chunks
    BY <1>5 DEF Steps, Working
  <2>2. Only(w, j, s)
    BY <1>0, <2>1, StepGoes
  <2>3. s \notin Working
    BY DEF Working
  <2>4. CASE ~(Committed(o) /\ Lands(j))
    <3>1. state' = state
      BY <1>5, <2>4
    <3> QED BY <1>1, <2>1, <2>2, <2>3, <3>1, IntactStays DEF Only
  <2>5. CASE Committed(o) /\ Lands(j) /\ step[w, j] \in {"finish", "reject"}
    <3>1. w \in Holders(j)
      BY <2>5 DEF Holders, Working
    <3>2. Holders(j)' = {}
      BY <2>2, <2>3, <3>1 DEF Intact, Only, Holders
    <3>3. Sweepers(j) = {} /\ state[j] # "deleted"
      BY <2>5, <3>1 DEF Intact, Lands, Exists
    <3>4. CASE step[w, j] = "finish"
      <4>1. chunks[j] = 1 /\ state'[j] = "done"
        BY <1>0, <1>5, <2>5, <3>1, <3>3, <3>4 DEF Intact, Outcome
      <4> QED BY <1>1, <2>1, <3>2, <3>3, <4>1 DEF Intact
    <3>5. CASE step[w, j] = "reject"
      <4>1. state'[j] = "failed"
        BY <1>0, <1>5, <2>5, <3>5 DEF Outcome
      <4> QED BY <1>1, <3>2, <3>3, <4>1 DEF Intact
    <3> QED BY <2>5, <3>4, <3>5
  <2>6. CASE Committed(o) /\ Lands(j) /\ step[w, j] = "fail"
    <3>1. state'[j] = "failed" /\ state[j] # "deleted"
      BY <1>0, <1>5, <2>6 DEF Outcome, Lands, Exists
    <3>2. \A v \in Holders(j)' : v \in Holders(j) /\ step'[v, j] = step[v, j]
      BY <2>2, <2>3 DEF Only, Holders
    <3> QED BY <1>1, <2>1, <3>1, <3>2 DEF Intact
  <2> QED BY <1>5, <2>4, <2>5, <2>6
<1>6. ~Breaker(w, j) /\ ~Split(w, j)
  BY DEF Swept, NoSplitOfDocuments, Breaker, Split
<1> QED BY <1>2, <1>3, <1>4, <1>5, <1>6 DEF Process, Claim, InsertChunks, Settle

LEMMA IntactKept ==
  ASSUME TypeOK, Swept, DocumentsIntact, [Next]_vars
  PROVE  DocumentsIntact'
<1>0. /\ step \in [Task -> Steps] /\ swept \in [Replica -> SUBSET Job]
      /\ state \in [Job -> {"absent", "pending", "claimed", "done", "failed", "deleted"}]
      /\ chunks \in [Job -> Nat]
  BY DEF TypeOK
<1>1. kind' = kind /\ torn \subseteq torn'
  <2>1. ASSUME NEW w \in Replica, NEW j \in Job, Claim(w, j)
        PROVE  kind' = kind /\ torn \subseteq torn'
    BY <2>1 DEF Claim
  <2>2. ASSUME NEW w \in Replica, NEW j \in Job, Process(w, j)
        PROVE  kind' = kind /\ torn \subseteq torn'
    BY <2>1, <2>2 DEF Process, Work, Breaker, Split, InsertChunks, Settle, histVars
  <2>3. ASSUME NEW w \in Replica, Loop(w) \/ ListFails(w) \/ Crash(w)
        PROVE  kind' = kind /\ torn \subseteq torn'
    BY <2>3 DEF Loop, Sweep, DeleteChunks, List, EndTick, ListFails, Crash, histVars
  <2>4. ASSUME NEW j \in Job, ClaimGrowsStale(j) \/ WorkOutlastsClaim(j) \/ CreateDocument(j) \/ DeleteDocument(j)
        PROVE  kind' = kind /\ torn \subseteq torn'
    BY <2>4 DEF ClaimGrowsStale, WorkOutlastsClaim, CreateDocument, DeleteDocument, histVars
  <2> QED BY <2>2, <2>3, <2>4 DEF Next, WindowMoves, vars, histVars
<1> SUFFICES ASSUME kind = "document", NEW j \in Job \ torn'
             PROVE  Intact(j)'
  BY <1>1 DEF DocumentsIntact
<1>2. Intact(j) /\ j \in Job
  BY <1>1 DEF DocumentsIntact
<1>3. ASSUME UNCHANGED <<state, chunks, swept, step>>
      PROVE  Intact(j)'
  BY <1>2, <1>3, IntactStays DEF Sweepers
<1>4. ASSUME NEW w \in Replica, NEW o \in Replies, Sweep(w)!(o)
      PROVE  Intact(j)'
  <2> DEFINE S == IF Committed(o) THEN Stranded ELSE {}
  <2>1. UNCHANGED <<chunks, step>> /\ swept[w] = {}
    BY <1>4 DEF Swept, SweptWhileDeleting
  <2>2. CASE j \in S
    <3>1. state[j] = "claimed" /\ state'[j] = "pending"
      BY <1>0, <1>4, <2>2 DEF Stranded, SweptTo
    <3>2. o = "ok" /\ Holders(j) = {}
      BY <1>4, <2>2 DEF Committed
    <3>3. j \in swept'[w]
      BY <1>0, <1>4, <2>2, <3>2
    <3>4. Holders(j)' = {}
      BY <2>1, <3>2 DEF Holders
    <3>5. Sweepers(j)' # {}
      BY <3>3 DEF Sweepers
    <3> QED BY <3>1, <3>4, <3>5 DEF Intact
  <2>3. CASE j \notin S
    <3>1. state'[j] = state[j]
      BY <1>0, <1>2, <1>4, <2>3
    <3>2. \A v \in Replica : j \in swept'[v] <=> j \in swept[v]
      BY <1>0, <1>4, <2>1, <2>3
    <3>3. Sweepers(j)' = Sweepers(j)
      BY <3>2 DEF Sweepers
    <3> QED BY <1>2, <2>1, <3>1, <3>3, IntactStays
  <2> QED BY <2>2, <2>3
<1>5. ASSUME NEW w \in Replica, NEW o \in Replies, DeleteChunks(w)!(o)
      PROVE  Intact(j)'
  <2>1. UNCHANGED <<state, step>> /\ swept' = [swept EXCEPT ![w] = {}]
    BY <1>5 DEF rowVars
  <2>2. CASE j \in swept[w]
    <3>1. chunks'[j] = 0
      BY <1>0, <1>5, <2>2 DEF ChunksDeleted
    <3>2. Sweepers(j) # {}
      BY <2>2 DEF Sweepers
    <3>3. Holders(j) = {} /\ state[j] \in {"pending", "failed", "deleted"}
      BY <1>2, <3>2 DEF Intact
    <3>4. Holders(j)' = {}
      BY <2>1, <3>3 DEF Holders
    <3> QED BY <2>1, <3>1, <3>3, <3>4 DEF Intact
  <2>3. CASE j \notin swept[w]
    <3>1. chunks'[j] = chunks[j]
      BY <1>0, <1>2, <1>5, <2>3 DEF ChunksDeleted
    <3>2. Sweepers(j)' = Sweepers(j)
      BY <1>0, <2>1, <2>3 DEF Sweepers
    <3> QED BY <1>2, <2>1, <3>1, <3>2, IntactStays
  <2> QED BY <2>2, <2>3
<1>6. ASSUME NEW w \in Replica, List(w)
      PROVE  Intact(j)'
  <2>1. PICK S \in Batches({i \in Job : state[i] = "pending"}) :
          step' = [t \in Task |-> IF t[1] = w /\ t[2] \in S THEN "listed" ELSE step[t]]
    BY <1>6 DEF List
  <2>2. S \in SUBSET Job /\ "listed" \in Steps
    BY BatchesAreSubsets DEF Steps
  <2>3. OnlyIn(w, S, "listed")
    BY <1>0, <2>1, <2>2, StepListed
  <2>4. \A v \in Replica : step'[v, j] \in Working => step'[v, j] = step[v, j]
    BY <2>3 DEF OnlyIn, Working
  <2>5. UNCHANGED <<state, chunks, swept>>
    BY <1>6 DEF List, rowVars
  <2> QED BY <1>2, <2>4, <2>5, IntactStays DEF Sweepers
<1>7. ASSUME NEW w \in Replica, NEW i \in Job, Process(w, i)
      PROVE  Intact(j)'
  <2>1. CASE i = j
    BY <1>2, <1>7, <2>1, IntactWorkedOn
  <2>2. CASE i # j
    <3>1. PICK s \in Steps : Goto(w, i, s)
      BY <1>7 DEF Process, Claim, Work, Breaker, Split, InsertChunks, Settle, AfterWork, Steps,
                  Working
    <3>2. Only(w, i, s)
      BY <1>0, <3>1, StepGoes
    <3>3. \A v \in Replica : step'[v, j] = step[v, j]
      BY <1>2, <2>2, <3>2 DEF Only
    <3>4. state'[j] = state[j] /\ chunks'[j] = chunks[j] /\ swept' = swept
      <4>1. CASE Claim(w, i)
        BY <1>0, <1>2, <2>2, <4>1 DEF Claim, loopVars, rowVars
      <4>2. CASE Work(w, i) \/ Breaker(w, i) \/ Split(w, i)
        BY <4>2 DEF Work, Breaker, Split, loopVars, rowVars
      <4>3. CASE InsertChunks(w, i)
        BY <1>0, <1>2, <2>2, <4>3 DEF InsertChunks, Inserted, loopVars, rowVars
      <4>4. CASE Settle(w, i)
        BY <1>0, <1>2, <2>2, <4>4 DEF Settle, loopVars
      <4> QED BY <1>7, <4>1, <4>2, <4>3, <4>4 DEF Process
    <3> QED BY <1>2, <3>3, <3>4, IntactStays DEF Sweepers
  <2> QED BY <2>1, <2>2
<1>8. ASSUME NEW w \in Replica, Crash(w)
      PROVE  Intact(j)'
  <2>1. \A v \in Replica, i \in Job : step'[v, i] = IF v = w THEN "idle" ELSE step[v, i]
    BY <1>0, <1>8, StepForgotten DEF Crash
  <2>2. \A v \in Replica : step'[v, j] \in Working => step'[v, j] = step[v, j]
    BY <1>2, <2>1 DEF Working
  <2>3. j \notin swept[w] /\ swept' = [swept EXCEPT ![w] = {}] /\ UNCHANGED <<state, chunks>>
    BY <1>8 DEF Crash, rowVars
  <2>4. Sweepers(j)' = Sweepers(j)
    BY <1>0, <2>3 DEF Sweepers
  <2> QED BY <1>2, <2>2, <2>3, <2>4, IntactStays
<1>9. ASSUME NEW i \in Job, CreateDocument(i)
      PROVE  Intact(j)'
  <2>1. UNCHANGED <<chunks, swept, step>>
    BY <1>9 DEF CreateDocument, loopVars
  <2>2. CASE i = j
    <3>1. state[j] = "absent" /\ state'[j] = "pending"
      BY <1>0, <1>2, <1>9, <2>2 DEF CreateDocument
    <3>2. Holders(j) = {} /\ Sweepers(j) = {} /\ chunks[j] = 0
      BY <1>2, <3>1 DEF Intact
    <3>3. Holders(j)' = {} /\ Sweepers(j)' = {} /\ chunks'[j] = 0
      BY <2>1, <3>2 DEF Holders, Sweepers
    <3> QED BY <3>1, <3>3 DEF Intact
  <2>3. CASE i # j
    <3>1. state'[j] = state[j]
      BY <1>0, <1>2, <1>9, <2>3 DEF CreateDocument
    <3> QED BY <1>2, <2>1, <3>1, IntactStays DEF Sweepers
  <2> QED BY <2>2, <2>3
<1>10. ASSUME NEW i \in Job, DeleteDocument(i)
       PROVE  Intact(j)'
  <2>1. UNCHANGED <<swept, step>>
    BY <1>10 DEF DeleteDocument, loopVars
  <2>2. CASE i = j
    <3>1. state'[j] = "deleted"
      BY <1>0, <1>2, <1>10, <2>2 DEF DeleteDocument
    <3>2. Holders(j)' = Holders(j) /\ Sweepers(j)' = Sweepers(j)
      BY <2>1 DEF Holders, Sweepers
    <3> QED BY <1>2, <3>1, <3>2 DEF Intact
  <2>3. CASE i # j
    <3>1. state'[j] = state[j] /\ chunks'[j] = chunks[j]
      BY <1>0, <1>2, <1>10, <2>3 DEF DeleteDocument
    <3> QED BY <1>2, <2>1, <3>1, IntactStays DEF Sweepers
  <2> QED BY <2>2, <2>3
<1>11. ASSUME NEW w \in Replica, ListFails(w) \/ EndTick(w)
       PROVE  Intact(j)'
  BY <1>3, <1>11 DEF ListFails, EndTick, rowVars
<1>12. ASSUME NEW i \in Job, ClaimGrowsStale(i) \/ WorkOutlastsClaim(i)
       PROVE  Intact(j)'
  BY <1>3, <1>12 DEF ClaimGrowsStale, WorkOutlastsClaim, loopVars
<1>13. ASSUME WindowMoves \/ UNCHANGED vars
       PROVE  Intact(j)'
  BY <1>3, <1>13 DEF WindowMoves, vars, rowVars, loopVars
<1> QED BY <1>4, <1>5, <1>6, <1>7, <1>8, <1>9, <1>10, <1>11, <1>12, <1>13
        DEF Next, Loop, Sweep, DeleteChunks

-----------------------------------------------------------------------------
(* The strengthened invariant holds in every reachable state.              *)
THEOREM JobsInductive == SafeSpec => []JobsInv
<1> USE SetsAssumption, BoundsAssumption
<1>1. Init => JobsInv
  <2> SUFFICES ASSUME Init PROVE JobsInv
    OBVIOUS
  <2>1. \A w \in Replica, j \in Job : step[w, j] = "idle"
    BY DEF Init, Task
  <2>2. TypeOK
    <3>1. /\ kind \in Kinds /\ recent \in Nat
          /\ state \in [Job -> {"absent", "pending", "claimed", "done", "failed", "deleted"}]
      BY DEF Init
    <3>2. /\ phase \in [Replica -> {"off", "deleting", "listing", "working"}]
          /\ swept \in [Replica -> SUBSET Job] /\ step \in [Task -> Steps]
      BY DEF Init, Steps
    <3>3. chunks \in [Job -> Nat] /\ worked \in [Job -> Nat] /\ requeued \in [Job -> Nat]
      BY DEF Init
    <3>4. faults \in 0..MaxFaults /\ crashes \in 0..MaxCrashes /\ slow \in 0..MaxSlow
      BY DEF Init
    <3> QED BY <3>1, <3>2, <3>3, <3>4 DEF Init, TypeOK
  <2>3. WorkIsOwed /\ TopicsNeverRequeued
    <3>1. \A j \in Job : AtWork(j) = {}
      BY <2>1 DEF AtWork
    <3>2. \A j \in Job : Cardinality(AtWork(j)) = 0 /\ Unclaimed(j) = 1
      BY <3>1, FS_EmptySet DEF Init, Unclaimed
    <3> QED BY <3>2 DEF Init, WorkIsOwed, TopicsNeverRequeued
  <2>4. Hands
    BY <2>1 DEF Hands, OneInHand, IdleBetweenTicks
  <2>5. SplitsInFlight
    <3>1. Splitters = {}
      BY <2>1 DEF Splitters
    <3>2. Cardinality(Splitters) = 0 /\ Cardinality(Replica) \in Nat /\ Cardinality(Replica) # 0
      BY <3>1, FS_EmptySet, FS_CardinalityType
    <3>3. recent \in Nat /\ recent <= SplitLimit
      BY DEF Init
    <3> QED BY <3>2, <3>3 DEF SplitsInFlight
  <2>6. SweptWhileDeleting /\ NoSplitOfDocuments
    BY <2>1 DEF Init, SweptWhileDeleting, NoSplitOfDocuments
  <2>7. DocumentsIntact
    <3> SUFFICES ASSUME kind = "document", NEW j \in Job PROVE Intact(j)
      BY DEF DocumentsIntact
    <3>1. Holders(j) = {} /\ Sweepers(j) = {} /\ state[j] = "absent" /\ chunks[j] = 0
      BY <2>1 DEF Init, Holders, Sweepers, Working
    <3> QED BY <3>1 DEF Intact
  <2> QED BY <2>2, <2>3, <2>4, <2>5, <2>6, <2>7 DEF JobsInv, Hands
<1>2. JobsInv /\ [Next]_vars => JobsInv'
  <2> SUFFICES ASSUME JobsInv, [Next]_vars PROVE JobsInv'
    OBVIOUS
  <2>1. TypeOK'
    BY TypesKept DEF JobsInv
  <2>2. WorkIsOwed' /\ TopicsNeverRequeued'
    BY OwedKept DEF JobsInv
  <2>3. Hands' /\ SplitsInFlight'
    BY <2>1, BreakerKept DEF JobsInv, Hands
  <2>4. Swept'
    BY SweptKept DEF JobsInv, Swept
  <2>5. DocumentsIntact'
    BY IntactKept DEF JobsInv, Swept
  <2> QED BY <2>1, <2>2, <2>3, <2>4, <2>5 DEF JobsInv, Hands, Swept
<1> QED BY <1>1, <1>2, PTL DEF SafeSpec

(* Every column and every counter keeps its type, whatever replicas do.    *)
THEOREM TypeCorrect == SafeSpec => []TypeOK
<1>1. JobsInv => TypeOK
  BY DEF JobsInv
<1> QED BY <1>1, JobsInductive, PTL

(* The costly work is begun once per time a row was pending, and for a     *)
(* topic check once in all.                                                *)
THEOREM OncePerClaim == SafeSpec => []WorkedOncePerClaim
<1>1. JobsInv => WorkedOncePerClaim
  <2> SUFFICES ASSUME JobsInv, NEW j \in Job
               PROVE  /\ worked[j] <= 1 + requeued[j]
                      /\ kind = "topic" => worked[j] <= 1
    BY DEF WorkedOncePerClaim
  <2>1. worked[j] \in Nat /\ requeued[j] \in Nat
    BY DEF JobsInv, TypeOK
  <2>2. worked[j] + Cardinality(AtWork(j)) + Unclaimed(j) <= 1 + requeued[j]
    BY DEF JobsInv, WorkIsOwed
  <2>3. Cardinality(AtWork(j)) \in Nat /\ Unclaimed(j) \in Nat
    BY AtWorkCounts DEF Unclaimed
  <2>4. worked[j] <= 1 + requeued[j]
    BY <2>1, <2>2, <2>3
  <2>5. kind = "topic" => requeued[j] = 0
    BY DEF JobsInv, TopicsNeverRequeued
  <2> QED BY <2>1, <2>4, <2>5
<1> QED BY <1>1, JobsInductive, PTL

(* However many replicas read the breaker at once, the cap is overshot by  *)
(* less than one split per replica.                                        *)
THEOREM CapHolds == SafeSpec => []BreakerCaps
<1>1. JobsInv => BreakerCaps
  <2> SUFFICES ASSUME JobsInv PROVE BreakerCaps
    OBVIOUS
  <2>1. recent \in Nat
    BY DEF JobsInv, TypeOK
  <2>2. recent + Cardinality(Splitters) <= SplitLimit + Cardinality(Replica) - 1
    BY DEF JobsInv, SplitsInFlight
  <2> QED BY <2>1, <2>2, SplittersCount, BoundsAssumption DEF BreakerCaps
<1> QED BY <1>1, JobsInductive, PTL

(* A document that is ready has its chunks once, wherever an ingestion of  *)
(* it died, unless a sweep of it was torn.                                 *)
THEOREM ChunksOnce == SafeSpec => []IngestedOnce
<1>1. JobsInv => IngestedOnce
  BY DEF JobsInv, DocumentsIntact, Intact, IngestedOnce
<1> QED BY <1>1, JobsInductive, PTL

-----------------------------------------------------------------------------
(* VoiceCall, for any number of calls, turns, transfers and faults.        *)

-----------------------------------------------------------------------------
(* Induction on the numbers, for a set instead of a predicate: the theorem *)
(* of the library takes an operator, a minimal element of a set does not.  *)
LEMMA Least ==
  ASSUME NEW T \in SUBSET Nat, T # {}
  PROVE  \E x \in T : \A y \in T : ~(y < x)
<1>1. IsWellFoundedOn(OpToRel(<, Nat), Nat)
  BY NatLessThanWellFounded
<1>2. \E x \in T : \A y \in T : ~ (<<y, x>> \in OpToRel(<, Nat))
  BY <1>1, WFMin
<1> QED BY <1>2 DEF OpToRel

LEMMA Climb ==
  ASSUME NEW G, 0 \in G, \A n \in Nat : n \in G => n + 1 \in G
  PROVE  Nat \subseteq G
<1> DEFINE T == Nat \ G
<1> SUFFICES ASSUME T # {} PROVE FALSE
  OBVIOUS
<1>1. PICK x \in T : \A y \in T : ~(y < x)
  BY Least
<1>2. x \in Nat /\ x # 0 /\ x - 1 \in Nat /\ x - 1 < x
  BY <1>1
<1>3. x - 1 \in G
  BY <1>1, <1>2
<1>4. (x - 1) + 1 = x
  BY <1>2
<1> QED BY <1>1, <1>2, <1>3, <1>4

-----------------------------------------------------------------------------
(* What Kept computes.                                                     *)
KeptNext(q, S, k, n) ==
  IF n = 0 THEN <<>> ELSE IF q[n] \in S THEN Append(k[n - 1], q[n]) ELSE k[n - 1]

Keeps(q, S, k, m) == k = [n \in 0..m |-> KeptNext(q, S, k, n)]

LEMMA KeepsExtend ==
  ASSUME NEW q, NEW S, NEW m \in Nat, NEW k, Keeps(q, S, k, m)
  PROVE  \E l : Keeps(q, S, l, m + 1)
<1> DEFINE l == [n \in 0..(m + 1) |-> IF n = m + 1 THEN KeptNext(q, S, k, n) ELSE k[n]]
<1>1. \A n \in 0..m : l[n] = k[n] /\ k[n] = KeptNext(q, S, k, n)
  BY DEF Keeps
<1>2. ASSUME NEW n \in 0..(m + 1)
      PROVE  l[n] = KeptNext(q, S, l, n)
  <2>1. n # 0 => n - 1 \in 0..m
    BY <1>2
  <2>2. n # 0 => l[n - 1] = k[n - 1]
    BY <1>1, <2>1
  <2>3. KeptNext(q, S, l, n) = KeptNext(q, S, k, n)
    BY <2>2 DEF KeptNext
  <2>4. CASE n = m + 1
    BY <2>3, <2>4
  <2>5. CASE n # m + 1
    <3>1. n \in 0..m
      BY <2>5
    <3> QED BY <1>1, <2>3, <3>1
  <2> QED BY <2>4, <2>5
<1>3. l = [n \in 0..(m + 1) |-> KeptNext(q, S, l, n)]
  <2> HIDE DEF l
  <2>1. l = [n \in 0..(m + 1) |-> l[n]]
    BY DEF l
  <2> QED BY <1>2, <2>1
<1> HIDE DEF l
<1> QED BY <1>3 DEF Keeps

LEMMA KeepsExists ==
  ASSUME NEW q, NEW S, NEW m \in Nat
  PROVE  \E k : Keeps(q, S, k, m)
<1> DEFINE G == {n \in Nat : \E k : Keeps(q, S, k, n)}
<1>1. 0 \in G
  <2> DEFINE k == [n \in 0..0 |-> <<>>]
  <2>1. k = [n \in 0..0 |-> KeptNext(q, S, k, n)]
    BY DEF KeptNext
  <2> HIDE DEF k
  <2> QED BY <2>1 DEF Keeps
<1>2. \A n \in Nat : n \in G => n + 1 \in G
  BY KeepsExtend
<1>3. Nat \subseteq G
  <2> HIDE DEF G
  <2> QED BY <1>1, <1>2, Climb
<1> QED BY <1>3

LEMMA KeptIs ==
  ASSUME NEW q, NEW S, Len(q) \in Nat
  PROVE  \E k : Keeps(q, S, k, Len(q)) /\ Kept(q, S) = k[Len(q)]
<1> DEFINE k == CHOOSE k : Keeps(q, S, k, Len(q))
<1>1. Kept(q, S) = k[Len(q)]
  BY DEF Kept, Keeps, KeptNext
<1>2. Keeps(q, S, k, Len(q))
  <2>1. \E l : Keeps(q, S, l, Len(q))
    BY KeepsExists
  <2> QED BY <2>1
<1> QED BY <1>1, <1>2

Rising(q) == \A i, j \in DOMAIN q : i < j => q[i] < q[j]

LEMMA RisingAppend ==
  ASSUME NEW q \in Seq(Item), NEW x \in Item, Rising(q), \A i \in Range(q) : i < x
  PROVE  /\ Append(q, x) \in Seq(Item) /\ Append(q, x) # <<>>
         /\ Rising(Append(q, x)) /\ Range(Append(q, x)) = Range(q) \cup {x}
<1> DEFINE p == Append(q, x)
<1>1. /\ p \in Seq(Item) /\ Len(p) = Len(q) + 1 /\ Len(q) \in Nat
      /\ \A i \in 1..Len(q) : p[i] = q[i]
      /\ p[Len(q) + 1] = x
  BY AppendProperties
<1>2. DOMAIN p = 1..(Len(q) + 1) /\ DOMAIN q = 1..Len(q)
  BY <1>1, LenProperties
<1> HIDE DEF p
<1>3. \A i \in 1..Len(q) : q[i] < x
  BY <1>2 DEF Range
<1>4. Rising(p)
  <2> SUFFICES ASSUME NEW i \in DOMAIN p, NEW j \in DOMAIN p, i < j PROVE p[i] < p[j]
    BY DEF Rising
  <2>1. i \in 1..Len(q) /\ j \in Nat
    BY <1>1, <1>2
  <2>2. CASE j \in 1..Len(q)
    BY <1>1, <1>2, <2>1, <2>2 DEF Rising
  <2>3. CASE j = Len(q) + 1
    BY <1>1, <1>3, <2>1, <2>3
  <2> QED BY <1>1, <1>2, <2>2, <2>3
<1>5. Range(p) = Range(q) \cup {x}
  <2>1. ASSUME NEW i \in DOMAIN p
        PROVE  p[i] \in Range(q) \cup {x}
    <3>1. i \in 1..Len(q) \/ i = Len(q) + 1
      BY <1>1, <1>2
    <3> QED BY <1>1, <1>2, <3>1 DEF Range
  <2>2. \A i \in DOMAIN q : i \in DOMAIN p /\ p[i] = q[i]
    BY <1>1, <1>2
  <2>3. Len(q) + 1 \in DOMAIN p
    BY <1>1, <1>2
  <2> QED BY <1>1, <2>1, <2>2, <2>3 DEF Range
<1>6. p # <<>>
  BY <1>1, <1>2
<1> QED BY <1>1, <1>4, <1>5, <1>6 DEF p

(* Kept leaves out what is not in S and nothing else, and keeps the order. *)
LEMMA KeptKeeps ==
  ASSUME NEW q \in Seq(Item), NEW S, Rising(q)
  PROVE  Kept(q, S) \in Seq(Item) /\ Rising(Kept(q, S)) /\ Range(Kept(q, S)) = Range(q) \cap S
<1>0. /\ Len(q) \in Nat /\ DOMAIN q = 1..Len(q)
      /\ \A i \in 1..Len(q) : q[i] \in Item
  BY LenProperties, ElementOfSeq
<1>1. PICK k : Keeps(q, S, k, Len(q)) /\ Kept(q, S) = k[Len(q)]
  BY <1>0, KeptIs
<1>2. \A n \in 0..Len(q) : k[n] = KeptNext(q, S, k, n)
  BY <1>1 DEF Keeps
<1> DEFINE So(n) == {q[i] : i \in 1..n} \cap S
           Good(n) == k[n] \in Seq(Item) /\ Rising(k[n]) /\ Range(k[n]) = So(n)
           G == {n \in Nat : n <= Len(q) => Good(n)}
<1>3. 0 \in G
  <2>1. k[0] = <<>>
    BY <1>0, <1>2 DEF KeptNext
  <2>2. <<>> \in Seq(Item) /\ Rising(<<>>) /\ Range(<<>>) = {}
    BY EmptySeq DEF Rising, Range
  <2>3. So(0) = {}
    OBVIOUS
  <2> QED BY <2>1, <2>2, <2>3
<1>4. ASSUME NEW n \in Nat, n \in G
      PROVE  n + 1 \in G
  <2> SUFFICES ASSUME n + 1 <= Len(q) PROVE Good(n + 1)
    OBVIOUS
  <2>1. Good(n) /\ n + 1 \in 1..Len(q) /\ n + 1 \in 0..Len(q)
    BY <1>0, <1>4
  <2>2. k[n + 1] = IF q[n + 1] \in S THEN Append(k[n], q[n + 1]) ELSE k[n]
    <3>1. (n + 1) - 1 = n /\ n + 1 # 0
      OBVIOUS
    <3>2. k[n + 1] = KeptNext(q, S, k, n + 1)
      BY <1>2, <2>1
    <3> QED BY <3>1, <3>2 DEF KeptNext
  <2>3. So(n + 1) = IF q[n + 1] \in S THEN So(n) \cup {q[n + 1]} ELSE So(n)
    <3>1. 1..(n + 1) = (1..n) \cup {n + 1}
      OBVIOUS
    <3> QED BY <3>1
  <2>4. CASE q[n + 1] \notin S
    BY <2>1, <2>2, <2>3, <2>4
  <2>5. CASE q[n + 1] \in S
    <3>1. \A x \in So(n) : x < q[n + 1]
      <4>1. \A i \in 1..n : i \in DOMAIN q /\ n + 1 \in DOMAIN q /\ i < n + 1
        BY <1>0, <2>1
      <4> QED BY <4>1 DEF Rising
    <3>2. q[n + 1] \in Item
      BY <1>0, <2>1
    <3>3. \A x \in Range(k[n]) : x < q[n + 1]
      BY <2>1, <3>1
    <3>4. /\ Append(k[n], q[n + 1]) \in Seq(Item) /\ Rising(Append(k[n], q[n + 1]))
          /\ Range(Append(k[n], q[n + 1])) = Range(k[n]) \cup {q[n + 1]}
      <4> HIDE DEF So
      <4> QED BY <2>1, <3>2, <3>3, RisingAppend
    <3> QED BY <2>1, <2>2, <2>3, <2>5, <3>4
  <2> QED BY <2>4, <2>5
<1>5. Good(Len(q))
  <2>1. Nat \subseteq G
    <3> HIDE DEF G
    <3> QED BY <1>3, <1>4, Climb
  <2>2. Len(q) \in G
    BY <1>0, <2>1
  <2>3. Len(q) <= Len(q)
    BY <1>0
  <2> HIDE DEF Good
  <2> QED BY <2>2, <2>3
<1>6. So(Len(q)) = Range(q) \cap S
  BY <1>0 DEF Range
<1> QED BY <1>1, <1>5, <1>6

-----------------------------------------------------------------------------
(* One call: a message after the tone is recorded once ...                 *)
Voicemail(c) ==
  /\ c \in spoke => leg[c] \in {"recorded", "over"}
  /\ leg[c] # "over" => voicemails[c] = 0
  /\ c \in spoke /\ c \in known /\ voiceFaults = 0 /\ leg[c] = "over" => voicemails[c] = 1

(* ... a call that nobody has answered has no session, and a closed socket *)
(* leaves none ...                                                         *)
Clean(c) ==
  /\ leg[c] = "new" => ws[c] = "none" /\ client[c] = "none"
  /\ ws[c] = "closed" => c \notin registered /\ client[c] \in {"none", "closed"}

(* ... a transfer goes its way only for a call with ids, is logged before  *)
(* it is dialled, and owes the model one output while it lasts ...         *)
Transferring(c) ==
  /\ tool[c] \in {"lookup", "refuse", "log", "dial"} => c \in known
  /\ tool[c] = "dial" => Contains(transfers[c], "answered")
  /\ leg[c] \in {"dialing", "talking"} => c \in known /\ Contains(transfers[c], "answered")
  /\ client[c] \in {"none", "connecting"} => tool[c] = "idle" /\ asked[c] = told[c]
  /\ client[c] = "open" => asked[c] = told[c] + (IF tool[c] = "idle" THEN 0 ELSE 1)

(* ... the turns are kept in the order they were spoken, all of them with  *)
(* an item before their words come ...                                     *)
InOrder(c) ==
  /\ Rising(order[c])
  /\ \A i \in Range(order[c]) : i <= said[c]
  /\ unheard[c] \cup lines[c] \subseteq Range(order[c])

(* ... and what is written is what there was when the stream stopped, once.*)
TheCall(q, c) == Rising(q) /\ Range(q) = atStop[c]

Written(c) ==
  /\ ws[c] \in {"none", "open"} => draft[c] = <<>> /\ transcripts[c] = <<>>
  /\ draft[c] # <<>> => transcripts[c] = <<>> /\ TheCall(draft[c], c)
  /\ transcripts[c] = <<>> \/ \E q \in Range(transcripts[c]) : transcripts[c] = <<q>> /\ TheCall(q, c)

CallInv(c) == Voicemail(c) /\ Clean(c) /\ Transferring(c) /\ InOrder(c) /\ Written(c)

VoiceInv == VoiceTypeOK /\ \A c \in Call : CallInv(c)

-----------------------------------------------------------------------------
(* Types.                                                                  *)
LEMMA ForgetTypes ==
  ASSUME VoiceTypeOK, NEW S, Forget(S)
  PROVE  /\ order' \in [Call -> Seq(Item)] /\ lines' \in [Call -> SUBSET Item]
         /\ unheard' \in [Call -> SUBSET Item]
         /\ asked' \in [Call -> 0..MaxAsks] /\ told' \in [Call -> 0..MaxAsks]
<1>1. 0 \in 0..MaxAsks
  BY VoiceBounds
<1>2. asked' \in [Call -> 0..MaxAsks] /\ told' \in [Call -> 0..MaxAsks]
  BY <1>1 DEF VoiceTypeOK, Forget
<1>3. order' \in [Call -> Seq(Item)]
  BY EmptySeq DEF VoiceTypeOK, Forget
<1>4. lines' \in [Call -> SUBSET Item] /\ unheard' \in [Call -> SUBSET Item]
  BY DEF VoiceTypeOK, Forget
<1> QED BY <1>2, <1>3, <1>4

LEMMA DisposeTypes ==
  ASSUME VoiceTypeOK, NEW c \in Call, Dispose(c)
  PROVE  /\ order' \in [Call -> Seq(Item)] /\ lines' \in [Call -> SUBSET Item]
         /\ unheard' \in [Call -> SUBSET Item]
         /\ asked' \in [Call -> 0..MaxAsks] /\ told' \in [Call -> 0..MaxAsks]
         /\ client' \in [Call -> {"none", "connecting", "open", "closed"}]
         /\ registered' \in SUBSET Call
<1>1. client' \in [Call -> {"none", "connecting", "open", "closed"}] /\ registered' \in SUBSET Call
  BY DEF VoiceTypeOK, Dispose, Disposed
<1> QED BY <1>1, ForgetTypes DEF Dispose

LEMMA GoneTypes ==
  ASSUME VoiceTypeOK, Gone
  PROVE  /\ order' \in [Call -> Seq(Item)] /\ lines' \in [Call -> SUBSET Item]
         /\ unheard' \in [Call -> SUBSET Item]
         /\ asked' \in [Call -> 0..MaxAsks] /\ told' \in [Call -> 0..MaxAsks]
         /\ client' \in [Call -> {"none", "connecting", "open", "closed"}]
         /\ registered' \in SUBSET Call
         /\ ws' \in [Call -> {"none", "open", "stopping", "stopped", "closed"}]
         /\ draft' \in [Call -> Seq(Item)] /\ tool' \in [Call -> ToolSteps] /\ leg' \in [Call -> Legs]
<1>1. client' \in [Call -> {"none", "connecting", "open", "closed"}] /\ registered' \in SUBSET Call
  BY DEF VoiceTypeOK, Gone
<1>2. ws' \in [Call -> {"none", "open", "stopping", "stopped", "closed"}]
  BY DEF VoiceTypeOK, Gone
<1>3. draft' \in [Call -> Seq(Item)] /\ tool' \in [Call -> ToolSteps]
  BY EmptySeq DEF Gone, ToolSteps
<1>4. leg' \in [Call -> Legs]
  BY DEF VoiceTypeOK, Gone, Legs
<1> QED BY <1>1, <1>2, <1>3, <1>4, ForgetTypes DEF Gone

LEMMA FaultTypes ==
  ASSUME VoiceTypeOK, Fault
  PROVE  voiceFaults' \in 0..MaxVoiceFaults
BY VoiceBounds DEF VoiceTypeOK, Fault

(* The bound on the turns of all the calls bounds the turns of one.        *)
LEMMA TurnsBounded ==
  ASSUME VoiceTypeOK, NEW c \in Call, Turn(c)
  PROVE  said[c] + 1 \in Item
<1> DEFINE T == {t \in Call \X Item : t[2] <= said[t[1]]}
           f == [i \in Item |-> <<c, i>>]
<1>0. said[c] \in 0..MaxItems /\ MaxItems \in Nat
  BY VoiceBounds DEF VoiceTypeOK
<1> SUFFICES ASSUME said[c] = MaxItems PROVE FALSE
  BY <1>0 DEF Item
<1>1. IsFiniteSet(T)
  <2>1. IsFiniteSet(Item)
    BY <1>0, FS_Interval DEF Item
  <2>2. IsFiniteSet(Call \X Item)
    BY <2>1, VoiceSets, FS_Product
  <2>3. T \subseteq Call \X Item
    OBVIOUS
  <2> QED BY <2>2, <2>3, FS_Subset
<1>2. f \in Injection(Item, T)
  <2>1. \A i \in Item : f[i] \in T
    BY <1>0 DEF Item
  <2> QED BY <2>1 DEF Injection, IsInjective
<1>3. Cardinality(Item) <= Cardinality(T)
  BY <1>1, <1>2, FS_Injection
<1>4. Cardinality(Item) = MaxItems
  BY <1>0, FS_Interval DEF Item
<1>5. Cardinality(T) < MaxItems /\ Cardinality(T) \in Nat
  BY <1>1, FS_CardinalityType DEF Turn
<1> QED BY <1>0, <1>3, <1>4, <1>5

LEMMA PhoneTypes ==
  ASSUME VoiceTypeOK, NEW c \in Call, Phone(c)
  PROVE  VoiceTypeOK'
<1>1. leg' \in [Call -> Legs]
  BY DEF VoiceTypeOK, Phone, AnswerCall, LeaveMessage, RecordingStatus, HangUp, PickUp, DialStatus, Legs
<1>2. voicemails' \in [Call -> Nat]
  <2>1. voicemails' = voicemails \/ voicemails' = [voicemails EXCEPT ![c] = voicemails[c] + 1]
    BY DEF Phone, AnswerCall, LeaveMessage, RecordingStatus, HangUp, PickUp, DialStatus, tableVars
  <2>2. voicemails \in [Call -> Nat] /\ voicemails[c] + 1 \in Nat
    BY DEF VoiceTypeOK
  <2> QED BY <2>1, <2>2
<1>3. spoke' \in SUBSET Call
  BY DEF VoiceTypeOK, Phone, AnswerCall, LeaveMessage, RecordingStatus, HangUp, PickUp, DialStatus
<1>4. voiceFaults' \in 0..MaxVoiceFaults
  <2>1. UNCHANGED voiceFaults \/ Fault
    BY DEF Phone, AnswerCall, LeaveMessage, RecordingStatus, HangUp, PickUp, DialStatus
  <2> QED BY <2>1, FaultTypes DEF VoiceTypeOK
<1>5. UNCHANGED <<known, itemVars, sessionVars, toolVars, transcripts, atStop>>
  BY DEF Phone, AnswerCall, LeaveMessage, RecordingStatus, HangUp, PickUp, DialStatus, tableVars
<1> QED BY <1>1, <1>2, <1>3, <1>4, <1>5 DEF VoiceTypeOK, itemVars, sessionVars, toolVars

LEMMA BodyTypes ==
  ASSUME VoiceTypeOK, NEW c \in Call, InOrder(c)
  PROVE  /\ Body(c) \in Seq(Item) /\ Rising(Body(c)) /\ Range(Body(c)) = lines[c]
<1>1. order[c] \in Seq(Item) /\ Rising(order[c]) /\ lines[c] \subseteq Range(order[c])
  BY DEF VoiceTypeOK, InOrder
<1>2. /\ Kept(order[c], lines[c]) \in Seq(Item) /\ Rising(Kept(order[c], lines[c]))
      /\ Range(Kept(order[c], lines[c])) = Range(order[c]) \cap lines[c]
  BY <1>1, KeptKeeps
<1> QED BY <1>1, <1>2 DEF Body

LEMMA OrderedTypes ==
  ASSUME NEW q \in Seq(Item), NEW i \in Item
  PROVE  Ordered(q, i) \in Seq(Item)
<1>1. Append(q, i) \in Seq(Item)
  BY AppendProperties
<1> QED BY <1>1 DEF Ordered

LEMMA SessionTypes ==
  ASSUME VoiceTypeOK, NEW c \in Call, InOrder(c), Session(c)
  PROVE  VoiceTypeOK'
<1>0. /\ client \in [Call -> {"none", "connecting", "open", "closed"}] /\ registered \in SUBSET Call
      /\ ws \in [Call -> {"none", "open", "stopping", "stopped", "closed"}]
      /\ order \in [Call -> Seq(Item)] /\ draft \in [Call -> Seq(Item)]
      /\ said \in [Call -> 0..MaxItems] /\ lines \in [Call -> SUBSET Item]
      /\ unheard \in [Call -> SUBSET Item] /\ atStop \in [Call -> SUBSET Item]
      /\ transcripts \in [Call -> Seq(Seq(Item))] /\ leg \in [Call -> Legs]
  BY DEF VoiceTypeOK
<1>1. ASSUME StreamStart(c)
      PROVE  VoiceTypeOK'
  <2>1. leg' \in [Call -> Legs]
    BY <1>0, <1>1 DEF StreamStart, Legs
  <2>2. /\ ws' \in [Call -> {"none", "open", "stopping", "stopped", "closed"}]
        /\ client' \in [Call -> {"none", "connecting", "open", "closed"}] /\ registered' \in SUBSET Call
    BY <1>0, <1>1 DEF StreamStart
  <2> QED BY <1>1, <2>1, <2>2 DEF VoiceTypeOK, StreamStart, itemVars, toolVars, tableVars
<1>2. ASSUME Connected(c)
      PROVE  VoiceTypeOK'
  <2>1. client' \in [Call -> {"none", "connecting", "open", "closed"}]
    BY <1>0, <1>2 DEF Connected
  <2>2. voiceFaults' \in 0..MaxVoiceFaults
    BY <1>2, FaultTypes DEF Connected, VoiceTypeOK
  <2> QED BY <1>2, <2>1, <2>2 DEF VoiceTypeOK, Connected, itemVars, toolVars, tableVars
<1>3. ASSUME Turn(c)
      PROVE  VoiceTypeOK'
  <2>1. said[c] + 1 \in Item /\ said[c] + 1 \in 0..MaxItems
    <3>1. said[c] + 1 \in Item
      BY <1>3, TurnsBounded
    <3> QED BY <3>1, VoiceBounds DEF Item
  <2>2. said' \in [Call -> 0..MaxItems] /\ unheard' \in [Call -> SUBSET Item]
    BY <1>0, <1>3, <2>1 DEF Turn
  <2>3. order' \in [Call -> Seq(Item)]
    <3>1. order[c] \in Seq(Item)
      BY <1>0
    <3>2. Ordered(order[c], said[c] + 1) \in Seq(Item)
      BY <2>1, <3>1, OrderedTypes
    <3> QED BY <1>0, <1>3, <3>2 DEF Turn
  <2> QED BY <1>3, <2>2, <2>3 DEF VoiceTypeOK, Turn, sessionVars, toolVars, tableVars
<1>4. ASSUME NEW i \in Item, Transcribed(c, i)
      PROVE  VoiceTypeOK'
  <2>1. unheard' \in [Call -> SUBSET Item] /\ lines' \in [Call -> SUBSET Item]
    <3>1. unheard' = [unheard EXCEPT ![c] = unheard[c] \ {i}]
      BY <1>4 DEF Transcribed
    <3>2. UNCHANGED lines \/ lines' = [lines EXCEPT ![c] = lines[c] \cup {i}]
      BY <1>4 DEF Transcribed
    <3>3. lines[c] \cup {i} \in SUBSET Item /\ unheard[c] \ {i} \in SUBSET Item
      BY <1>0
    <3> QED BY <1>0, <3>1, <3>2, <3>3
  <2>2. order' \in [Call -> Seq(Item)]
    <3>1. order[c] \in Seq(Item)
      BY <1>0
    <3>2. Ordered(order[c], i) \in Seq(Item)
      BY <3>1, OrderedTypes
    <3> QED BY <1>0, <1>4, <3>2 DEF Transcribed
  <2> QED BY <1>4, <2>1, <2>2 DEF VoiceTypeOK, Transcribed, sessionVars, toolVars, tableVars
<1>5. ASSUME Stop(c)
      PROVE  VoiceTypeOK'
  <2>1. atStop' \in [Call -> SUBSET Item]
    BY <1>0, <1>5 DEF Stop
  <2>2. ws' \in [Call -> {"none", "open", "stopping", "stopped", "closed"}]
    BY <1>0, <1>5 DEF Stop
  <2>3. draft' \in [Call -> Seq(Item)]
    <3>1. Body(c) \in Seq(Item)
      BY BodyTypes
    <3> QED BY <1>0, <1>5, <3>1 DEF Stop
  <2>4. UNCHANGED <<known, leg, said, tool, transfers, tableVars, spoke, voiceFaults>>
    BY <1>5 DEF Stop
  <2>5. CASE Dispose(c)
    BY <2>1, <2>2, <2>3, <2>4, <2>5, DisposeTypes DEF VoiceTypeOK, tableVars
  <2>6. CASE KeepAll /\ UNCHANGED <<client, registered>>
    BY <2>1, <2>2, <2>3, <2>4, <2>6 DEF VoiceTypeOK, tableVars, KeepAll
  <2> QED BY <1>5, <2>5, <2>6 DEF Stop
<1>6. ASSUME Finalize(c)
      PROVE  VoiceTypeOK'
  <2>1. draft' \in [Call -> Seq(Item)]
    BY <1>0, <1>6, EmptySeq DEF Finalize
  <2>2. ws' \in [Call -> {"none", "open", "stopping", "stopped", "closed"}]
    BY <1>0, <1>6 DEF Finalize
  <2>3. UNCHANGED <<known, leg, said, tool, transfers, voicemails, atStop, spoke>>
    BY <1>6 DEF Finalize
  <2>4. CASE transcripts' = [transcripts EXCEPT ![c] = Append(transcripts[c], draft[c])]
             /\ Dispose(c) /\ UNCHANGED voiceFaults
    <3>1. Append(transcripts[c], draft[c]) \in Seq(Seq(Item))
      <4>1. transcripts[c] \in Seq(Seq(Item)) /\ draft[c] \in Seq(Item)
        BY <1>0
      <4> QED BY <4>1, AppendProperties
    <3>2. transcripts' \in [Call -> Seq(Seq(Item))]
      BY <1>0, <2>4, <3>1
    <3> QED BY <2>1, <2>2, <2>3, <2>4, <3>2, DisposeTypes DEF VoiceTypeOK
  <2>5. CASE Fault /\ KeepAll /\ UNCHANGED <<transcripts, client, registered>>
    BY <2>1, <2>2, <2>3, <2>5, FaultTypes DEF VoiceTypeOK, KeepAll
  <2> QED BY <1>6, <2>4, <2>5 DEF Finalize
<1>7. ASSUME Close(c)
      PROVE  VoiceTypeOK'
  <2>1. ws' \in [Call -> {"none", "open", "stopping", "stopped", "closed"}]
    BY <1>0, <1>7 DEF Close
  <2>2. leg' \in [Call -> Legs]
    BY <1>0, <1>7 DEF Close, Legs
  <2>3. voiceFaults' \in 0..MaxVoiceFaults
    BY <1>7, FaultTypes DEF Close, VoiceTypeOK
  <2>4. Dispose(c) /\ UNCHANGED <<known, said, draft, tool, transfers, tableVars, atStop, spoke>>
    BY <1>7 DEF Close
  <2> QED BY <2>1, <2>2, <2>3, <2>4, DisposeTypes DEF VoiceTypeOK, tableVars
<1> QED BY <1>1, <1>2, <1>3, <1>4, <1>5, <1>6, <1>7 DEF Session

LEMMA TransferTypes ==
  ASSUME VoiceTypeOK, NEW c \in Call, Transferring(c), Transfer(c)
  PROVE  VoiceTypeOK'
<1>0. /\ tool \in [Call -> ToolSteps] /\ asked \in [Call -> 0..MaxAsks] /\ told \in [Call -> 0..MaxAsks]
      /\ transfers \in [Call -> Seq({"no_answer", "answered"})] /\ leg \in [Call -> Legs]
      /\ MaxAsks \in Nat
  BY VoiceBounds DEF VoiceTypeOK
<1>1. ASSUME Gone, UNCHANGED <<known, said, transfers, transcripts, voicemails, atStop, spoke>>,
             UNCHANGED voiceFaults \/ Fault
      PROVE  VoiceTypeOK'
  <2>1. voiceFaults' \in 0..MaxVoiceFaults
    BY <1>1, FaultTypes DEF VoiceTypeOK
  <2> QED BY <1>1, <2>1, GoneTypes DEF VoiceTypeOK
<1>2. ASSUME Ask(c)
      PROVE  VoiceTypeOK'
  <2>1. tool' \in [Call -> ToolSteps]
    BY <1>0, <1>2 DEF Ask, ToolSteps
  <2>2. asked' \in [Call -> 0..MaxAsks]
    <3>1. asked[c] \in 0..MaxAsks /\ asked[c] < MaxAsks /\ asked' = [asked EXCEPT ![c] = asked[c] + 1]
      BY <1>0, <1>2 DEF Ask
    <3>2. asked[c] + 1 \in 0..MaxAsks
      BY <1>0, <3>1
    <3> QED BY <1>0, <3>1, <3>2
  <2> QED BY <1>2, <2>1, <2>2 DEF VoiceTypeOK, Ask, itemVars, sessionVars, tableVars
<1>3. ASSUME LookUp(c)
      PROVE  VoiceTypeOK'
  <2>1. CASE ToolThrows /\ Fault
    BY <1>1, <1>3, <2>1 DEF LookUp, ToolThrows, tableVars
  <2>2. CASE ~(ToolThrows /\ Fault)
    <3>1. tool' \in [Call -> ToolSteps]
      BY <1>0, <1>3, <2>2 DEF LookUp, NextStep, ToolSteps
    <3>2. KeepAll /\ UNCHANGED <<leg, sessionVars, voiceFaults, known, said, transfers, tableVars, atStop, spoke>>
      BY <1>3, <2>2 DEF LookUp
    <3> QED BY <3>1, <3>2 DEF VoiceTypeOK, KeepAll, sessionVars, tableVars
  <2> QED BY <2>1, <2>2
<1>4. ASSUME Log(c)
      PROVE  VoiceTypeOK'
  <2>1. CASE ToolThrows /\ Fault /\ UNCHANGED transfers
    BY <1>1, <1>4, <2>1 DEF Log, ToolThrows, tableVars
  <2>2. CASE ~(ToolThrows /\ Fault /\ UNCHANGED transfers)
    <3>1. tool' \in [Call -> ToolSteps]
      BY <1>0, <1>4, <2>2 DEF Log, NextStep, ToolSteps
    <3>2. transfers' \in [Call -> Seq({"no_answer", "answered"})]
      <4>1. PICK x \in {"no_answer", "answered"} : transfers' = [transfers EXCEPT ![c] = Append(transfers[c], x)]
        BY <1>4, <2>2 DEF Log
      <4>2. transfers[c] \in Seq({"no_answer", "answered"})
        BY <1>0
      <4>3. Append(transfers[c], x) \in Seq({"no_answer", "answered"})
        BY <4>2, AppendProperties
      <4> QED BY <1>0, <4>1, <4>3
    <3>3. KeepAll /\ UNCHANGED <<leg, sessionVars, voiceFaults, known, said, tableVars, atStop, spoke>>
      BY <1>4, <2>2 DEF Log
    <3> QED BY <3>1, <3>2, <3>3 DEF VoiceTypeOK, KeepAll, sessionVars, tableVars
  <2> QED BY <2>1, <2>2
<1>5. ASSUME Dial(c)
      PROVE  VoiceTypeOK'
  <2>1. CASE ToolThrows /\ (UNCHANGED voiceFaults \/ Fault)
    BY <1>1, <1>5, <2>1 DEF Dial, ToolThrows, tableVars
  <2>2. CASE ~(ToolThrows /\ (UNCHANGED voiceFaults \/ Fault))
    <3>1. tool' \in [Call -> ToolSteps] /\ leg' \in [Call -> Legs]
      BY <1>0, <1>5, <2>2 DEF Dial, NextStep, ToolSteps, Legs
    <3>2. KeepAll /\ UNCHANGED <<sessionVars, voiceFaults, known, said, transfers, tableVars, atStop, spoke>>
      BY <1>5, <2>2 DEF Dial
    <3> QED BY <3>1, <3>2 DEF VoiceTypeOK, KeepAll, sessionVars, tableVars
  <2> QED BY <2>1, <2>2
<1>6. ASSUME SubmitOutput(c)
      PROVE  VoiceTypeOK'
  <2>1. tool' \in [Call -> ToolSteps]
    BY <1>0, <1>6 DEF SubmitOutput, ToolSteps
  <2>2. told' \in [Call -> 0..MaxAsks]
    <3>1. CASE client[c] = "open"
      <4>1. asked[c] = told[c] + 1
        BY <1>6, <3>1 DEF Transferring, SubmitOutput
      <4>2. told[c] + 1 \in 0..MaxAsks
        BY <1>0, <4>1
      <4> QED BY <1>0, <1>6, <3>1, <4>2 DEF SubmitOutput
    <3>2. CASE client[c] # "open"
      BY <1>0, <1>6, <3>2 DEF SubmitOutput
    <3> QED BY <3>1, <3>2
  <2> QED BY <1>6, <2>1, <2>2 DEF VoiceTypeOK, SubmitOutput, itemVars, sessionVars, tableVars
<1> QED BY <1>2, <1>3, <1>4, <1>5, <1>6 DEF Transfer

-----------------------------------------------------------------------------
(* A step of another call leaves this one alone, unless it ends the        *)
(* process.                                                                *)
Same(c) ==
  /\ leg'[c] = leg[c] /\ ws'[c] = ws[c] /\ client'[c] = client[c]
  /\ order'[c] = order[c] /\ lines'[c] = lines[c] /\ unheard'[c] = unheard[c] /\ said'[c] = said[c]
  /\ draft'[c] = draft[c] /\ transcripts'[c] = transcripts[c] /\ atStop'[c] = atStop[c]
  /\ tool'[c] = tool[c] /\ transfers'[c] = transfers[c]
  /\ asked'[c] = asked[c] /\ told'[c] = told[c] /\ voicemails'[c] = voicemails[c]
  /\ c \in known' <=> c \in known
  /\ c \in registered' <=> c \in registered
  /\ c \in spoke' <=> c \in spoke

LEMMA SameKeeps ==
  ASSUME NEW c \in Call, CallInv(c), Same(c), voiceFaults' = 0 => voiceFaults = 0
  PROVE  CallInv(c)'
<1>1. Voicemail(c)'
  BY DEF CallInv, Voicemail, Same
<1>2. Clean(c)'
  BY DEF CallInv, Clean, Same
<1>3. Transferring(c)'
  BY DEF CallInv, Transferring, Same
<1>4. InOrder(c)'
  BY DEF CallInv, InOrder, Same
<1>5. Written(c)'
  BY DEF CallInv, Written, TheCall, Same
<1> QED BY <1>1, <1>2, <1>3, <1>4, <1>5 DEF CallInv

LEMMA FaultsGrow ==
  ASSUME VoiceTypeOK, UNCHANGED voiceFaults \/ Fault
  PROVE  voiceFaults' = 0 => voiceFaults = 0
BY DEF VoiceTypeOK, Fault

LEMMA FaultsOnly ==
  ASSUME NEW c \in Call, Phone(c) \/ Session(c) \/ Transfer(c)
  PROVE  UNCHANGED voiceFaults \/ Fault
<1>1. CASE Phone(c)
  BY <1>1 DEF Phone, AnswerCall, LeaveMessage, RecordingStatus, HangUp, PickUp, DialStatus
<1>2. CASE Session(c)
  BY <1>2 DEF Session, StreamStart, Connected, Turn, Transcribed, Stop, Finalize, Close
<1>3. CASE Transfer(c)
  BY <1>3 DEF Transfer, Ask, LookUp, Log, Dial, SubmitOutput
<1> QED BY <1>1, <1>2, <1>3

LEMMA DisposeElsewhere ==
  ASSUME VoiceTypeOK, NEW d \in Call, NEW c \in Call, c # d, Dispose(d)
  PROVE  /\ client'[c] = client[c] /\ (c \in registered' <=> c \in registered)
         /\ order'[c] = order[c] /\ lines'[c] = lines[c] /\ unheard'[c] = unheard[c]
         /\ asked'[c] = asked[c] /\ told'[c] = told[c]
BY DEF VoiceTypeOK, Dispose, Disposed, Forget

LEMMA PhoneElsewhere ==
  ASSUME VoiceTypeOK, NEW d \in Call, NEW c \in Call, c # d, Phone(d)
  PROVE  Same(c)
<1>1. leg'[c] = leg[c] /\ voicemails'[c] = voicemails[c] /\ (c \in spoke' <=> c \in spoke)
  BY DEF VoiceTypeOK, Phone, AnswerCall, LeaveMessage, RecordingStatus, HangUp, PickUp, DialStatus, tableVars
<1>2. UNCHANGED <<known, itemVars, sessionVars, toolVars, transcripts, atStop>>
  BY DEF Phone, AnswerCall, LeaveMessage, RecordingStatus, HangUp, PickUp, DialStatus, tableVars
<1> QED BY <1>1, <1>2 DEF Same, itemVars, sessionVars, toolVars

LEMMA SessionElsewhere ==
  ASSUME VoiceTypeOK, NEW d \in Call, NEW c \in Call, c # d, Session(d)
  PROVE  Same(c)
<1>0. /\ client \in [Call -> {"none", "connecting", "open", "closed"}] /\ registered \in SUBSET Call
      /\ ws \in [Call -> {"none", "open", "stopping", "stopped", "closed"}]
      /\ order \in [Call -> Seq(Item)] /\ draft \in [Call -> Seq(Item)]
      /\ said \in [Call -> 0..MaxItems] /\ lines \in [Call -> SUBSET Item]
      /\ unheard \in [Call -> SUBSET Item] /\ atStop \in [Call -> SUBSET Item]
      /\ transcripts \in [Call -> Seq(Seq(Item))] /\ leg \in [Call -> Legs]
  BY DEF VoiceTypeOK
<1>1. CASE StreamStart(d)
  BY <1>0, <1>1 DEF Same, StreamStart, itemVars, toolVars, tableVars
<1>2. CASE Connected(d)
  BY <1>0, <1>2 DEF Same, Connected, itemVars, toolVars, tableVars
<1>3. CASE Turn(d)
  BY <1>0, <1>3 DEF Same, Turn, sessionVars, toolVars, tableVars
<1>4. ASSUME NEW i \in Item, Transcribed(d, i)
      PROVE  Same(c)
  BY <1>0, <1>4 DEF Same, Transcribed, sessionVars, toolVars, tableVars
<1>5. CASE Stop(d)
  <2>1. ws'[c] = ws[c] /\ draft'[c] = draft[c] /\ atStop'[c] = atStop[c]
    BY <1>0, <1>5 DEF Stop
  <2>2. UNCHANGED <<known, leg, said, tool, transfers, tableVars, spoke>>
    BY <1>5 DEF Stop
  <2>3. CASE Dispose(d)
    BY <2>1, <2>2, <2>3, DisposeElsewhere DEF Same, tableVars
  <2>4. CASE KeepAll /\ UNCHANGED <<client, registered>>
    BY <2>1, <2>2, <2>4 DEF Same, tableVars, KeepAll
  <2> QED BY <1>5, <2>3, <2>4 DEF Stop
<1>6. CASE Finalize(d)
  <2>1. ws'[c] = ws[c] /\ draft'[c] = draft[c] /\ transcripts'[c] = transcripts[c]
    BY <1>0, <1>6 DEF Finalize
  <2>2. UNCHANGED <<known, leg, said, tool, transfers, voicemails, atStop, spoke>>
    BY <1>6 DEF Finalize
  <2>3. CASE Dispose(d)
    BY <2>1, <2>2, <2>3, DisposeElsewhere DEF Same
  <2>4. CASE KeepAll /\ UNCHANGED <<client, registered>>
    BY <2>1, <2>2, <2>4 DEF Same, KeepAll
  <2> QED BY <1>6, <2>3, <2>4 DEF Finalize
<1>7. CASE Close(d)
  <2>1. ws'[c] = ws[c] /\ leg'[c] = leg[c]
    BY <1>0, <1>7 DEF Close
  <2>2. Dispose(d) /\ UNCHANGED <<known, said, draft, tool, transfers, tableVars, atStop, spoke>>
    BY <1>7 DEF Close
  <2> QED BY <2>1, <2>2, DisposeElsewhere DEF Same, tableVars
<1> QED BY <1>1, <1>2, <1>3, <1>4, <1>5, <1>6, <1>7 DEF Session

(* What ToolThrows leaves alone. *)
Outlives == UNCHANGED <<known, said, transfers, transcripts, voicemails, atStop, spoke>>

LEMMA TransferElsewhere ==
  ASSUME VoiceTypeOK, NEW d \in Call, NEW c \in Call, c # d, Transfer(d)
  PROVE  Same(c) \/ (Gone /\ Outlives)
<1>0. /\ tool \in [Call -> ToolSteps] /\ asked \in [Call -> 0..MaxAsks] /\ told \in [Call -> 0..MaxAsks]
      /\ transfers \in [Call -> Seq({"no_answer", "answered"})] /\ leg \in [Call -> Legs]
  BY DEF VoiceTypeOK
<1>1. CASE Ask(d)
  BY <1>0, <1>1 DEF Same, Ask, itemVars, sessionVars, tableVars
<1>2. CASE LookUp(d)
  BY <1>0, <1>2 DEF Same, LookUp, KeepAll, ToolThrows, Outlives, sessionVars, tableVars
<1>3. CASE Log(d)
  BY <1>0, <1>3 DEF Same, Log, KeepAll, ToolThrows, Outlives, sessionVars, tableVars
<1>4. CASE Dial(d)
  BY <1>0, <1>4 DEF Same, Dial, KeepAll, ToolThrows, Outlives, sessionVars, tableVars
<1>5. CASE SubmitOutput(d)
  BY <1>0, <1>5 DEF Same, SubmitOutput, itemVars, sessionVars, tableVars
<1> QED BY <1>1, <1>2, <1>3, <1>4, <1>5 DEF Transfer

-----------------------------------------------------------------------------
(* The steps of a call keep what holds of it.                              *)
LEMMA GoneKeeps ==
  ASSUME VoiceTypeOK, NEW c \in Call, CallInv(c), Gone, Outlives, voiceFaults' = 0 => voiceFaults = 0
  PROVE  CallInv(c)'
<1>1. /\ ws'[c] = (IF ws[c] = "none" THEN "none" ELSE "closed")
      /\ client'[c] = (IF client[c] = "none" THEN "none" ELSE "closed")
      /\ leg'[c] = (IF leg[c] = "stream" THEN "over" ELSE leg[c])
  BY DEF Gone
<1>2. /\ draft'[c] = <<>> /\ tool'[c] = "idle" /\ registered' = {}
      /\ order'[c] = <<>> /\ lines'[c] = {} /\ unheard'[c] = {} /\ asked'[c] = 0 /\ told'[c] = 0
  BY DEF Gone, Forget
<1>3. UNCHANGED <<known, said, transfers, transcripts, voicemails, atStop, spoke>>
  BY DEF Outlives
<1>4. Voicemail(c)'
  BY <1>1, <1>3 DEF CallInv, Voicemail
<1>5. Clean(c)'
  BY <1>1, <1>2 DEF CallInv, Clean
<1>6. Transferring(c)'
  BY <1>1, <1>2, <1>3 DEF CallInv, Transferring
<1>7. InOrder(c)'
  BY <1>2 DEF InOrder, Rising, Range
<1>8. Written(c)'
  BY <1>1, <1>2, <1>3 DEF CallInv, Written, TheCall
<1> QED BY <1>4, <1>5, <1>6, <1>7, <1>8 DEF CallInv

LEMMA PhoneKeeps ==
  ASSUME VoiceTypeOK, NEW c \in Call, CallInv(c), Phone(c), voiceFaults' = 0 => voiceFaults = 0
  PROVE  CallInv(c)'
<1>0. leg \in [Call -> Legs] /\ voicemails \in [Call -> Nat] /\ spoke \in SUBSET Call
  BY DEF VoiceTypeOK
<1>1. UNCHANGED <<known, itemVars, sessionVars, toolVars, transcripts, atStop>>
  BY DEF Phone, AnswerCall, LeaveMessage, RecordingStatus, HangUp, PickUp, DialStatus, tableVars
<1>2. Voicemail(c)'
  <2>1. CASE RecordingStatus(c)
    <3>1. voicemails[c] = 0 /\ leg'[c] = "over" /\ UNCHANGED <<spoke, known>>
      BY <1>0, <2>1 DEF RecordingStatus, CallInv, Voicemail
    <3>2. c \in known /\ voiceFaults' = 0 => voicemails'[c] = voicemails[c] + 1
      BY <1>0, <2>1 DEF RecordingStatus, Fault, VoiceTypeOK
    <3> QED BY <3>1, <3>2 DEF Voicemail
  <2>2. CASE LeaveMessage(c)
    BY <1>0, <2>2 DEF LeaveMessage, CallInv, Voicemail, tableVars
  <2>3. CASE AnswerCall(c) \/ HangUp(c) \/ PickUp(c) \/ DialStatus(c)
    <3>1. leg[c] \notin {"recorded", "over"} /\ UNCHANGED <<spoke, voicemails>>
      BY <2>3 DEF AnswerCall, HangUp, PickUp, DialStatus, tableVars
    <3> QED BY <3>1 DEF CallInv, Voicemail
  <2> QED BY <2>1, <2>2, <2>3 DEF Phone
<1>3. leg'[c] # "new" /\ (leg'[c] \in {"dialing", "talking"} => leg[c] = "dialing")
  BY <1>0 DEF Phone, AnswerCall, LeaveMessage, RecordingStatus, HangUp, PickUp, DialStatus
<1>4. Clean(c)'
  BY <1>1, <1>3 DEF CallInv, Clean, sessionVars
<1>5. Transferring(c)'
  BY <1>1, <1>3 DEF CallInv, Transferring, sessionVars, toolVars
<1>6. InOrder(c)'
  BY <1>1 DEF CallInv, InOrder, itemVars
<1>7. Written(c)'
  BY <1>1 DEF CallInv, Written, TheCall, sessionVars
<1> QED BY <1>2, <1>4, <1>5, <1>6, <1>7 DEF CallInv

LEMMA DisposeDoes ==
  ASSUME VoiceTypeOK, NEW c \in Call, Dispose(c)
  PROVE  /\ client'[c] = (IF client[c] = "none" THEN "none" ELSE "closed") /\ c \notin registered'
         /\ order'[c] = <<>> /\ lines'[c] = {} /\ unheard'[c] = {}
         /\ asked'[c] = 0 /\ told'[c] = 0
BY DEF VoiceTypeOK, Dispose, Disposed, Forget

LEMMA DisposeKeeps ==
  ASSUME VoiceTypeOK, NEW c \in Call, CallInv(c), Dispose(c), UNCHANGED <<tool, known, transfers>>,
         leg'[c] = leg[c] \/ leg'[c] = "over", ws'[c] # "none"
  PROVE  (leg'[c] # "new" => Clean(c)') /\ Transferring(c)' /\ InOrder(c)'
<1>1. Transferring(c)'
  BY DisposeDoes DEF CallInv, Transferring
<1>2. InOrder(c)'
  BY DisposeDoes DEF InOrder, Rising, Range
<1>3. leg'[c] # "new" => Clean(c)'
  BY DisposeDoes DEF Clean
<1> QED BY <1>1, <1>2, <1>3

LEMMA SessionKeeps ==
  ASSUME VoiceTypeOK, NEW c \in Call, CallInv(c), Session(c), voiceFaults' = 0 => voiceFaults = 0
  PROVE  CallInv(c)'
<1>0. /\ client \in [Call -> {"none", "connecting", "open", "closed"}] /\ registered \in SUBSET Call
      /\ ws \in [Call -> {"none", "open", "stopping", "stopped", "closed"}]
      /\ order \in [Call -> Seq(Item)] /\ draft \in [Call -> Seq(Item)]
      /\ said \in [Call -> 0..MaxItems] /\ lines \in [Call -> SUBSET Item]
      /\ unheard \in [Call -> SUBSET Item] /\ atStop \in [Call -> SUBSET Item]
      /\ transcripts \in [Call -> Seq(Seq(Item))] /\ leg \in [Call -> Legs]
  BY DEF VoiceTypeOK
<1>1. ASSUME StreamStart(c)
      PROVE  CallInv(c)'
  <2>1. /\ leg[c] = "new" /\ ws[c] = "none" /\ client[c] = "none"
        /\ leg'[c] = "stream" /\ ws'[c] = "open" /\ client'[c] = "connecting"
    BY <1>0, <1>1 DEF StreamStart, CallInv, Clean
  <2>2. UNCHANGED <<known, itemVars, draft, toolVars, tableVars, atStop, spoke, voiceFaults>>
    BY <1>1 DEF StreamStart
  <2>3. Voicemail(c)' /\ Clean(c)'
    BY <2>1, <2>2 DEF CallInv, Voicemail, Clean, tableVars
  <2>4. Transferring(c)'
    BY <2>1, <2>2 DEF CallInv, Transferring, toolVars
  <2>5. InOrder(c)'
    BY <2>2 DEF CallInv, InOrder, itemVars
  <2>6. Written(c)'
    BY <2>1, <2>2 DEF CallInv, Written, TheCall, tableVars
  <2> QED BY <2>3, <2>4, <2>5, <2>6 DEF CallInv
<1>2. ASSUME Connected(c)
      PROVE  CallInv(c)'
  <2>1. client[c] = "connecting" /\ client'[c] \in {"open", "closed"}
    BY <1>0, <1>2 DEF Connected
  <2>2. UNCHANGED <<known, leg, itemVars, ws, registered, draft, toolVars, tableVars, atStop, spoke>>
    BY <1>2 DEF Connected
  <2>3. Voicemail(c)' /\ Clean(c)'
    BY <2>1, <2>2 DEF CallInv, Voicemail, Clean, tableVars
  <2>4. Transferring(c)'
    <3>1. tool[c] = "idle" /\ asked[c] = told[c] /\ told[c] \in Nat
      BY <2>1 DEF CallInv, Transferring, VoiceTypeOK
    <3> QED BY <2>1, <2>2, <3>1 DEF CallInv, Transferring, toolVars
  <2>5. InOrder(c)'
    BY <2>2 DEF CallInv, InOrder, itemVars
  <2>6. Written(c)'
    BY <2>1, <2>2 DEF CallInv, Written, TheCall, tableVars
  <2> QED BY <2>3, <2>4, <2>5, <2>6 DEF CallInv
<1>3. ASSUME Turn(c)
      PROVE  CallInv(c)'
  <2>1. UNCHANGED <<known, leg, lines, sessionVars, toolVars, tableVars, atStop, spoke, voiceFaults>>
    BY <1>3 DEF Turn
  <2>2. Voicemail(c)' /\ Clean(c)' /\ Transferring(c)'
    BY <2>1 DEF CallInv, Voicemail, Clean, Transferring, tableVars, sessionVars, toolVars
  <2>3. Written(c)'
    BY <2>1 DEF CallInv, Written, TheCall, tableVars, sessionVars
  <2>4. InOrder(c)'
    <3> DEFINE i == said[c] + 1
    <3>1. i \in Item /\ order[c] \in Seq(Item)
      BY <1>0, <1>3, TurnsBounded
    <3>2. /\ said'[c] = i /\ unheard'[c] = unheard[c] \cup {i}
          /\ order'[c] = Ordered(order[c], i)
      BY <1>0, <1>3 DEF Turn
    <3>3. said[c] \in Nat /\ i = said[c] + 1
      BY <1>0
    <3> HIDE DEF i
    <3>4. \A j \in Range(order[c]) : j \in Int /\ j <= said[c]
      <4>1. \A n \in DOMAIN order[c] : order[c][n] \in Item
        BY <3>1
      <4>2. \A j \in Range(order[c]) : j \in Item
        BY <4>1 DEF Range
      <4> QED BY <4>2 DEF CallInv, InOrder, Item
    <3>5. i \notin Range(order[c]) /\ \A j \in Range(order[c]) : j < i
      BY <3>3, <3>4
    <3>6. order'[c] = Append(order[c], i)
      <4>1. DOMAIN order[c] = 1..Len(order[c])
        BY <3>1, LenProperties
      <4>2. ~Contains(order[c], i)
        BY <3>5, <4>1 DEF Contains, Range
      <4> QED BY <3>2, <4>2 DEF Ordered
    <3>7. Rising(order'[c]) /\ Range(order'[c]) = Range(order[c]) \cup {i}
      BY <3>1, <3>5, <3>6, RisingAppend DEF CallInv, InOrder
    <3>8. \A j \in Range(order'[c]) : j <= said'[c]
      BY <3>2, <3>3, <3>4, <3>7
    <3>9. unheard'[c] \cup lines'[c] \subseteq Range(order'[c])
      BY <2>1, <3>2, <3>7 DEF CallInv, InOrder
    <3> QED BY <3>7, <3>8, <3>9 DEF InOrder
  <2> QED BY <2>2, <2>3, <2>4 DEF CallInv
<1>4. ASSUME NEW i \in Item, Transcribed(c, i)
      PROVE  CallInv(c)'
  <2>1. UNCHANGED <<known, leg, said, sessionVars, toolVars, tableVars, atStop, spoke, voiceFaults>>
    BY <1>4 DEF Transcribed
  <2>2. Voicemail(c)' /\ Clean(c)' /\ Transferring(c)'
    BY <2>1 DEF CallInv, Voicemail, Clean, Transferring, tableVars, sessionVars, toolVars
  <2>3. Written(c)'
    BY <2>1 DEF CallInv, Written, TheCall, tableVars, sessionVars
  <2>4. InOrder(c)'
    <3>1. i \in Range(order[c])
      BY <1>4 DEF Transcribed, CallInv, InOrder
    <3>2. Ordered(order[c], i) = order[c]
      <4>1. order[c] \in Seq(Item) /\ DOMAIN order[c] = 1..Len(order[c])
        BY <1>0, LenProperties
      <4>2. Contains(order[c], i)
        BY <3>1, <4>1 DEF Contains, Range
      <4> QED BY <4>2 DEF Ordered
    <3>3. order'[c] = order[c] /\ said'[c] = said[c]
      BY <1>0, <1>4, <2>1, <3>2 DEF Transcribed
    <3>4. unheard'[c] \subseteq unheard[c] /\ lines'[c] \subseteq lines[c] \cup {i}
      BY <1>0, <1>4 DEF Transcribed
    <3> QED BY <3>1, <3>3, <3>4 DEF CallInv, InOrder
  <2> QED BY <2>2, <2>3, <2>4 DEF CallInv
<1>5. ASSUME Stop(c)
      PROVE  CallInv(c)'
  <2>1. UNCHANGED <<known, leg, said, tool, transfers, tableVars, spoke, voiceFaults>>
    BY <1>5 DEF Stop
  <2>2. /\ ws[c] = "open" /\ ws'[c] \in {"stopping", "stopped"} /\ atStop'[c] = lines[c]
        /\ leg[c] # "new"
    BY <1>0, <1>5 DEF Stop, CallInv, Clean
  <2>3. draft[c] = <<>> /\ transcripts[c] = <<>>
    BY <2>2 DEF CallInv, Written
  <2>4. Voicemail(c)'
    BY <2>1 DEF CallInv, Voicemail, tableVars
  <2>5. Clean(c)' /\ Transferring(c)' /\ InOrder(c)'
    <3>1. CASE Dispose(c)
      BY <2>1, <2>2, <3>1, DisposeKeeps
    <3>2. CASE KeepAll /\ UNCHANGED <<client, registered>>
      <4>1. Clean(c)'
        BY <2>1, <2>2 DEF Clean
      <4>2. Transferring(c)'
        BY <2>1, <3>2 DEF CallInv, Transferring, KeepAll
      <4>3. InOrder(c)'
        BY <2>1, <3>2 DEF CallInv, InOrder, KeepAll
      <4> QED BY <4>1, <4>2, <4>3
    <3> QED BY <1>5, <3>1, <3>2 DEF Stop
  <2>6. draft'[c] = <<>> \/ (Rising(draft'[c]) /\ Range(draft'[c]) = atStop'[c])
    <3>1. CASE UNCHANGED draft
      BY <2>3, <3>1
    <3>2. CASE draft' = [draft EXCEPT ![c] = Body(c)]
      <4>1. draft'[c] = Body(c)
        BY <1>0, <3>2
      <4>2. Rising(Body(c)) /\ Range(Body(c)) = lines[c]
        BY BodyTypes DEF CallInv
      <4> QED BY <2>2, <4>1, <4>2
    <3> QED BY <1>5, <3>1, <3>2 DEF Stop
  <2>7. Written(c)'
    BY <2>1, <2>2, <2>3, <2>6 DEF Written, TheCall, tableVars
  <2> QED BY <2>4, <2>5, <2>7 DEF CallInv
<1>6. ASSUME Finalize(c)
      PROVE  CallInv(c)'
  <2>1. UNCHANGED <<known, leg, said, tool, transfers, voicemails, atStop, spoke>>
    BY <1>6 DEF Finalize
  <2>2. draft[c] # <<>> /\ draft'[c] = <<>>
    BY <1>0, <1>6 DEF Finalize
  <2>3. /\ ws[c] \notin {"none", "open"} /\ leg[c] # "new"
        /\ transcripts[c] = <<>> /\ TheCall(draft[c], c)
    BY <2>2 DEF CallInv, Written, Clean
  <2>4. ws'[c] = (IF ws[c] = "stopping" THEN "stopped" ELSE ws[c])
    BY <1>0, <1>6 DEF Finalize
  <2>5. Voicemail(c)'
    BY <2>1 DEF CallInv, Voicemail
  <2>6. Clean(c)' /\ Transferring(c)' /\ InOrder(c)'
    <3>1. CASE Dispose(c)
      BY <2>1, <2>3, <2>4, <3>1, DisposeKeeps
    <3>2. CASE KeepAll /\ UNCHANGED <<client, registered>>
      <4>1. Clean(c)'
        BY <2>1, <2>3, <2>4, <3>2 DEF CallInv, Clean
      <4>2. Transferring(c)'
        BY <2>1, <3>2 DEF CallInv, Transferring, KeepAll
      <4>3. InOrder(c)'
        BY <2>1, <3>2 DEF CallInv, InOrder, KeepAll
      <4> QED BY <4>1, <4>2, <4>3
    <3> QED BY <1>6, <3>1, <3>2 DEF Finalize
  <2>7. transcripts'[c] = <<>> \/ transcripts'[c] = <<draft[c]>>
    <3>1. UNCHANGED transcripts \/ transcripts' = [transcripts EXCEPT ![c] = Append(transcripts[c], draft[c])]
      BY <1>6 DEF Finalize
    <3>2. Append(<<>>, draft[c]) = <<draft[c]>>
      OBVIOUS
    <3> QED BY <1>0, <2>3, <3>1, <3>2
  <2>8. draft[c] \in Seq(Item) /\ ws'[c] \notin {"none", "open"}
    BY <1>0, <2>3, <2>4
  <2>9. Written(c)'
    <3>1. Rising(draft[c]) /\ Range(draft[c]) = atStop'[c]
      BY <2>1, <2>3 DEF TheCall
    <3>2. draft[c] \in Range(<<draft[c]>>)
      BY DEF Range
    <3> QED BY <2>2, <2>7, <2>8, <3>1, <3>2 DEF Written, TheCall
  <2> QED BY <2>5, <2>6, <2>9 DEF CallInv
<1>7. ASSUME Close(c)
      PROVE  CallInv(c)'
  <2>1. Dispose(c) /\ UNCHANGED <<known, said, draft, tool, transfers, tableVars, atStop, spoke>>
    BY <1>7 DEF Close
  <2>2. /\ ws[c] \in {"open", "stopping", "stopped"} /\ ws'[c] = "closed" /\ leg[c] # "new"
        /\ leg'[c] = leg[c] \/ (leg[c] = "stream" /\ leg'[c] = "over")
    BY <1>0, <1>7 DEF Close, CallInv, Clean
  <2>3. Voicemail(c)'
    BY <2>1, <2>2 DEF CallInv, Voicemail, tableVars
  <2>4. Clean(c)' /\ Transferring(c)' /\ InOrder(c)'
    BY <2>1, <2>2, DisposeKeeps
  <2>5. Written(c)'
    BY <2>1, <2>2 DEF CallInv, Written, TheCall, tableVars
  <2> QED BY <2>3, <2>4, <2>5 DEF CallInv
<1> QED BY <1>1, <1>2, <1>3, <1>4, <1>5, <1>6, <1>7 DEF Session

LEMMA TransferKeeps ==
  ASSUME VoiceTypeOK, NEW c \in Call, CallInv(c), Transfer(c), voiceFaults' = 0 => voiceFaults = 0
  PROVE  CallInv(c)'
<1>0. /\ tool \in [Call -> ToolSteps] /\ asked \in [Call -> 0..MaxAsks] /\ told \in [Call -> 0..MaxAsks]
      /\ transfers \in [Call -> Seq({"no_answer", "answered"})] /\ leg \in [Call -> Legs]
      /\ asked[c] \in Nat /\ told[c] \in Nat
  BY VoiceBounds DEF VoiceTypeOK
<1>1. ASSUME Gone, Outlives
      PROVE  CallInv(c)'
  BY <1>1, GoneKeeps
<1>2. ASSUME UNCHANGED <<known, itemVars, sessionVars, tableVars, atStop, spoke>>,
             leg'[c] = leg[c] \/ (leg[c] \notin {"new", "recorded", "over"} /\ leg'[c] = "dialing")
      PROVE  Voicemail(c)' /\ Clean(c)' /\ InOrder(c)' /\ Written(c)'
  <2>1. Voicemail(c)'
    BY <1>2 DEF CallInv, Voicemail, tableVars
  <2>2. Clean(c)'
    BY <1>2 DEF CallInv, Clean, sessionVars
  <2>3. InOrder(c)'
    BY <1>2 DEF CallInv, InOrder, itemVars
  <2>4. Written(c)'
    BY <1>2 DEF CallInv, Written, TheCall, sessionVars, tableVars
  <2> QED BY <2>1, <2>2, <2>3, <2>4
<1>3. CASE Ask(c)
  <2>1. /\ client[c] = "open" /\ tool[c] = "idle" /\ asked'[c] = asked[c] + 1
        /\ tool'[c] = (IF c \in known THEN "lookup" ELSE "answer")
        /\ UNCHANGED <<known, leg, itemVars, sessionVars, transfers, told, tableVars, atStop, spoke>>
    BY <1>0, <1>3 DEF Ask
  <2>2. Transferring(c)'
    BY <1>0, <2>1 DEF CallInv, Transferring, sessionVars
  <2> QED BY <1>2, <2>1, <2>2 DEF CallInv
<1>4. CASE LookUp(c)
  <2>1. CASE Gone
    BY <1>1, <1>4, <2>1 DEF LookUp, Outlives, tableVars
  <2>2. CASE ~Gone
    <3>1. tool[c] = "lookup" /\ tool'[c] \in {"log", "refuse"}
      BY <1>0, <1>4, <2>2 DEF LookUp, ToolThrows, NextStep
    <3>2. UNCHANGED <<order, lines, unheard, asked, told, leg, sessionVars, known, said, transfers, tableVars, atStop, spoke>>
      BY <1>4, <2>2 DEF LookUp, ToolThrows, KeepAll
    <3>3. Transferring(c)'
      BY <1>0, <3>1, <3>2 DEF CallInv, Transferring, sessionVars
    <3> QED BY <1>2, <3>2, <3>3 DEF CallInv, itemVars
  <2> QED BY <2>1, <2>2
<1>5. CASE Log(c)
  <2>1. CASE Gone /\ UNCHANGED transfers
    BY <1>1, <1>5, <2>1 DEF Log, Outlives, tableVars
  <2>2. CASE ~(Gone /\ UNCHANGED transfers)
    <3>1. tool[c] \in {"log", "refuse"} /\ tool'[c] = (IF tool[c] = "log" THEN "dial" ELSE "answer")
      BY <1>0, <1>5, <2>2 DEF Log, ToolThrows, NextStep
    <3>2. UNCHANGED <<order, lines, unheard, asked, told, leg, sessionVars, known, said, tableVars, atStop, spoke>>
      BY <1>5, <2>2 DEF Log, ToolThrows, KeepAll
    <3>3. PICK x \in {"no_answer", "answered"} :
            transfers'[c] = Append(transfers[c], x) /\ (tool[c] = "log" => x = "answered")
      BY <1>0, <1>5, <2>2 DEF Log, ToolThrows
    <3>4. /\ Contains(transfers[c], "answered") => Contains(transfers'[c], "answered")
          /\ tool[c] = "log" => Contains(transfers'[c], "answered")
      <4>1. transfers[c] \in Seq({"no_answer", "answered"})
        BY <1>0
      <4>2. /\ Len(transfers'[c]) = Len(transfers[c]) + 1 /\ Len(transfers[c]) \in Nat
            /\ \A i \in 1..Len(transfers[c]) : transfers'[c][i] = transfers[c][i]
            /\ transfers'[c][Len(transfers[c]) + 1] = x
        BY <3>3, <4>1, AppendProperties, LenProperties
      <4>3. ASSUME Contains(transfers[c], "answered")
            PROVE  Contains(transfers'[c], "answered")
        BY <4>2, <4>3 DEF Contains
      <4>4. tool[c] = "log" => Contains(transfers'[c], "answered")
        BY <3>3, <4>2 DEF Contains
      <4> QED BY <4>3, <4>4
    <3>5. Transferring(c)'
      BY <1>0, <3>1, <3>2, <3>4 DEF CallInv, Transferring, sessionVars
    <3> QED BY <1>2, <3>2, <3>5 DEF CallInv, itemVars
  <2> QED BY <2>1, <2>2
<1>6. CASE Dial(c)
  <2>1. CASE Gone
    BY <1>1, <1>6, <2>1 DEF Dial, Outlives, tableVars
  <2>2. CASE ~Gone
    <3>1. /\ tool[c] = "dial" /\ tool'[c] = "answer"
          /\ leg[c] \notin {"new", "recorded", "over"} /\ leg'[c] = "dialing"
      BY <1>0, <1>6, <2>2 DEF Dial, ToolThrows, NextStep
    <3>2. UNCHANGED <<order, lines, unheard, asked, told, sessionVars, known, said, transfers, tableVars, atStop, spoke>>
      BY <1>6, <2>2 DEF Dial, ToolThrows, KeepAll
    <3>3. Transferring(c)'
      BY <1>0, <3>1, <3>2 DEF CallInv, Transferring, sessionVars
    <3> QED BY <1>2, <3>1, <3>2, <3>3 DEF CallInv, itemVars
  <2> QED BY <2>1, <2>2
<1>7. CASE SubmitOutput(c)
  <2>1. /\ tool[c] = "answer" /\ tool'[c] = "idle"
        /\ told'[c] = (IF client[c] = "open" THEN told[c] + 1 ELSE told[c])
        /\ UNCHANGED <<known, leg, itemVars, sessionVars, transfers, asked, tableVars, atStop, spoke>>
    BY <1>0, <1>7 DEF SubmitOutput
  <2>2. Transferring(c)'
    BY <1>0, <2>1 DEF CallInv, Transferring, sessionVars
  <2> QED BY <1>2, <2>1, <2>2 DEF CallInv
<1> QED BY <1>3, <1>4, <1>5, <1>6, <1>7 DEF Transfer

-----------------------------------------------------------------------------
LEMMA Initially ==
  ASSUME VoiceInit
  PROVE  VoiceInv
<1>1. VoiceTypeOK
  <2>1. <<>> \in Seq(Item) /\ <<>> \in Seq(Seq(Item)) /\ <<>> \in Seq({"no_answer", "answered"})
    BY EmptySeq
  <2>2. 0 \in 0..MaxItems /\ 0 \in 0..MaxAsks /\ 0 \in 0..MaxVoiceFaults
    BY VoiceBounds
  <2> QED BY <2>1, <2>2 DEF VoiceInit, VoiceTypeOK, Legs, ToolSteps
<1>2. ASSUME NEW c \in Call
      PROVE  CallInv(c)
  <2>1. Voicemail(c) /\ Clean(c) /\ Transferring(c)
    BY <1>2 DEF VoiceInit, Voicemail, Clean, Transferring
  <2>2. InOrder(c)
    BY <1>2 DEF VoiceInit, InOrder, Rising, Range
  <2>3. Written(c)
    BY <1>2 DEF VoiceInit, Written
  <2> QED BY <2>1, <2>2, <2>3 DEF CallInv
<1> QED BY <1>1, <1>2 DEF VoiceInv

LEMMA StepKeeps ==
  ASSUME VoiceInv, NEW d \in Call, Phone(d) \/ Session(d) \/ Transfer(d)
  PROVE  VoiceInv'
<1>0. VoiceTypeOK /\ CallInv(d) /\ InOrder(d) /\ Transferring(d)
  BY DEF VoiceInv, CallInv
<1>1. voiceFaults' = 0 => voiceFaults = 0
  BY <1>0, FaultsOnly, FaultsGrow
<1>2. VoiceTypeOK'
  BY <1>0, PhoneTypes, SessionTypes, TransferTypes
<1>3. CallInv(d)'
  BY <1>0, <1>1, PhoneKeeps, SessionKeeps, TransferKeeps
<1>4. ASSUME NEW c \in Call, c # d
      PROVE  CallInv(c)'
  <2>1. CallInv(c)
    BY DEF VoiceInv
  <2>2. Same(c) \/ (Gone /\ Outlives)
    BY <1>0, <1>4, PhoneElsewhere, SessionElsewhere, TransferElsewhere
  <2> QED BY <1>0, <1>1, <2>1, <2>2, SameKeeps, GoneKeeps
<1> QED BY <1>2, <1>3, <1>4 DEF VoiceInv

(* The inductive invariant, the types included, holds throughout.          *)
THEOREM VoiceInductive == VoiceSpec => []VoiceInv
<1>1. ASSUME VoiceInv, [VoiceNext]_voiceVars
      PROVE  VoiceInv'
  <2>1. CASE VoiceNext
    BY <1>1, <2>1, StepKeeps DEF VoiceNext
  <2>2. CASE UNCHANGED voiceVars
    <3>1. VoiceTypeOK'
      BY <1>1, <2>2 DEF VoiceInv, VoiceTypeOK, voiceVars, itemVars, sessionVars, toolVars, tableVars
    <3>2. UNCHANGED voiceFaults /\ \A c \in Call : Same(c)
      BY <2>2 DEF Same, voiceVars, itemVars, sessionVars, toolVars, tableVars
    <3>3. \A c \in Call : CallInv(c)'
      BY <1>1, <3>2, SameKeeps DEF VoiceInv
    <3> QED BY <3>1, <3>3 DEF VoiceInv
  <2> QED BY <1>1, <2>1, <2>2
<1> QED BY <1>1, Initially, PTL DEF VoiceSpec

(* A closed socket leaves no session and no paid connection behind, at     *)
(* whatever moment of the call it closes.                                  *)
THEOREM NoneLeftBehind == VoiceSpec => []NothingLeftBehind
<1>1. ASSUME VoiceInv
      PROVE  NothingLeftBehind
  BY <1>1 DEF VoiceInv, CallInv, Clean, NothingLeftBehind
<1> QED BY <1>1, VoiceInductive, PTL

(* Nobody is dialled without ids and a logged transfer, and a model that   *)
(* is connected gets an output for each transfer it asked for.             *)
THEOREM EveryTransferAccounted == VoiceSpec => []TransfersAccounted
<1>1. ASSUME VoiceInv
      PROVE  TransfersAccounted
  <2>1. ASSUME NEW c \in Call
        PROVE  /\ leg[c] \in {"dialing", "talking"} => c \in known /\ Contains(transfers[c], "answered")
               /\ client[c] = "open" /\ tool[c] = "idle" => told[c] = asked[c]
    <3>1. Transferring(c) /\ told[c] \in Nat
      BY <1>1, VoiceBounds DEF VoiceInv, CallInv, VoiceTypeOK
    <3> QED BY <3>1 DEF Transferring
  <2> QED BY <2>1 DEF TransfersAccounted
<1> QED BY <1>1, VoiceInductive, PTL

(* A call has one transcript at most, of all that had words when its       *)
(* stream stopped and of nothing else, in the order it was spoken; and a   *)
(* message left after a tone is kept, until a statement throws.            *)
THEOREM CallsAreKept == VoiceSpec => []CallIsKept
<1>1. ASSUME VoiceInv
      PROVE  CallIsKept
  <2>1. TranscriptIsTheCall
    <3> SUFFICES ASSUME NEW c \in Call, NEW n \in DOMAIN transcripts[c]
                 PROVE  /\ n = 1 /\ Range(transcripts[c][n]) = atStop[c]
                        /\ Rising(transcripts[c][n])
      BY DEF TranscriptIsTheCall, Rising
    <3>1. Written(c)
      BY <1>1 DEF VoiceInv, CallInv
    <3>2. PICK q \in Range(transcripts[c]) : transcripts[c] = <<q>> /\ TheCall(q, c)
      BY <3>1 DEF Written
    <3>3. n = 1 /\ transcripts[c][n] = q
      BY <3>2
    <3> QED BY <3>2, <3>3 DEF TheCall
  <2>2. VoicemailIsKept
    <3> SUFFICES ASSUME NEW c \in spoke, c \in known, voiceFaults = 0
                 PROVE  leg[c] = "recorded" \/ voicemails[c] = 1
      BY DEF VoicemailIsKept
    <3>1. c \in Call /\ Voicemail(c)
      BY <1>1 DEF VoiceInv, VoiceTypeOK, CallInv
    <3> QED BY <3>1 DEF Voicemail
  <2> QED BY <2>1, <2>2 DEF CallIsKept
<1> QED BY <1>1, VoiceInductive, PTL
=============================================================================
