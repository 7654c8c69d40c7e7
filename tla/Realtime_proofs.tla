-------------------------- MODULE Realtime_proofs --------------------------
(* Theorems about the four components that act on what goes on at the      *)
(* moment and tell somebody: ResponseClock tells reside that an answer is  *)
(* overdue, DeliveryOutcome that an address has stopped working,           *)
(* DashboardPresence shows agents who else is looking, and ChatHandoff     *)
(* carries a visitor's chat.  They share no state, and each is proved      *)
(* about on its own.                                                       *)
EXTENDS ResponseClock, DeliveryOutcome, DashboardPresence, ChatHandoff,
        FiniteSetTheorems, SequenceTheorems, TLAPS

-----------------------------------------------------------------------------
(* ResponseClock, for any number of conversations, ticks, replies,         *)
(* restructurings and faults.                                              *)

(* A notice is owed to an episode: a conversation that has not been        *)
(* announced holds one token, the claim hands it to a tick, and the call   *)
(* to reside spends it.  A reply mints another; so does a merge or a       *)
(* split, whose token lies with its recompute until it writes the clock.   *)
Announcing(c) == {t \in Slot : step[t, c] = "claimed"}

Unannounced(c) == IF c \in notified THEN 0 ELSE 1

Recomputing(c) == IF recompute[c] = "idle" THEN 0 ELSE 1

Owed(c) ==
  told[c] + Cardinality(Announcing(c)) + Unannounced(c) + Recomputing(c)
    <= 1 + replies[c] + restructures[c]

NoticeIsOwed == \A c \in Conversation : Owed(c)

(* A conversation that was never restructured is never recomputed.         *)
Triggered(c) ==
  restructures[c] = 0 => recompute[c] = "idle" /\ (due[c] # "off" <=> last[c] = "inbound")

TriggerKeepsClock == \A c \in Conversation : Triggered(c)

ClockInv == TypeOK /\ NoticeIsOwed /\ TriggerKeepsClock

-----------------------------------------------------------------------------
(* What a tick does next.                                                  *)
Only(t, c, s) ==
  \A u \in Slot, d \in Conversation : step'[u, d] = IF u = t /\ d = c THEN s ELSE step[u, d]

LEMMA StepGoes ==
  ASSUME TypeOK, NEW t \in Slot, NEW c \in Conversation, NEW s \in {"idle", "listed", "claimed"},
         step' = [step EXCEPT ![<<t, c>>] = s]
  PROVE  step' \in [Task -> {"idle", "listed", "claimed"}] /\ Only(t, c, s)
<1>1. step \in [Task -> {"idle", "listed", "claimed"}]
  BY DEF TypeOK
<1>2. \A u \in Slot, d \in Conversation : <<u, d>> \in Task
  BY DEF Task
<1> QED BY <1>1, <1>2 DEF Only

(* A listing claims nothing.                                               *)
LEMMA StepListed ==
  ASSUME TypeOK, NEW t \in Slot, List(t)
  PROVE  /\ step' \in [Task -> {"idle", "listed", "claimed"}]
         /\ \A u \in Slot, d \in Conversation : step'[u, d] = "claimed" => step[u, d] = "claimed"
<1>1. step \in [Task -> {"idle", "listed", "claimed"}]
  BY DEF TypeOK
<1>2. PICK S \in Batches({c \in Conversation : Overdue(c)}) :
        step' = [s \in Task |-> IF s[1] = t /\ s[2] \in S THEN "listed" ELSE step[s]]
  BY DEF List
<1>3. \A u \in Slot, d \in Conversation : <<u, d>> \in Task
  BY DEF Task
<1>4. step' \in [Task -> {"idle", "listed", "claimed"}]
  BY <1>1, <1>2
<1>5. \A u \in Slot, d \in Conversation :
        step'[u, d] = IF u = t /\ d \in S THEN "listed" ELSE step[u, d]
  BY <1>2, <1>3
<1> QED BY <1>4, <1>5

LEMMA OneMore ==
  ASSUME NEW S, NEW f \in [S -> Nat], NEW c \in S, NEW g, g = [f EXCEPT ![c] = f[c] + 1]
  PROVE  g \in [S -> Nat] /\ g[c] = f[c] + 1 /\ \A d \in S : d # c => g[d] = f[d]
<1>1. f[c] + 1 \in Nat
  OBVIOUS
<1> QED BY <1>1

-----------------------------------------------------------------------------
(* Types.                                                                  *)
LEMMA TypesKept ==
  ASSUME TypeOK, [Next]_vars
  PROVE  TypeOK'
<1>0. /\ last \in [Conversation -> {"none", "inbound", "outbound"}]
      /\ due \in [Conversation -> {"off", "running", "elapsed"}]
      /\ recompute \in [Conversation -> {"idle", "latest", "clear", "streak", "start"}]
      /\ told \in [Conversation -> Nat] /\ replies \in [Conversation -> Nat]
      /\ restructures \in [Conversation -> Nat]
  BY DEF TypeOK
<1>1. ASSUME NEW c \in Conversation, Inbound(c)
      PROVE  TypeOK'
  <2>1. last' \in [Conversation -> {"none", "inbound", "outbound"}]
    BY <1>0, <1>1 DEF Inbound
  <2>2. due' \in [Conversation -> {"off", "running", "elapsed"}]
    BY <1>0, <1>1 DEF Inbound, StartsIfOff
  <2> QED BY <1>1, <2>1, <2>2 DEF TypeOK, Inbound, countVars
<1>2. ASSUME NEW c \in Conversation, Outbound(c)
      PROVE  TypeOK'
  <2>1. last' \in [Conversation -> {"none", "inbound", "outbound"}]
    BY <1>0, <1>2 DEF Outbound
  <2>2. due' \in [Conversation -> {"off", "running", "elapsed"}] /\ notified' \in SUBSET Conversation
    BY <1>0, <1>2 DEF TypeOK, Outbound, Stopped
  <2>3. replies' \in [Conversation -> Nat]
    BY <1>0, <1>2, OneMore DEF Outbound
  <2> QED BY <1>2, <2>1, <2>2, <2>3 DEF TypeOK, Outbound, historyVars
<1>3. ASSUME NEW c \in Conversation, Elapse(c)
      PROVE  TypeOK'
  BY <1>0, <1>3 DEF TypeOK, Elapse, historyVars, countVars
<1>4. ASSUME NEW c \in Conversation, Restructure(c)
      PROVE  TypeOK'
  <2>1. last' \in [Conversation -> {"none", "inbound", "outbound"}]
    BY <1>0, <1>4 DEF Restructure
  <2>2. recompute' \in [Conversation -> {"idle", "latest", "clear", "streak", "start"}]
    BY <1>0, <1>4 DEF Restructure
  <2>3. restructures' \in [Conversation -> Nat]
    BY <1>0, <1>4, OneMore DEF Restructure
  <2> QED BY <1>4, <2>1, <2>2, <2>3 DEF TypeOK, Restructure, clockVars, historyVars
<1>5. ASSUME NEW c \in Conversation, Recompute(c)
      PROVE  TypeOK'
  <2>1. recompute' \in [Conversation -> {"idle", "latest", "clear", "streak", "start"}]
    BY <1>0, <1>5 DEF Recompute, ReadLatest, ReadStreak, WriteClock
  <2>2. due' \in [Conversation -> {"off", "running", "elapsed"}]
    BY <1>0, <1>5 DEF Recompute, ReadLatest, ReadStreak, WriteClock, clockVars
  <2>3. notified' \in SUBSET Conversation /\ toldNow' \in SUBSET Conversation
    BY <1>5 DEF TypeOK, Recompute, ReadLatest, ReadStreak, WriteClock, clockVars, historyVars
  <2>4. UNCHANGED <<last, step, told, replies, restructures, faults>>
    BY <1>5 DEF Recompute, ReadLatest, ReadStreak, WriteClock, historyVars, countVars
  <2> QED BY <2>1, <2>2, <2>3, <2>4 DEF TypeOK
<1>6. ASSUME NEW t \in Slot, List(t)
      PROVE  TypeOK'
  <2>1. step' \in [Task -> {"idle", "listed", "claimed"}]
    BY <1>6, StepListed
  <2> QED BY <1>6, <2>1 DEF TypeOK, List, clockVars, historyVars, countVars
<1>7. ASSUME NEW t \in Slot, NEW c \in Conversation, Claim(t, c) \/ Tell(t, c) \/ Skip(t, c)
      PROVE  TypeOK'
  <2>1. step' \in [Task -> {"idle", "listed", "claimed"}]
    <3>1. \E s \in {"idle", "listed", "claimed"} : step' = [step EXCEPT ![<<t, c>>] = s]
      BY <1>7 DEF Claim, Tell, Skip
    <3> QED BY <3>1, StepGoes
  <2>2. told' \in [Conversation -> Nat]
    <3>1. UNCHANGED told \/ told' = [told EXCEPT ![c] = told[c] + 1]
      BY <1>7 DEF Claim, Tell, Skip, historyVars
    <3> QED BY <1>0, <3>1, OneMore
  <2>3. notified' \in SUBSET Conversation /\ toldNow' \in SUBSET Conversation
    BY <1>7 DEF TypeOK, Claim, Tell, Skip, clockVars, historyVars
  <2>4. faults' \in 0..MaxFaults
    <3>1. UNCHANGED faults \/ (faults < MaxFaults /\ faults' = faults + 1)
      BY <1>7 DEF Claim, Tell, Skip, Fault
    <3>2. faults \in 0..MaxFaults
      BY DEF TypeOK
    <3> QED BY <3>1, <3>2, BoundsAssumption
  <2>5. UNCHANGED <<last, due, recompute, replies, restructures>>
    BY <1>7 DEF Claim, Tell, Skip, clockVars, countVars
  <2> QED BY <2>1, <2>2, <2>3, <2>4, <2>5 DEF TypeOK
<1>8. ASSUME UNCHANGED vars
      PROVE  TypeOK'
  BY <1>8 DEF TypeOK, vars, clockVars, historyVars, countVars
<1> QED BY <1>1, <1>2, <1>3, <1>4, <1>5, <1>6, <1>7, <1>8 DEF Next

-----------------------------------------------------------------------------
(* The tokens of one conversation.                                         *)
LEMMA AnnouncingCounts ==
  ASSUME NEW c \in Conversation
  PROVE  /\ IsFiniteSet(Announcing(c)) /\ Cardinality(Announcing(c)) \in Nat
         /\ IsFiniteSet(Announcing(c)') /\ Cardinality(Announcing(c)') \in Nat
<1>1. Announcing(c) \subseteq Slot /\ Announcing(c)' \subseteq Slot
  BY DEF Announcing
<1>2. IsFiniteSet(Announcing(c)) /\ IsFiniteSet(Announcing(c)')
  BY <1>1, SetsAssumption, FS_Subset
<1> QED BY <1>2, FS_CardinalityType

LEMMA Numbers ==
  ASSUME TypeOK, NEW c \in Conversation
  PROVE  /\ told[c] \in Nat /\ replies[c] \in Nat /\ restructures[c] \in Nat
         /\ Unannounced(c) \in {0, 1} /\ Unannounced(c)' \in {0, 1}
         /\ Recomputing(c) \in {0, 1} /\ Recomputing(c)' \in {0, 1}
BY DEF TypeOK, Unannounced, Recomputing

(* Nobody sets out to announce the conversation and no token is minted.    *)
LEMMA OwedNoMore ==
  ASSUME TypeOK, NEW c \in Conversation, Owed(c), Announcing(c)' \subseteq Announcing(c),
         told'[c] = told[c], replies'[c] = replies[c], restructures'[c] = restructures[c],
         Unannounced(c)' + Recomputing(c)' <= Unannounced(c) + Recomputing(c)
  PROVE  Owed(c)'
<1>1. Cardinality(Announcing(c)') <= Cardinality(Announcing(c))
  BY AnnouncingCounts, FS_Subset
<1> QED BY <1>1, Numbers, AnnouncingCounts DEF Owed

LEMMA OwedKept ==
  ASSUME TypeOK, NoticeIsOwed, [Next]_vars
  PROVE  NoticeIsOwed'
<1>0. /\ step \in [Task -> {"idle", "listed", "claimed"}] /\ notified \subseteq Conversation
      /\ recompute \in [Conversation -> {"idle", "latest", "clear", "streak", "start"}]
      /\ told \in [Conversation -> Nat] /\ replies \in [Conversation -> Nat]
      /\ restructures \in [Conversation -> Nat]
  BY DEF TypeOK
<1> SUFFICES ASSUME NEW c \in Conversation PROVE Owed(c)'
  BY DEF NoticeIsOwed
<1>1. Owed(c)
  BY DEF NoticeIsOwed
<1>2. ASSUME UNCHANGED <<step, told, replies, restructures, notified, recompute>>
      PROVE  Owed(c)'
  <2>1. /\ Announcing(c)' = Announcing(c)
        /\ Unannounced(c)' = Unannounced(c) /\ Recomputing(c)' = Recomputing(c)
    BY <1>2 DEF Announcing, Unannounced, Recomputing
  <2> QED BY <1>1, <1>2, <2>1, OwedNoMore, Numbers
<1>3. ASSUME NEW d \in Conversation, Inbound(d) \/ Elapse(d)
      PROVE  Owed(c)'
  BY <1>2, <1>3 DEF Inbound, Elapse, historyVars, countVars
<1>4. ASSUME NEW d \in Conversation, Outbound(d)
      PROVE  Owed(c)'
  <2>1. UNCHANGED <<step, told, restructures, recompute>>
    BY <1>4 DEF Outbound, historyVars
  <2>2. Announcing(c)' = Announcing(c) /\ Recomputing(c)' = Recomputing(c)
    BY <2>1 DEF Announcing, Recomputing
  <2>3. CASE d = c
    <3>1. replies'[c] = replies[c] + 1
      BY <1>0, <1>4, <2>3 DEF Outbound
    <3> QED BY <1>1, <2>1, <2>2, <3>1, Numbers, AnnouncingCounts DEF Owed
  <2>4. CASE d # c
    <3>1. replies'[c] = replies[c]
      BY <1>0, <1>4, <2>4 DEF Outbound
    <3>2. Unannounced(c)' = Unannounced(c)
      BY <1>4, <2>4 DEF Outbound, Stopped, Unannounced
    <3> QED BY <1>1, <2>1, <2>2, <3>1, <3>2, OwedNoMore, Numbers
  <2> QED BY <2>3, <2>4
<1>5. ASSUME NEW d \in Conversation, Restructure(d)
      PROVE  Owed(c)'
  <2>1. UNCHANGED <<step, told, replies, notified>>
    BY <1>5 DEF Restructure, historyVars, clockVars
  <2>2. Announcing(c)' = Announcing(c) /\ Unannounced(c)' = Unannounced(c)
    BY <2>1 DEF Announcing, Unannounced
  <2>3. CASE d = c
    <3>1. restructures'[c] = restructures[c] + 1
      BY <1>0, <1>5, <2>3 DEF Restructure
    <3>2. Recomputing(c) = 0
      BY <1>5, <2>3 DEF Restructure, Recomputing
    <3> QED BY <1>1, <2>1, <2>2, <3>1, <3>2, Numbers, AnnouncingCounts DEF Owed
  <2>4. CASE d # c
    <3>1. restructures'[c] = restructures[c] /\ recompute'[c] = recompute[c]
      BY <1>0, <1>5, <2>4 DEF Restructure
    <3>2. Recomputing(c)' = Recomputing(c)
      BY <3>1 DEF Recomputing
    <3> QED BY <1>1, <2>1, <2>2, <3>1, <3>2, OwedNoMore, Numbers
  <2> QED BY <2>3, <2>4
<1>6. ASSUME NEW d \in Conversation, Recompute(d)
      PROVE  Owed(c)'
  <2>1. UNCHANGED <<step, told, replies, restructures>>
    BY <1>6 DEF Recompute, ReadLatest, ReadStreak, WriteClock, historyVars, countVars
  <2>2. Announcing(c)' = Announcing(c)
    BY <2>1 DEF Announcing
  <2>3. CASE d # c
    <3>1. recompute'[c] = recompute[c]
      BY <1>0, <1>6, <2>3 DEF Recompute, ReadLatest, ReadStreak, WriteClock
    <3>2. c \in notified' <=> c \in notified
      BY <1>6, <2>3 DEF Recompute, ReadLatest, ReadStreak, WriteClock, clockVars
    <3>3. Recomputing(c)' = Recomputing(c) /\ Unannounced(c)' = Unannounced(c)
      BY <3>1, <3>2 DEF Recomputing, Unannounced
    <3> QED BY <1>1, <2>1, <2>2, <3>3, OwedNoMore, Numbers
  <2>4. CASE d = c
    <3>1. recompute[c] # "idle"
      BY <1>6, <2>4 DEF Recompute, ReadLatest, ReadStreak, WriteClock
    <3>2. Recomputing(c) = 1
      BY <3>1 DEF Recomputing
    <3>3. Unannounced(c)' = Unannounced(c) \/ Recomputing(c)' = 0
      <4>1. UNCHANGED notified \/ recompute' = [recompute EXCEPT ![c] = "idle"]
        BY <1>6, <2>4 DEF Recompute, ReadLatest, ReadStreak, WriteClock, clockVars
      <4> QED BY <1>0, <4>1 DEF Unannounced, Recomputing
    <3> QED BY <1>1, <2>1, <2>2, <3>2, <3>3, OwedNoMore, Numbers
  <2> QED BY <2>3, <2>4
<1>7. ASSUME NEW t \in Slot, List(t)
      PROVE  Owed(c)'
  <2>1. Announcing(c)' \subseteq Announcing(c)
    BY <1>7, StepListed DEF Announcing
  <2>2. UNCHANGED <<told, replies, restructures, notified, recompute>>
    BY <1>7 DEF List, clockVars, historyVars, countVars
  <2>3. Recomputing(c)' = Recomputing(c) /\ Unannounced(c)' = Unannounced(c)
    BY <2>2 DEF Recomputing, Unannounced
  <2> QED BY <1>1, <2>1, <2>2, <2>3, OwedNoMore, Numbers
<1>8. ASSUME NEW t \in Slot, NEW d \in Conversation, Claim(t, d) \/ Tell(t, d) \/ Skip(t, d), d # c
      PROVE  Owed(c)'
  <2>1. PICK s \in {"idle", "listed", "claimed"} : step' = [step EXCEPT ![<<t, d>>] = s]
    BY <1>8 DEF Claim, Tell, Skip
  <2>2. Only(t, d, s)
    BY <2>1, StepGoes
  <2>3. Announcing(c)' = Announcing(c)
    BY <1>8, <2>2 DEF Only, Announcing
  <2>4. UNCHANGED <<replies, restructures, recompute>>
    BY <1>8 DEF Claim, Tell, Skip, countVars
  <2>5. told'[c] = told[c]
    BY <1>0, <1>8 DEF Claim, Tell, Skip, historyVars
  <2>6. c \in notified' <=> c \in notified
    BY <1>8 DEF Claim, Tell, Skip, clockVars
  <2>7. Recomputing(c)' = Recomputing(c) /\ Unannounced(c)' = Unannounced(c)
    BY <2>4, <2>6 DEF Recomputing, Unannounced
  <2> QED BY <1>1, <2>3, <2>4, <2>5, <2>7, OwedNoMore, Numbers
<1>9. ASSUME NEW t \in Slot, Claim(t, c)
      PROVE  Owed(c)'
  <2>1. UNCHANGED <<told, replies, restructures, recompute>>
    BY <1>9 DEF Claim, historyVars, countVars
  <2>2. Recomputing(c)' = Recomputing(c)
    BY <2>1 DEF Recomputing
  <2>3. CASE c \in notified
    <3>1. step' = [step EXCEPT ![<<t, c>>] = "idle"] /\ UNCHANGED notified
      BY <1>9, <2>3 DEF Claim, Claimable
    <3>2. Only(t, c, "idle")
      BY <3>1, StepGoes
    <3>3. Announcing(c)' \subseteq Announcing(c)
      BY <3>2 DEF Only, Announcing
    <3>4. Unannounced(c)' = Unannounced(c)
      BY <3>1 DEF Unannounced
    <3> QED BY <1>1, <2>1, <2>2, <3>3, <3>4, OwedNoMore, Numbers
  <2>4. CASE c \notin notified
    <3>1. step' = [step EXCEPT ![<<t, c>>] = "claimed"] /\ c \in notified'
      BY <1>9, <2>4 DEF Claim, Claimable
    <3>2. Only(t, c, "claimed")
      BY <3>1, StepGoes
    <3>3. Announcing(c)' = Announcing(c) \cup {t}
      BY <3>2 DEF Only, Announcing
    <3>4. Unannounced(c) = 1 /\ Unannounced(c)' = 0
      BY <2>4, <3>1 DEF Unannounced
    <3>5. Cardinality(Announcing(c)') <= Cardinality(Announcing(c)) + 1
      <4>1. Cardinality(Announcing(c) \cup {t})
              = IF t \in Announcing(c) THEN Cardinality(Announcing(c)) ELSE Cardinality(Announcing(c)) + 1
        BY AnnouncingCounts, FS_AddElement
      <4> QED BY <3>3, <4>1, AnnouncingCounts
    <3> QED BY <1>1, <2>1, <2>2, <3>4, <3>5, Numbers, AnnouncingCounts DEF Owed
  <2> QED BY <2>3, <2>4
<1>10. ASSUME NEW t \in Slot, Tell(t, c)
       PROVE  Owed(c)'
  <2>1. UNCHANGED <<notified, replies, restructures, recompute>>
    BY <1>10 DEF Tell, clockVars, countVars
  <2>2. Recomputing(c)' = Recomputing(c) /\ Unannounced(c)' = Unannounced(c)
    BY <2>1 DEF Recomputing, Unannounced
  <2>3. Only(t, c, "idle")
    BY <1>10, StepGoes DEF Tell
  <2>4. t \in Announcing(c)
    BY <1>10 DEF Tell, Announcing
  <2>5. Announcing(c)' = Announcing(c) \ {t}
    BY <2>3 DEF Only, Announcing
  <2>6. Cardinality(Announcing(c)') = Cardinality(Announcing(c)) - 1
    BY <2>4, <2>5, AnnouncingCounts, FS_RemoveElement
  <2>7. told'[c] = told[c] + 1
    BY <1>0, <1>10 DEF Tell
  <2> QED BY <1>1, <2>1, <2>2, <2>6, <2>7, Numbers, AnnouncingCounts DEF Owed
<1>11. ASSUME NEW t \in Slot, Skip(t, c)
       PROVE  Owed(c)'
  <2>1. UNCHANGED <<told, notified, replies, restructures, recompute>>
    BY <1>11 DEF Skip, clockVars, historyVars, countVars
  <2>2. Recomputing(c)' = Recomputing(c) /\ Unannounced(c)' = Unannounced(c)
    BY <2>1 DEF Recomputing, Unannounced
  <2>3. Only(t, c, "idle")
    BY <1>11, StepGoes DEF Skip
  <2>4. Announcing(c)' \subseteq Announcing(c)
    BY <2>3 DEF Only, Announcing
  <2> QED BY <1>1, <2>1, <2>2, <2>4, OwedNoMore, Numbers
<1>12. ASSUME UNCHANGED vars
       PROVE  Owed(c)'
  BY <1>2, <1>12 DEF vars, clockVars, historyVars, countVars
<1> QED BY <1>3, <1>4, <1>5, <1>6, <1>7, <1>8, <1>9, <1>10, <1>11, <1>12 DEF Next

-----------------------------------------------------------------------------
(* The trigger and the clock.                                              *)
LEMMA TriggerKept ==
  ASSUME TypeOK, TriggerKeepsClock, [Next]_vars
  PROVE  TriggerKeepsClock'
<1>0. /\ last \in [Conversation -> {"none", "inbound", "outbound"}]
      /\ due \in [Conversation -> {"off", "running", "elapsed"}]
      /\ recompute \in [Conversation -> {"idle", "latest", "clear", "streak", "start"}]
      /\ restructures \in [Conversation -> Nat]
  BY DEF TypeOK
<1> SUFFICES ASSUME NEW c \in Conversation, restructures'[c] = 0
             PROVE  recompute'[c] = "idle" /\ (due'[c] # "off" <=> last'[c] = "inbound")
  BY DEF TriggerKeepsClock, Triggered
<1>1. restructures[c] = 0
  <2>1. UNCHANGED restructures \/ \E d \in Conversation : Restructure(d)
    BY DEF Next, vars, countVars, Inbound, Outbound, Elapse, Recompute, ReadLatest, ReadStreak,
           WriteClock, List, Claim, Tell, Skip
  <2>2. ASSUME NEW d \in Conversation, Restructure(d)
        PROVE  restructures[c] = 0
    <3>1. restructures' = [restructures EXCEPT ![d] = restructures[d] + 1] /\ restructures[d] + 1 # 0
      BY <1>0, <2>2 DEF Restructure
    <3> QED BY <1>0, <3>1
  <2> QED BY <2>1, <2>2
<1>2. recompute[c] = "idle" /\ (due[c] # "off" <=> last[c] = "inbound")
  BY <1>1 DEF TriggerKeepsClock, Triggered
<1>3. ASSUME NEW d \in Conversation, Inbound(d) \/ Outbound(d)
      PROVE  recompute'[c] = "idle" /\ (due'[c] # "off" <=> last'[c] = "inbound")
  <2>1. UNCHANGED recompute
    BY <1>3 DEF Inbound, Outbound
  <2>2. due'[c] # "off" <=> last'[c] = "inbound"
    BY <1>0, <1>2, <1>3 DEF Inbound, StartsIfOff, Outbound, Stopped
  <2> QED BY <1>2, <2>1, <2>2
<1>4. ASSUME NEW d \in Conversation, Elapse(d)
      PROVE  recompute'[c] = "idle" /\ (due'[c] # "off" <=> last'[c] = "inbound")
  BY <1>0, <1>2, <1>4 DEF Elapse
<1>5. ASSUME NEW d \in Conversation, Restructure(d)
      PROVE  recompute'[c] = "idle" /\ (due'[c] # "off" <=> last'[c] = "inbound")
  <2>1. d # c
    <3>1. d = c => restructures'[c] = restructures[c] + 1
      BY <1>0, <1>5 DEF Restructure
    <3> QED BY <1>1, <3>1
  <2> QED BY <1>0, <1>2, <1>5, <2>1 DEF Restructure, clockVars
<1>6. ASSUME NEW d \in Conversation, Recompute(d)
      PROVE  recompute'[c] = "idle" /\ (due'[c] # "off" <=> last'[c] = "inbound")
  <2>1. d # c
    BY <1>2, <1>6 DEF Recompute, ReadLatest, ReadStreak, WriteClock
  <2>2. recompute'[c] = recompute[c] /\ due'[c] = due[c] /\ last' = last
    BY <1>0, <1>6, <2>1 DEF Recompute, ReadLatest, ReadStreak, WriteClock, clockVars
  <2> QED BY <1>2, <2>2
<1>7. ASSUME UNCHANGED <<recompute, due, last>>
      PROVE  recompute'[c] = "idle" /\ (due'[c] # "off" <=> last'[c] = "inbound")
  BY <1>2, <1>7
<1>8. CASE (\E t \in Slot : List(t))
           \/ (\E t \in Slot, d \in Conversation : Claim(t, d) \/ Tell(t, d) \/ Skip(t, d))
           \/ UNCHANGED vars
  <2>1. UNCHANGED <<recompute, due, last>>
    BY <1>8 DEF List, Claim, Tell, Skip, vars, clockVars
  <2> QED BY <1>7, <2>1
<1> QED BY <1>3, <1>4, <1>5, <1>6, <1>8 DEF Next

-----------------------------------------------------------------------------
LEMMA ClockInitially ==
  ASSUME Init
  PROVE  ClockInv
<1>1. TypeOK
  BY BoundsAssumption DEF Init, TypeOK
<1>2. ASSUME NEW c \in Conversation
      PROVE  Owed(c)
  <2>1. Announcing(c) = {}
    BY DEF Init, Announcing, Task
  <2>2. Cardinality(Announcing(c)) = 0
    BY <2>1, FS_EmptySet
  <2>3. told[c] = 0 /\ replies[c] = 0 /\ restructures[c] = 0 /\ Unannounced(c) = 1 /\ Recomputing(c) = 0
    BY DEF Init, Unannounced, Recomputing
  <2> QED BY <2>2, <2>3 DEF Owed
<1>3. TriggerKeepsClock
  BY DEF Init, TriggerKeepsClock, Triggered
<1> QED BY <1>1, <1>2, <1>3 DEF ClockInv, NoticeIsOwed

(* The inductive invariant, the types included, holds throughout.          *)
THEOREM ClockInductive == SafeSpec => []ClockInv
<1>1. ASSUME ClockInv, [Next]_vars
      PROVE  ClockInv'
  BY <1>1, TypesKept, OwedKept, TriggerKept DEF ClockInv
<1> QED BY <1>1, ClockInitially, PTL DEF SafeSpec

(* Reside hears of one episode once, however many ticks overlap, throw or  *)
(* die: every further notice has a reply or a restructuring behind it.     *)
THEOREM NoticedOnce == SafeSpec => []NoticedOncePerEpisode
<1>1. ASSUME ClockInv
      PROVE  NoticedOncePerEpisode
  <2> SUFFICES ASSUME NEW c \in Conversation PROVE told[c] <= 1 + replies[c] + restructures[c]
    BY DEF NoticedOncePerEpisode
  <2>1. Owed(c) /\ TypeOK
    BY <1>1 DEF ClockInv, NoticeIsOwed
  <2> QED BY <2>1, Numbers, AnnouncingCounts DEF Owed
<1> QED BY <1>1, ClockInductive, PTL

(* Until its first merge or split, a conversation's clock runs exactly     *)
(* while the resident waits for an answer, whatever the worker does.       *)
THEOREM ClockIsTrue == SafeSpec => []ClockAgrees
<1>1. ASSUME ClockInv
      PROVE  ClockAgrees
  BY <1>1 DEF ClockInv, TriggerKeepsClock, Triggered, ClockAgrees
<1> QED BY <1>1, ClockInductive, PTL

-----------------------------------------------------------------------------
(* DeliveryOutcome, for any set of webhook calls, any threshold and any    *)
(* number of calls and faults.                                             *)

(* A failure that has been read is still to be recorded, and each call     *)
(* records at most one: the counters stay within the calls made.           *)
Failing == {w \in Call : serving[w] = "failure"}

Counted == IsFiniteSet(Failing) /\ hard + Cardinality(Failing) <= calls

(* Nothing the row or a call holds exceeds the failures recorded.          *)
NeverInvented ==
  /\ failures <= hard
  /\ \A w \in Call : readCount[w] <= hard

(* While no two calls have been served at once, one call at most is being  *)
(* served, what it read is what the row says,                              *)
OneAtATime ==
  \A v, w \in Call : serving[v] # "idle" /\ serving[w] # "idle" => v = w

ReadsAreFresh ==
  \A w \in Call : serving[w] \in Outcomes => readCount[w] = failures /\ readFlag[w] = flagged

(* the flag is the threshold crossed, and reside has been told of this     *)
(* streak only if the flag is set, and not yet when the notice is pending. *)
FlagIsStreak ==
  /\ flagged <=> failures >= Threshold
  /\ toldInStreak => flagged
  /\ ~toldTwice
  /\ \A w \in Call : serving[w] = "notify" =>
       (message[w] = "undeliverable" <=> flagged) /\ ~toldInStreak

(* Without a fault, reside is behind the row only by the pending notice.   *)
ToldUnlessPending ==
  callFaults = 0 /\ (\A w \in Call : serving[w] # "notify") => (lastTold = "undeliverable" <=> flagged)

Served == OneAtATime /\ ReadsAreFresh /\ FlagIsStreak /\ ToldUnlessPending

OutcomeInv ==
  /\ DeliveryTypeOK /\ Counted /\ NeverInvented /\ NeverFlaggedEarly
  /\ ~overlapped => Served

-----------------------------------------------------------------------------
(* Who is about to record a failure, as one call moves.                    *)
LEMMA FailingMoves ==
  ASSUME DeliveryTypeOK, NEW w \in Call, NEW s \in {"idle", "failure", "success", "notify"},
         serving' = [serving EXCEPT ![w] = s], IsFiniteSet(Failing)
  PROVE  /\ IsFiniteSet(Failing')
         /\ s = "failure" => Cardinality(Failing') <= Cardinality(Failing) + 1
         /\ s # "failure" => Cardinality(Failing') <= Cardinality(Failing)
         /\ s # "failure" /\ serving[w] = "failure" => Cardinality(Failing') + 1 = Cardinality(Failing)
         /\ Cardinality(Failing) \in Nat /\ Cardinality(Failing') \in Nat
<1>1. Cardinality(Failing) \in Nat
  BY FS_CardinalityType
<1>2. serving \in [Call -> {"idle", "failure", "success", "notify"}]
  BY DEF DeliveryTypeOK
<1>3. CASE s = "failure"
  <2>1. Failing' = Failing \cup {w}
    BY <1>2, <1>3 DEF Failing
  <2> QED BY <1>1, <1>3, <2>1, FS_AddElement
<1>4. CASE s # "failure"
  <2>1. Failing' = Failing \ {w}
    BY <1>2, <1>4 DEF Failing
  <2>2. serving[w] = "failure" => w \in Failing
    BY DEF Failing
  <2>3. /\ IsFiniteSet(Failing')
        /\ Cardinality(Failing') = IF w \in Failing THEN Cardinality(Failing) - 1 ELSE Cardinality(Failing)
    BY <2>1, FS_RemoveElement
  <2>4. Cardinality(Failing') \in Nat
    BY <2>3, FS_CardinalityType
  <2>5. CASE w \in Failing
    <3>1. Cardinality(Failing') = Cardinality(Failing) - 1
      BY <2>3, <2>5
    <3> QED BY <1>1, <1>4, <2>3, <2>4, <3>1
  <2>6. CASE w \notin Failing
    <3>1. Cardinality(Failing') = Cardinality(Failing)
      BY <2>3, <2>6
    <3> QED BY <1>1, <1>4, <2>2, <2>3, <2>4, <2>6, <3>1
  <2> QED BY <2>5, <2>6
<1> QED BY <1>3, <1>4

(* A channel can be counted no further than calls are made.                *)
LEMMA CountersFit ==
  ASSUME DeliveryTypeOK, Counted, NeverInvented, NEW w \in Call, serving[w] = "failure"
  PROVE  hard + 1 <= MaxCalls /\ readCount[w] + 1 \in 0..MaxCalls
<1>1. Cardinality(Failing) \in Nat /\ Failing # {}
  BY FS_CardinalityType DEF Counted, Failing
<1>2. Cardinality(Failing) # 0
  BY <1>1, FS_EmptySet DEF Counted
<1>3. /\ hard \in Nat /\ calls \in 0..MaxCalls
      /\ readCount[w] \in Nat /\ readCount[w] <= hard /\ hard + Cardinality(Failing) <= calls
  BY DeliveryBounds DEF DeliveryTypeOK, NeverInvented, Counted
<1> QED BY <1>1, <1>2, <1>3, DeliveryBounds

-----------------------------------------------------------------------------
(* The part that needs no history: types, counters, and no flag too early. *)
Always == DeliveryTypeOK /\ Counted /\ NeverInvented /\ NeverFlaggedEarly

LEMMA AlwaysKept ==
  ASSUME Always, [DeliveryNext]_deliveryVars
  PROVE  Always'
<1> USE DeliveryBounds DEF Always
<1>1. ASSUME NEW w \in Call, Read(w)
      PROVE  Always'
  <2>1. PICK k \in Outcomes : serving' = [serving EXCEPT ![w] = k]
    BY <1>1 DEF Read
  <2>2. DeliveryTypeOK'
    <3>1. serving' \in [Call -> {"idle", "failure", "success", "notify"}]
      BY <2>1 DEF DeliveryTypeOK, Outcomes
    <3>2. readCount' \in [Call -> 0..MaxCalls] /\ readFlag' \in [Call -> BOOLEAN]
      BY <1>1 DEF DeliveryTypeOK, Read
    <3>3. overlapped' \in BOOLEAN /\ calls' \in 0..MaxCalls
      BY <1>1 DEF DeliveryTypeOK, Read
    <3> QED BY <1>1, <3>1, <3>2, <3>3 DEF DeliveryTypeOK, Read, rowVars, toldVars
  <2>3. Counted'
    <3>1. hard \in Nat /\ calls \in Nat /\ hard' = hard /\ calls' = calls + 1
      BY <1>1 DEF DeliveryTypeOK, Read
    <3>2. k \in {"failure", "success"} /\ IsFiniteSet(Failing) /\ hard + Cardinality(Failing) <= calls
      BY DEF Counted, Outcomes
    <3>3. /\ IsFiniteSet(Failing') /\ Cardinality(Failing') <= Cardinality(Failing) + 1
          /\ Cardinality(Failing) \in Nat /\ Cardinality(Failing') \in Nat
      <4>1. k \in {"idle", "failure", "success", "notify"}
        BY <3>2
      <4>2. /\ IsFiniteSet(Failing')
            /\ k = "failure" => Cardinality(Failing') <= Cardinality(Failing) + 1
            /\ k # "failure" => Cardinality(Failing') <= Cardinality(Failing)
            /\ Cardinality(Failing) \in Nat /\ Cardinality(Failing') \in Nat
        BY <2>1, <3>2, <4>1, FailingMoves
      <4> QED BY <4>2
    <3> QED BY <3>1, <3>2, <3>3 DEF Counted
  <2>4. NeverInvented' /\ NeverFlaggedEarly'
    BY <1>1 DEF DeliveryTypeOK, Read, rowVars, NeverInvented, NeverFlaggedEarly
  <2> QED BY <2>2, <2>3, <2>4
<1>2. ASSUME NEW w \in Call, WriteFailure(w)
      PROVE  Always'
  <2> DEFINE s == IF Crossed(w) THEN "notify" ELSE "idle"
  <2>1. serving[w] = "failure" /\ serving' = [serving EXCEPT ![w] = s]
    BY <1>2 DEF WriteFailure
  <2>2. hard + 1 <= MaxCalls /\ readCount[w] + 1 \in 0..MaxCalls
    BY <2>1, CountersFit
  <2>3. hard \in Nat /\ calls \in Nat /\ hard' = hard + 1 /\ calls' = calls
    BY <1>2 DEF DeliveryTypeOK, WriteFailure
  <2>4. DeliveryTypeOK'
    <3>1. serving' \in [Call -> {"idle", "failure", "success", "notify"}]
      BY <2>1 DEF DeliveryTypeOK
    <3>2. message' \in [Call -> {"deliverable", "undeliverable"}]
      BY <1>2 DEF DeliveryTypeOK, WriteFailure
    <3>3. failures' \in 0..MaxCalls /\ hard' \in 0..MaxCalls
      BY <1>2, <2>2, <2>3 DEF WriteFailure
    <3>4. flagged' \in BOOLEAN
      BY <1>2 DEF DeliveryTypeOK, WriteFailure
    <3> QED BY <1>2, <3>1, <3>2, <3>3, <3>4 DEF DeliveryTypeOK, WriteFailure, readVars, toldVars
  <2>5. Counted'
    <3>1. s \in {"idle", "notify"} /\ IsFiniteSet(Failing) /\ hard + Cardinality(Failing) <= calls
      BY DEF Counted
    <3>2. /\ IsFiniteSet(Failing') /\ Cardinality(Failing') + 1 = Cardinality(Failing)
          /\ Cardinality(Failing') \in Nat
      BY <2>1, <3>1, FailingMoves
    <3> QED BY <2>3, <3>1, <3>2 DEF Counted
  <2>6. NeverInvented'
    BY <1>2, <2>3 DEF DeliveryTypeOK, WriteFailure, readVars, NeverInvented
  <2>7. NeverFlaggedEarly'
    <3>1. readCount[w] \in Nat /\ readCount[w] <= hard /\ Threshold \in Nat
      BY DEF DeliveryTypeOK, NeverInvented
    <3>2. CASE Crossed(w)
      BY <2>3, <3>1, <3>2 DEF Crossed, NeverFlaggedEarly
    <3>3. CASE ~Crossed(w)
      <4>1. flagged' = flagged
        BY <1>2, <3>3 DEF WriteFailure
      <4> QED BY <2>3, <3>1, <4>1 DEF NeverFlaggedEarly
    <3> QED BY <3>2, <3>3
  <2> QED BY <2>4, <2>5, <2>6, <2>7
<1>3. ASSUME NEW w \in Call, WriteSuccess(w)
      PROVE  Always'
  <2> DEFINE s == IF readFlag[w] THEN "notify" ELSE "idle"
  <2>1. serving' = [serving EXCEPT ![w] = s]
    BY <1>3 DEF WriteSuccess
  <2>2. hard \in Nat /\ calls \in Nat /\ hard' = hard /\ calls' = calls
    BY <1>3 DEF DeliveryTypeOK, WriteSuccess
  <2>3. DeliveryTypeOK'
    <3>1. serving' \in [Call -> {"idle", "failure", "success", "notify"}]
      BY <2>1 DEF DeliveryTypeOK
    <3>2. message' \in [Call -> {"deliverable", "undeliverable"}]
      BY <1>3 DEF DeliveryTypeOK, WriteSuccess
    <3>3. flagged' \in BOOLEAN /\ toldInStreak' \in BOOLEAN
      BY <1>3 DEF WriteSuccess, Reset
    <3>4. failures' \in 0..MaxCalls
      BY <1>3 DEF WriteSuccess, Reset
    <3> QED BY <1>3, <3>1, <3>2, <3>3, <3>4 DEF DeliveryTypeOK, WriteSuccess, readVars
  <2>4. Counted'
    <3>1. s \in {"idle", "notify"} /\ IsFiniteSet(Failing) /\ hard + Cardinality(Failing) <= calls
      BY DEF Counted
    <3>2. /\ IsFiniteSet(Failing') /\ Cardinality(Failing') <= Cardinality(Failing)
          /\ Cardinality(Failing) \in Nat /\ Cardinality(Failing') \in Nat
      BY <2>1, <3>1, FailingMoves
    <3> QED BY <2>2, <3>1, <3>2 DEF Counted
  <2>5. NeverInvented' /\ NeverFlaggedEarly'
    BY <1>3, <2>2 DEF DeliveryTypeOK, WriteSuccess, Reset, readVars, NeverInvented, NeverFlaggedEarly
  <2> QED BY <2>3, <2>4, <2>5
<1>4. ASSUME NEW w \in Call, Notify(w) \/ Abandon(w)
      PROVE  Always'
  <2>1. serving' = [serving EXCEPT ![w] = "idle"]
    BY <1>4 DEF Notify, Abandon
  <2>2. UNCHANGED <<rowVars, readVars, message, hard, overlapped, calls>>
    BY <1>4 DEF Notify, Abandon
  <2>3. hard \in Nat /\ calls \in Nat
    BY DEF DeliveryTypeOK
  <2>4. DeliveryTypeOK'
    <3>1. serving' \in [Call -> {"idle", "failure", "success", "notify"}]
      BY <2>1 DEF DeliveryTypeOK
    <3>2. lastTold' \in {"deliverable", "undeliverable"} /\ toldTwice' \in BOOLEAN /\ toldInStreak' \in BOOLEAN
      BY <1>4 DEF DeliveryTypeOK, Notify, Abandon, toldVars
    <3>3. callFaults' \in 0..MaxCallFaults
      BY <1>4 DEF DeliveryTypeOK, Notify, Abandon
    <3> QED BY <2>2, <3>1, <3>2, <3>3 DEF DeliveryTypeOK, rowVars, readVars
  <2>5. Counted'
    <3>1. IsFiniteSet(Failing) /\ hard + Cardinality(Failing) <= calls
      BY DEF Counted
    <3>2. /\ IsFiniteSet(Failing') /\ Cardinality(Failing') <= Cardinality(Failing)
          /\ Cardinality(Failing) \in Nat /\ Cardinality(Failing') \in Nat
      BY <2>1, <3>1, FailingMoves
    <3> QED BY <2>2, <2>3, <3>1, <3>2 DEF Counted
  <2>6. NeverInvented' /\ NeverFlaggedEarly'
    BY <2>2 DEF rowVars, readVars, NeverInvented, NeverFlaggedEarly
  <2> QED BY <2>4, <2>5, <2>6
<1>5. ASSUME UNCHANGED deliveryVars
      PROVE  Always'
  BY <1>5 DEF deliveryVars, rowVars, readVars, toldVars, DeliveryTypeOK, Counted, Failing, NeverInvented,
              NeverFlaggedEarly
<1> QED BY <1>1, <1>2, <1>3, <1>4, <1>5 DEF DeliveryNext

-----------------------------------------------------------------------------
(* The part for calls served one at a time.  A call that is being served   *)
(* is the only one, so that whatever it leaves on the row, no other has    *)
(* read before.                                                            *)
LEMMA OnlyOne ==
  ASSUME DeliveryTypeOK, OneAtATime, NEW w \in Call, serving[w] # "idle", NEW s,
         serving' = [serving EXCEPT ![w] = s]
  PROVE  /\ OneAtATime'
         /\ \A v \in Call : v # w => serving[v] = "idle" /\ serving'[v] = "idle"
         /\ serving'[w] = s
BY DEF DeliveryTypeOK, OneAtATime

LEMMA ServedKept ==
  ASSUME Always, ~overlapped => Served, [DeliveryNext]_deliveryVars, ~overlapped'
  PROVE  Served'
<1> USE DeliveryBounds
<1>0. DeliveryTypeOK
  BY DEF Always
<1>1. ASSUME NEW w \in Call, Read(w)
      PROVE  Served'
  <2>1. ~overlapped /\ \A v \in Call : serving[v] = "idle"
    BY <1>1 DEF Read
  <2>2. PICK k \in {"failure", "success"} : serving' = [serving EXCEPT ![w] = k]
    BY <1>1 DEF Read, Outcomes
  <2>3. serving'[w] = k /\ \A v \in Call : v # w => serving'[v] = "idle"
    BY <1>0, <2>1, <2>2 DEF DeliveryTypeOK
  <2>4. UNCHANGED <<failures, flagged, message, lastTold, toldTwice, toldInStreak, callFaults>>
    BY <1>1 DEF Read, rowVars, toldVars
  <2>5. readCount'[w] = failures /\ readFlag'[w] = flagged
    BY <1>0, <1>1 DEF Read, DeliveryTypeOK
  <2>6. OneAtATime' /\ ReadsAreFresh'
    BY <2>3, <2>4, <2>5 DEF OneAtATime, ReadsAreFresh, Outcomes
  <2>7. FlagIsStreak' /\ ToldUnlessPending'
    BY <2>1, <2>2, <2>3, <2>4 DEF Served, FlagIsStreak, ToldUnlessPending
  <2> QED BY <2>6, <2>7 DEF Served
<1>2. ASSUME NEW w \in Call, WriteFailure(w)
      PROVE  Served'
  <2>1. Served /\ serving[w] = "failure"
    BY <1>2 DEF WriteFailure
  <2>2. readCount[w] = failures /\ readFlag[w] = flagged /\ failures \in Nat
    BY <1>0, <2>1 DEF Served, ReadsAreFresh, Outcomes, DeliveryTypeOK
  <2>3. (flagged <=> failures >= Threshold) /\ (toldInStreak => flagged) /\ ~toldTwice
    BY <2>1 DEF Served, FlagIsStreak
  <2>4. UNCHANGED <<lastTold, toldTwice, toldInStreak, callFaults>> /\ failures' = failures + 1
    BY <1>2, <2>2 DEF WriteFailure, toldVars
  <2>5. callFaults = 0 => (lastTold = "undeliverable" <=> flagged)
    <3>1. \A v \in Call : serving[v] # "notify"
      BY <2>1 DEF Served, OneAtATime
    <3> QED BY <2>1, <3>1 DEF Served, ToldUnlessPending
  <2>6. CASE Crossed(w)
    <3>1. ~flagged /\ flagged' /\ failures' >= Threshold
      BY <1>2, <2>2, <2>4, <2>6 DEF WriteFailure, Crossed
    <3>2. serving' = [serving EXCEPT ![w] = "notify"] /\ message'[w] = "undeliverable"
      BY <1>0, <1>2, <2>6 DEF WriteFailure, DeliveryTypeOK
    <3>3. /\ OneAtATime' /\ serving'[w] = "notify"
          /\ \A v \in Call : v # w => serving'[v] = "idle"
      BY <1>0, <2>1, <3>2, OnlyOne DEF Served
    <3>4. ReadsAreFresh' /\ FlagIsStreak' /\ ToldUnlessPending'
      BY <2>3, <2>4, <3>1, <3>2, <3>3
         DEF ReadsAreFresh, Outcomes, FlagIsStreak, ToldUnlessPending
    <3> QED BY <3>3, <3>4 DEF Served
  <2>7. CASE ~Crossed(w)
    <3>1. flagged' = flagged
      BY <1>2, <2>7 DEF WriteFailure
    <3>2. flagged <=> failures' >= Threshold
      BY <2>2, <2>3, <2>4, <2>7 DEF Crossed
    <3>3. serving' = [serving EXCEPT ![w] = "idle"]
      BY <1>2, <2>7 DEF WriteFailure
    <3>4. OneAtATime' /\ \A v \in Call : serving'[v] = "idle"
      BY <1>0, <2>1, <3>3, OnlyOne DEF Served
    <3>5. ReadsAreFresh' /\ FlagIsStreak' /\ ToldUnlessPending'
      BY <2>3, <2>4, <2>5, <3>1, <3>2, <3>4
         DEF ReadsAreFresh, Outcomes, FlagIsStreak, ToldUnlessPending
    <3> QED BY <3>4, <3>5 DEF Served
  <2> QED BY <2>6, <2>7
<1>3. ASSUME NEW w \in Call, WriteSuccess(w)
      PROVE  Served'
  <2>1. Served /\ serving[w] = "success"
    BY <1>3 DEF WriteSuccess
  <2>2. readFlag[w] = flagged
    BY <2>1 DEF Served, ReadsAreFresh, Outcomes
  <2>3. ~toldInStreak' /\ failures' = 0 /\ ~flagged' /\ UNCHANGED <<lastTold, toldTwice, callFaults>>
    BY <1>3 DEF WriteSuccess, Reset
  <2>4. ~toldTwice
    BY <2>1 DEF Served, FlagIsStreak
  <2>5. callFaults = 0 => (lastTold = "undeliverable" <=> flagged)
    <3>1. \A v \in Call : serving[v] # "notify"
      BY <2>1 DEF Served, OneAtATime
    <3> QED BY <2>1, <3>1 DEF Served, ToldUnlessPending
  <2>6. CASE readFlag[w]
    <3>1. serving' = [serving EXCEPT ![w] = "notify"] /\ message'[w] = "deliverable"
      BY <1>0, <1>3, <2>6 DEF WriteSuccess, DeliveryTypeOK
    <3>2. /\ OneAtATime' /\ serving'[w] = "notify"
          /\ \A v \in Call : v # w => serving'[v] = "idle"
      BY <1>0, <2>1, <3>1, OnlyOne DEF Served
    <3>3. ReadsAreFresh' /\ FlagIsStreak' /\ ToldUnlessPending'
      BY <2>3, <2>4, <3>1, <3>2 DEF ReadsAreFresh, Outcomes, FlagIsStreak, ToldUnlessPending
    <3> QED BY <3>2, <3>3 DEF Served
  <2>7. CASE ~readFlag[w]
    <3>1. serving' = [serving EXCEPT ![w] = "idle"]
      BY <1>3, <2>7 DEF WriteSuccess
    <3>2. OneAtATime' /\ \A v \in Call : serving'[v] = "idle"
      BY <1>0, <2>1, <3>1, OnlyOne DEF Served
    <3>3. ReadsAreFresh' /\ FlagIsStreak' /\ ToldUnlessPending'
      BY <2>2, <2>3, <2>4, <2>5, <2>7, <3>2
         DEF ReadsAreFresh, Outcomes, FlagIsStreak, ToldUnlessPending
    <3> QED BY <3>2, <3>3 DEF Served
  <2> QED BY <2>6, <2>7
<1>4. ASSUME NEW w \in Call, Notify(w)
      PROVE  Served'
  <2>1. Served /\ serving[w] = "notify" /\ serving' = [serving EXCEPT ![w] = "idle"]
    BY <1>4 DEF Notify
  <2>2. OneAtATime' /\ \A v \in Call : serving'[v] = "idle"
    BY <1>0, <2>1, OnlyOne DEF Served
  <2>3. /\ flagged <=> failures >= Threshold
        /\ ~toldTwice /\ ~toldInStreak /\ (message[w] = "undeliverable" <=> flagged)
    BY <2>1 DEF Served, FlagIsStreak
  <2>4. /\ UNCHANGED <<failures, flagged>> /\ lastTold' = message[w]
        /\ ~toldTwice' /\ (toldInStreak' => message[w] = "undeliverable")
    BY <1>4, <2>3 DEF Notify, rowVars
  <2>5. ReadsAreFresh' /\ FlagIsStreak' /\ ToldUnlessPending'
    BY <2>2, <2>3, <2>4 DEF ReadsAreFresh, Outcomes, FlagIsStreak, ToldUnlessPending
  <2> QED BY <2>2, <2>5 DEF Served
<1>5. ASSUME NEW w \in Call, Abandon(w)
      PROVE  Served'
  <2>1. Served /\ serving[w] # "idle" /\ serving' = [serving EXCEPT ![w] = "idle"]
    BY <1>5 DEF Abandon
  <2>2. OneAtATime' /\ \A v \in Call : serving'[v] = "idle"
    BY <1>0, <2>1, OnlyOne DEF Served
  <2>3. UNCHANGED <<failures, flagged, toldTwice, toldInStreak>>
    BY <1>5 DEF Abandon, rowVars, toldVars
  <2>4. callFaults' # 0
    BY <1>0, <1>5 DEF Abandon, DeliveryTypeOK
  <2>5. ReadsAreFresh' /\ FlagIsStreak' /\ ToldUnlessPending'
    BY <2>1, <2>2, <2>3, <2>4
       DEF Served, ReadsAreFresh, Outcomes, FlagIsStreak, ToldUnlessPending
  <2> QED BY <2>2, <2>5 DEF Served
<1>6. ASSUME UNCHANGED deliveryVars
      PROVE  Served'
  BY <1>6 DEF deliveryVars, rowVars, readVars, toldVars, Served, OneAtATime, ReadsAreFresh, FlagIsStreak,
              ToldUnlessPending
<1> QED BY <1>1, <1>2, <1>3, <1>4, <1>5, <1>6 DEF DeliveryNext

-----------------------------------------------------------------------------
(* The strengthened invariant holds in every reachable state.              *)
THEOREM OutcomeInductive == DeliverySpec => []OutcomeInv
<1> USE DeliveryBounds
<1>1. DeliveryInit => OutcomeInv
  <2> SUFFICES ASSUME DeliveryInit PROVE OutcomeInv
    OBVIOUS
  <2>1. DeliveryTypeOK
    <3>1. /\ serving \in [Call -> {"idle", "failure", "success", "notify"}]
          /\ readFlag \in [Call -> BOOLEAN]
          /\ message \in [Call -> {"deliverable", "undeliverable"}]
      BY DEF DeliveryInit
    <3>2. 0 \in 0..MaxCalls /\ 0 \in 0..MaxCallFaults
      OBVIOUS
    <3>3. readCount \in [Call -> 0..MaxCalls]
      BY <3>2 DEF DeliveryInit
    <3> QED BY <3>1, <3>2, <3>3 DEF DeliveryInit, DeliveryTypeOK
  <2>2. Failing = {}
    BY DEF DeliveryInit, Failing
  <2>3. Counted
    BY <2>2, FS_EmptySet DEF DeliveryInit, Counted
  <2>4. NeverInvented /\ NeverFlaggedEarly
    BY DEF DeliveryInit, NeverInvented, NeverFlaggedEarly
  <2>5. OneAtATime /\ ReadsAreFresh
    BY DEF DeliveryInit, OneAtATime, ReadsAreFresh, Outcomes
  <2>6. FlagIsStreak /\ ToldUnlessPending
    BY DEF DeliveryInit, FlagIsStreak, ToldUnlessPending
  <2> QED BY <2>1, <2>3, <2>4, <2>5, <2>6 DEF OutcomeInv, Served
<1>2. OutcomeInv /\ [DeliveryNext]_deliveryVars => OutcomeInv'
  <2> SUFFICES ASSUME OutcomeInv, [DeliveryNext]_deliveryVars PROVE OutcomeInv'
    OBVIOUS
  <2>1. Always
    BY DEF OutcomeInv, Always
  <2>2. overlapped => overlapped'
    BY DEF DeliveryNext, Read, WriteFailure, WriteSuccess, Notify, Abandon, deliveryVars
  <2>3. Always'
    BY <2>1, AlwaysKept
  <2>4. ~overlapped' => Served'
    BY <2>1, <2>2, ServedKept DEF OutcomeInv
  <2> QED BY <2>3, <2>4 DEF OutcomeInv, Always
<1> QED BY <1>1, <1>2, PTL DEF DeliverySpec

(* Every count and flag stays in its range, whatever calls interleave, and *)
(* no channel is flagged before Threshold hard failures were recorded.     *)
THEOREM FlaggedInTime == DeliverySpec => [](DeliveryTypeOK /\ NeverFlaggedEarly)
<1>1. OutcomeInv => DeliveryTypeOK /\ NeverFlaggedEarly
  BY DEF OutcomeInv
<1> QED BY <1>1, OutcomeInductive, PTL

(* As long as calls are served one at a time, reside hears of a streak     *)
(* once, and when every notice has reached it, it agrees with the row.     *)
THEOREM OncePerStreak == DeliverySpec => []ToldOncePerStreak
<1>1. OutcomeInv => ToldOncePerStreak
  <2> SUFFICES ASSUME OutcomeInv, ~overlapped
               PROVE  /\ ~toldTwice
                      /\ callFaults = 0 /\ (\A w \in Call : serving[w] = "idle") =>
                           /\ lastTold = "undeliverable" <=> flagged
                           /\ flagged <=> failures >= Threshold
    BY DEF ToldOncePerStreak
  <2> QED BY DEF OutcomeInv, Served, FlagIsStreak, ToldUnlessPending
<1> QED BY <1>1, OutcomeInductive, PTL

-----------------------------------------------------------------------------
(* DashboardPresence, for every set of sockets, agents and conversations   *)
(* and any number of frames.                                               *)

(* What IndexAgrees and the others need of the rest of the state: a socket *)
(* that has not connected has left no trace,                               *)
Quiet ==
  \A c \in Client : conn[c] = "new" =>
    watching[c] = Nothing /\ asked[c] = Nothing /\ c \notin authed /\ c \notin BeingChecked

(* one that closed with a check in flight is known as such,                *)
LateIsRaced == \A c \in Client : conn[c] = "closed" /\ c \in BeingChecked => c \in raced

(* and a check in flight is that of the socket's last frame, unless frames *)
(* raced.                                                                  *)
ChecksLastAsked ==
  \A c \in Client, n \in 1..MaxFrames, k \in Watchable :
    <<c, n, k>> \in checks /\ conn[c] = "open" /\ c \notin raced => k = asked[c]

HubInv == IndexAgrees /\ WatchersOwnIt /\ ViewersUpToDate

PresenceInv ==
  /\ PresenceTypeOK /\ HubInv
  /\ Quiet /\ LateIsRaced /\ OnlyConnectedAreIndexed
  /\ ChecksLastAsked /\ WatchesLastAsked

HubTypes ==
  /\ clients \in SUBSET Client
  /\ watching \in [Client -> Selection]
  /\ watchers \in [Watchable -> SUBSET Client]
  /\ shown \in [Client -> [of : Selection, users : SUBSET User]]

-----------------------------------------------------------------------------
(* What the list of x says once it watches k among the watchers W.         *)
ListFor(x, k, W) == [of |-> k, users |-> {UserOf[y] : y \in W[k]} \ {UserOf[x]}]

(* publishViewers, where nobody is in two indexes: who watches one of K    *)
(* gets its list, nobody else is sent anything.                            *)
LEMMA PublishedShows ==
  ASSUME NEW c, NEW K \in SUBSET Watchable, HubTypes, watchers' \in [Watchable -> SUBSET Client],
         \A x \in Client, j, k \in Watchable : x \in watchers'[j] /\ x \in watchers'[k] => j = k,
         Published(c, K, watchers')
  PROVE  /\ shown' \in [Client -> [of : Selection, users : SUBSET User]]
         /\ \A x \in Client, k \in K : conn[x] = "open" /\ x \in watchers'[k] => shown'[x] = ListFor(x, k, watchers')
         /\ \A x \in Client : (\A k \in K : x \notin watchers'[k]) => shown'[x] = shown[x]
<1> DEFINE Hit(x) == conn[x] = "open" /\ \E k \in K : x \in watchers'[k]
           The(x) == CHOOSE k \in K : x \in watchers'[k]
<1>1. shown' = [x \in Client |-> IF Hit(x) THEN ListFor(x, The(x), watchers') ELSE shown[x]]
  BY Zenon DEF Published, ListFor
<1>2. ASSUME NEW x \in Client, Hit(x)
      PROVE  The(x) \in K /\ x \in watchers'[The(x)]
  BY <1>2, Zenon
<1>3. ASSUME NEW x \in Client, NEW k \in Watchable
      PROVE  ListFor(x, k, watchers') \in [of : Selection, users : SUBSET User]
  BY PresenceSets DEF ListFor, Selection
<1> HIDE DEF The
<1>4. \A x \in Client : shown'[x] \in [of : Selection, users : SUBSET User]
  BY <1>1, <1>2, <1>3 DEF HubTypes
<1>5. shown' \in [Client -> [of : Selection, users : SUBSET User]]
  BY <1>1, <1>4
<1>6. ASSUME NEW x \in Client, NEW k \in K, conn[x] = "open", x \in watchers'[k]
      PROVE  shown'[x] = ListFor(x, k, watchers')
  <2>1. Hit(x)
    BY <1>6
  <2>2. The(x) = k
    BY <1>2, <1>6, <2>1
  <2> QED BY <1>1, <2>1, <2>2
<1>7. ASSUME NEW x \in Client, \A k \in K : x \notin watchers'[k]
      PROVE  shown'[x] = shown[x]
  BY <1>1, <1>7
<1> QED BY <1>5, <1>6, <1>7

(* Pointing c at k and publishing keeps the hub in order, for whoever is   *)
(* open then.                                                              *)
LEMMA HubMoves ==
  ASSUME HubTypes, HubInv, NEW c \in Client, NEW k \in Own[c] \cup {Nothing},
         watchers' = Moved(c, k),
         watching' = [watching EXCEPT ![c] = k],
         Published(c, {watching[c], k} \ {Nothing}, watchers'),
         clients' \in SUBSET Client,
         \A x \in Client : conn'[x] = "open" => conn[x] = "open"
  PROVE  HubTypes' /\ HubInv'
<1> DEFINE K == {watching[c], k} \ {Nothing}
<1>1. k \in Selection /\ K \in SUBSET Watchable
  BY PresenceSets DEF Selection, HubTypes
<1>2. /\ watchers' \in [Watchable -> SUBSET Client]
      /\ watching' \in [Client -> Selection]
  BY <1>1 DEF HubTypes, Moved
<1>3. IndexAgrees'
  <2>1. ASSUME NEW x \in Client, NEW j \in Watchable
        PROVE  x \in watchers'[j] <=> watching'[x] = j
    <3>1. watchers'[j] = IF j = k THEN watchers[j] \cup {c} ELSE watchers[j] \ {c}
      BY DEF Moved
    <3>2. watching'[x] = IF x = c THEN k ELSE watching[x]
      BY DEF HubTypes
    <3>3. x \in watchers[j] <=> watching[x] = j
      BY DEF HubInv, IndexAgrees
    <3> QED BY <3>1, <3>2, <3>3
  <2> QED BY <2>1 DEF IndexAgrees
<1>4. WatchersOwnIt'
  <2>1. ASSUME NEW j \in Watchable, NEW x \in watchers'[j]
        PROVE  j \in Own[x]
    <3>1. x \in watchers[j] \/ (x = c /\ j = k)
      BY <2>1 DEF Moved
    <3> QED BY <3>1, PresenceSets DEF HubInv, WatchersOwnIt
  <2> QED BY <2>1 DEF WatchersOwnIt
<1>5. /\ shown' \in [Client -> [of : Selection, users : SUBSET User]]
      /\ \A x \in Client, j \in K : conn[x] = "open" /\ x \in watchers'[j] => shown'[x] = ListFor(x, j, watchers')
      /\ \A x \in Client : (\A j \in K : x \notin watchers'[j]) => shown'[x] = shown[x]
  <2>1. \A x \in Client, i, j \in Watchable : x \in watchers'[i] /\ x \in watchers'[j] => i = j
    BY <1>3 DEF IndexAgrees
  <2>2. Published(c, K, watchers')
    OBVIOUS
  <2> HIDE DEF K
  <2> QED BY <1>1, <1>2, <2>1, <2>2, PublishedShows
<1>6. ViewersUpToDate'
  <2>1. SUFFICES ASSUME NEW x \in Client, conn'[x] = "open", watching'[x] # Nothing
                 PROVE  shown'[x] = ListFor(x, watching'[x], watchers')
    BY DEF ViewersUpToDate, ListFor
  <2>2. conn[x] = "open" /\ watching'[x] \in Watchable
    BY <1>2, <2>1 DEF Selection
  <2>3. x \in watchers'[watching'[x]]
    BY <1>3, <2>2 DEF IndexAgrees
  <2>4. CASE watching'[x] \in K
    BY <1>5, <2>2, <2>3, <2>4
  <2>5. CASE watching'[x] \notin K
    <3>1. x # c /\ watching'[x] = watching[x]
      BY <2>1, <2>5 DEF HubTypes
    <3>2. watchers'[watching[x]] = watchers[watching[x]]
      <4>1. watching[x] # k /\ watching[x] \in Watchable
        BY <2>1, <2>2, <2>5, <3>1
      <4>2. c \notin watchers[watching[x]]
        BY <2>1, <2>5, <3>1, <4>1 DEF HubInv, IndexAgrees
      <4> QED BY <4>1, <4>2 DEF Moved, HubTypes
    <3>3. \A j \in K : x \notin watchers'[j]
      BY <1>1, <1>3, <2>5 DEF IndexAgrees
    <3>4. shown[x] = ListFor(x, watching[x], watchers)
      BY <2>1, <2>2, <3>1 DEF HubInv, ViewersUpToDate, ListFor
    <3> QED BY <1>5, <3>1, <3>2, <3>3, <3>4 DEF ListFor
  <2> QED BY <2>4, <2>5
<1> QED BY <1>2, <1>3, <1>4, <1>5, <1>6 DEF HubTypes, HubInv

(* The hub left as it is, by a step that opens no socket that watches.     *)
LEMMA HubStays ==
  ASSUME HubTypes, HubInv, UNCHANGED <<watching, watchers, shown>>, clients' \in SUBSET Client,
         \A x \in Client : conn'[x] = "open" => conn[x] = "open" \/ watching[x] = Nothing
  PROVE  HubTypes' /\ HubInv'
BY DEF HubTypes, HubInv, IndexAgrees, WatchersOwnIt, ViewersUpToDate

LEMMA HubWatches ==
  ASSUME HubTypes, HubInv, NEW c \in Client, NEW k \in Own[c] \cup {Nothing}, Watch(c, k), UNCHANGED conn
  PROVE  /\ HubTypes' /\ HubInv'
         /\ watching' = [watching EXCEPT ![c] = k]
         /\ \A j \in Watchable : watchers'[j] \subseteq watchers[j] \cup {c}
<1>1. CASE watching[c] = k
  <2>1. UNCHANGED hubVars
    BY <1>1 DEF Watch
  <2> QED BY <1>1, <2>1, HubStays DEF hubVars, HubTypes
<1>2. CASE watching[c] # k
  <2>1. /\ watchers' = Moved(c, k) /\ watching' = [watching EXCEPT ![c] = k]
        /\ Published(c, {watching[c], k} \ {Nothing}, watchers') /\ clients' = clients
    BY <1>2 DEF Watch
  <2>2. HubTypes' /\ HubInv'
    BY <2>1, HubMoves DEF HubTypes
  <2>3. \A j \in Watchable : watchers'[j] \subseteq watchers[j] \cup {c}
    BY <2>1 DEF Moved
  <2> QED BY <2>1, <2>2, <2>3
<1> QED BY <1>1, <1>2

-----------------------------------------------------------------------------
(* The initial state, and each action.                                     *)

LEMMA PresenceInitially == PresenceInit => PresenceInv
BY PresenceSets, PresenceBounds
   DEF PresenceInit, PresenceInv, PresenceTypeOK, HubInv, IndexAgrees, WatchersOwnIt, ViewersUpToDate, Selection,
       Quiet, BeingChecked, LateIsRaced, OnlyConnectedAreIndexed, ChecksLastAsked, WatchesLastAsked

LEMMA ConnectKeeps ==
  ASSUME PresenceInv, NEW c \in Client, Connect(c)
  PROVE  PresenceInv'
<1>1. /\ conn[c] = "new" /\ conn' = [conn EXCEPT ![c] = "open"]
      /\ UNCHANGED <<authed, frames, asked, checks, clients, watching, watchers, shown, raced>>
  BY DEF Connect, hubVars
<1>2. watching[c] = Nothing /\ asked[c] = Nothing /\ c \notin authed /\ c \notin BeingChecked
  BY <1>1 DEF PresenceInv, Quiet
<1>3. \A x \in Client : conn'[x] = IF x = c THEN "open" ELSE conn[x]
  BY <1>1 DEF PresenceInv, PresenceTypeOK
<1>4. BeingChecked' = BeingChecked
  BY <1>1 DEF BeingChecked
<1>5. PresenceTypeOK'
  BY <1>1 DEF PresenceInv, PresenceTypeOK
<1>6. HubInv'
  BY <1>1, <1>2, <1>3, HubStays DEF PresenceInv, PresenceTypeOK, HubTypes
<1>7. Quiet' /\ LateIsRaced'
  BY <1>1, <1>2, <1>3, <1>4 DEF PresenceInv, Quiet, LateIsRaced
<1>8. OnlyConnectedAreIndexed'
  BY <1>1, <1>3 DEF PresenceInv, PresenceTypeOK, OnlyConnectedAreIndexed
<1>9. ChecksLastAsked'
  <2>1. ASSUME NEW n, NEW k PROVE <<c, n, k>> \notin checks
    BY <1>2 DEF BeingChecked
  <2> QED BY <1>1, <1>3, <2>1 DEF PresenceInv, ChecksLastAsked
<1>10. WatchesLastAsked'
  BY <1>1, <1>2, <1>3, <1>4 DEF PresenceInv, WatchesLastAsked
<1> QED BY <1>5, <1>6, <1>7, <1>8, <1>9, <1>10 DEF PresenceInv

LEMMA AuthKeeps ==
  ASSUME PresenceInv, NEW c \in Client, Auth(c)
  PROVE  PresenceInv'
<1>1. /\ conn[c] = "open" /\ authed' = authed \cup {c} /\ clients' = clients \cup {c}
      /\ UNCHANGED <<conn, frames, asked, checks, watching, watchers, shown, raced>>
  BY DEF Auth
<1>2. BeingChecked' = BeingChecked
  BY <1>1 DEF BeingChecked
<1>3. PresenceTypeOK'
  BY <1>1 DEF PresenceInv, PresenceTypeOK
<1>4. HubInv'
  BY <1>1, HubStays DEF PresenceInv, PresenceTypeOK, HubTypes
<1>5. Quiet' /\ LateIsRaced' /\ OnlyConnectedAreIndexed' /\ ChecksLastAsked' /\ WatchesLastAsked'
  BY <1>1, <1>2 DEF PresenceInv, Quiet, LateIsRaced, OnlyConnectedAreIndexed, ChecksLastAsked, WatchesLastAsked
<1> QED BY <1>3, <1>4, <1>5 DEF PresenceInv

LEMMA WatchFrameKeeps ==
  ASSUME PresenceInv, NEW c \in Client, NEW k \in Selection, WatchFrame(c, k)
  PROVE  PresenceInv'
<1>1. /\ conn[c] = "open" /\ c \in authed /\ frames[c] < MaxFrames
      /\ frames' = [frames EXCEPT ![c] = @ + 1] /\ asked' = [asked EXCEPT ![c] = k]
      /\ raced' = raced \cup ({c} \cap BeingChecked)
      /\ UNCHANGED <<conn, authed>>
  BY DEF WatchFrame
<1>2. /\ HubTypes /\ HubInv /\ raced' \in SUBSET Client
      /\ asked' \in [Client -> Selection] /\ frames' \in [Client -> 0..MaxFrames]
  BY <1>1, PresenceBounds DEF PresenceInv, PresenceTypeOK, HubTypes
<1>3. \A x \in Client : asked'[x] = IF x = c THEN k ELSE asked[x]
  BY <1>1 DEF PresenceInv, PresenceTypeOK
<1>4. CASE k = Nothing
  <2>1. Watch(c, Nothing) /\ checks' = checks
    BY <1>4 DEF WatchFrame
  <2>2. /\ HubTypes' /\ HubInv' /\ watching' = [watching EXCEPT ![c] = Nothing]
        /\ \A j \in Watchable : watchers'[j] \subseteq watchers[j] \cup {c}
    BY <1>1, <1>2, <2>1, HubWatches
  <2>3. \A x \in Client : watching'[x] = IF x = c THEN Nothing ELSE watching[x]
    BY <1>2, <2>2 DEF HubTypes
  <2>4. BeingChecked' = BeingChecked
    BY <2>1 DEF BeingChecked
  <2>5. PresenceTypeOK'
    BY <1>1, <1>2, <2>1, <2>2 DEF PresenceInv, PresenceTypeOK, HubTypes
  <2>6. Quiet' /\ LateIsRaced'
    BY <1>1, <1>3, <1>4, <2>3, <2>4 DEF PresenceInv, Quiet, LateIsRaced
  <2>7. OnlyConnectedAreIndexed'
    BY <1>1, <2>2 DEF PresenceInv, OnlyConnectedAreIndexed
  <2>8. ChecksLastAsked'
    <3>1. ASSUME NEW n \in 1..MaxFrames, NEW j \in Watchable, <<c, n, j>> \in checks
          PROVE  c \in raced'
      BY <1>1, <3>1 DEF BeingChecked
    <3> QED BY <1>1, <1>3, <2>1, <3>1 DEF PresenceInv, ChecksLastAsked
  <2>9. WatchesLastAsked'
    BY <1>1, <1>3, <1>4, <2>3, <2>4 DEF PresenceInv, WatchesLastAsked
  <2> QED BY <2>2, <2>5, <2>6, <2>7, <2>8, <2>9 DEF PresenceInv
<1>5. CASE k # Nothing
  <2>1. checks' = checks \cup {<<c, frames[c] + 1, k>>} /\ UNCHANGED <<clients, watching, watchers, shown>>
    BY <1>5 DEF WatchFrame, hubVars
  <2>2. k \in Watchable /\ frames[c] + 1 \in 1..MaxFrames
    BY <1>1, <1>5, PresenceBounds DEF PresenceInv, PresenceTypeOK, Selection
  <2>3. HubTypes' /\ HubInv'
    BY <1>1, <1>2, <2>1, HubStays DEF HubTypes
  <2>4. BeingChecked' = BeingChecked \cup {c}
    <3>1. ASSUME NEW x \in Client
          PROVE  x \in BeingChecked' <=> x \in BeingChecked \/ x = c
      <4>1. (\E y \in checks' : y[1] = x) <=> (\E y \in checks : y[1] = x) \/ <<c, frames[c] + 1, k>>[1] = x
        BY <2>1, Zenon
      <4>2. <<c, frames[c] + 1, k>>[1] = c
        OBVIOUS
      <4> QED BY <4>1, <4>2 DEF BeingChecked
    <3>2. BeingChecked \subseteq Client /\ BeingChecked' \subseteq Client
      BY DEF BeingChecked
    <3> QED BY <3>1, <3>2
  <2>5. PresenceTypeOK'
    BY <1>1, <1>2, <2>1, <2>2, <2>3 DEF PresenceInv, PresenceTypeOK, HubTypes
  <2>6. Quiet' /\ LateIsRaced'
    BY <1>1, <1>3, <2>1, <2>4 DEF PresenceInv, Quiet, LateIsRaced
  <2>7. OnlyConnectedAreIndexed'
    BY <1>1, <2>1 DEF PresenceInv, OnlyConnectedAreIndexed
  <2>8. ChecksLastAsked'
    <3>1. ASSUME NEW x \in Client, NEW n \in 1..MaxFrames, NEW j \in Watchable,
                 <<x, n, j>> \in checks', conn'[x] = "open", x \notin raced'
          PROVE  j = asked'[x]
      <4>1. CASE <<x, n, j>> \in checks
        <5>1. x # c
          BY <1>1, <3>1, <4>1 DEF BeingChecked
        <5> QED BY <1>1, <1>3, <3>1, <4>1, <5>1 DEF PresenceInv, ChecksLastAsked
      <4>2. CASE x = c /\ j = k
        BY <1>3, <4>2
      <4> QED BY <2>1, <3>1, <4>1, <4>2
    <3> QED BY <3>1 DEF ChecksLastAsked
  <2>9. WatchesLastAsked'
    BY <1>1, <1>3, <2>1, <2>4 DEF PresenceInv, WatchesLastAsked
  <2> QED BY <2>3, <2>5, <2>6, <2>7, <2>8, <2>9 DEF PresenceInv
<1> QED BY <1>4, <1>5

(* One check fewer in flight: what both endings of a check have in common. *)
LEMMA OneCheckLess ==
  ASSUME PresenceTypeOK, NEW c \in Client, NEW n \in 1..MaxFrames, NEW k \in Watchable,
         <<c, n, k>> \in checks, checks' = checks \ {<<c, n, k>>}
  PROVE  /\ checks' \in SUBSET (Client \X (1..MaxFrames) \X Watchable)
         /\ c \in BeingChecked
         /\ BeingChecked' \subseteq BeingChecked
         /\ \A x \in Client : x # c /\ x \in BeingChecked => x \in BeingChecked'
BY DEF PresenceTypeOK, BeingChecked

LEMMA CheckAnsweredKeeps ==
  ASSUME PresenceInv, NEW c \in Client, NEW n \in 1..MaxFrames, NEW k \in Watchable, CheckAnswered(c, n, k)
  PROVE  PresenceInv'
<1>1. /\ <<c, n, k>> \in checks /\ checks' = checks \ {<<c, n, k>>}
      /\ UNCHANGED <<conn, authed, frames, asked, raced>>
  BY DEF CheckAnswered
<1>2. HubTypes /\ HubInv
  BY DEF PresenceInv, PresenceTypeOK, HubTypes
<1>3. /\ checks' \in SUBSET (Client \X (1..MaxFrames) \X Watchable)
      /\ c \in BeingChecked /\ BeingChecked' \subseteq BeingChecked
      /\ \A x \in Client : x # c /\ x \in BeingChecked => x \in BeingChecked'
  BY <1>1, OneCheckLess DEF PresenceInv
<1>4. conn[c] # "new"
  BY <1>3 DEF PresenceInv, Quiet
<1>5. /\ HubTypes' /\ HubInv'
      /\ \A x \in Client : watching'[x] = IF x = c /\ k \in Own[c] THEN k ELSE watching[x]
      /\ \A j \in Watchable : watchers'[j] \subseteq watchers[j] \cup {c}
  <2>1. CASE k \in Own[c]
    <3>1. Watch(c, k)
      BY <2>1 DEF CheckAnswered, Allowed
    <3>2. /\ HubTypes' /\ HubInv' /\ watching' = [watching EXCEPT ![c] = k]
          /\ \A j \in Watchable : watchers'[j] \subseteq watchers[j] \cup {c}
      BY <1>1, <1>2, <2>1, <3>1, HubWatches
    <3> QED BY <1>2, <2>1, <3>2 DEF HubTypes
  <2>2. CASE k \notin Own[c]
    <3>1. UNCHANGED <<clients, watching, watchers, shown>>
      BY <2>2 DEF CheckAnswered, Allowed, hubVars
    <3>2. HubTypes' /\ HubInv'
      BY <1>1, <1>2, <3>1, HubStays DEF HubTypes
    <3> QED BY <2>2, <3>1, <3>2
  <2> QED BY <2>1, <2>2
<1>6. PresenceTypeOK'
  BY <1>1, <1>3, <1>5 DEF PresenceInv, PresenceTypeOK, HubTypes
<1>7. Quiet' /\ LateIsRaced'
  BY <1>1, <1>3, <1>4, <1>5 DEF PresenceInv, Quiet, LateIsRaced
<1>8. OnlyConnectedAreIndexed'
  <2>1. conn[c] = "open" \/ c \in raced
    BY <1>3, <1>4 DEF PresenceInv, PresenceTypeOK, LateIsRaced
  <2> QED BY <1>1, <1>5, <2>1 DEF PresenceInv, OnlyConnectedAreIndexed
<1>9. ChecksLastAsked'
  BY <1>1 DEF PresenceInv, ChecksLastAsked
<1>10. WatchesLastAsked'
  <2>1. SUFFICES ASSUME NEW x \in Client, conn[x] = "open", x \notin raced, x \notin BeingChecked',
                        asked[x] \in Own[x] \cup {Nothing}
                 PROVE  watching'[x] = asked[x]
    BY <1>1 DEF WatchesLastAsked
  <2>2. CASE x = c
    <3>1. asked[c] = k
      BY <1>1, <2>1, <2>2 DEF PresenceInv, ChecksLastAsked
    <3> QED BY <1>5, <2>1, <2>2, <3>1, PresenceSets
  <2>3. CASE x # c
    BY <1>3, <1>5, <2>1, <2>3 DEF PresenceInv, WatchesLastAsked
  <2> QED BY <2>2, <2>3
<1> QED BY <1>5, <1>6, <1>7, <1>8, <1>9, <1>10 DEF PresenceInv

LEMMA CheckThrowsKeeps ==
  ASSUME PresenceInv, NEW c \in Client, NEW n \in 1..MaxFrames, NEW k \in Watchable, CheckThrows(c, n, k)
  PROVE  PresenceInv'
<1>1. /\ <<c, n, k>> \in checks /\ checks' = checks \ {<<c, n, k>>}
      /\ raced' = raced \cup {d \in {c} : conn[d] = "open"}
      /\ UNCHANGED <<conn, authed, frames, asked, clients, watching, watchers, shown>>
  BY DEF CheckThrows, hubVars
<1>2. /\ checks' \in SUBSET (Client \X (1..MaxFrames) \X Watchable)
      /\ c \in BeingChecked /\ BeingChecked' \subseteq BeingChecked
      /\ \A x \in Client : x # c /\ x \in BeingChecked => x \in BeingChecked'
  BY <1>1, OneCheckLess DEF PresenceInv
<1>3. PresenceTypeOK'
  BY <1>1, <1>2 DEF PresenceInv, PresenceTypeOK
<1>4. HubInv'
  BY <1>1, HubStays DEF PresenceInv, PresenceTypeOK, HubTypes
<1>5. Quiet' /\ LateIsRaced' /\ OnlyConnectedAreIndexed' /\ ChecksLastAsked'
  BY <1>1, <1>2 DEF PresenceInv, Quiet, LateIsRaced, OnlyConnectedAreIndexed, ChecksLastAsked
<1>6. WatchesLastAsked'
  BY <1>1, <1>2 DEF PresenceInv, WatchesLastAsked
<1> QED BY <1>3, <1>4, <1>5, <1>6 DEF PresenceInv

LEMMA CloseKeeps ==
  ASSUME PresenceInv, NEW c \in Client, Close(c)
  PROVE  PresenceInv'
<1>1. /\ conn[c] = "open" /\ conn' = [conn EXCEPT ![c] = "closed"]
      /\ clients' = clients \ {c} /\ watchers' = Moved(c, Nothing)
      /\ watching' = [watching EXCEPT ![c] = Nothing]
      /\ Published(c, {watching[c]} \ {Nothing}, watchers')
      /\ raced' = (raced \ {c}) \cup ({c} \cap BeingChecked)
      /\ UNCHANGED <<authed, frames, asked, checks>>
  BY DEF Close
<1>2. HubTypes /\ HubInv /\ raced' \in SUBSET Client /\ conn' \in [Client -> {"new", "open", "closed"}]
  BY <1>1 DEF PresenceInv, PresenceTypeOK, HubTypes
<1>3. \A x \in Client : conn'[x] = IF x = c THEN "closed" ELSE conn[x]
  BY <1>1 DEF PresenceInv, PresenceTypeOK
<1>4. HubTypes' /\ HubInv'
  <2>1. {watching[c]} \ {Nothing} = {watching[c], Nothing} \ {Nothing}
    OBVIOUS
  <2>2. Published(c, {watching[c], Nothing} \ {Nothing}, watchers')
    BY <1>1, <2>1
  <2> QED BY <1>1, <1>2, <1>3, <2>2, HubMoves DEF HubTypes
<1>5. BeingChecked' = BeingChecked
  BY <1>1 DEF BeingChecked
<1>6. \A x \in Client : watching'[x] = IF x = c THEN Nothing ELSE watching[x]
  BY <1>1, <1>2 DEF HubTypes
<1>7. PresenceTypeOK'
  BY <1>1, <1>2, <1>4 DEF PresenceInv, PresenceTypeOK, HubTypes
<1>8. Quiet' /\ LateIsRaced'
  BY <1>1, <1>3, <1>5, <1>6 DEF PresenceInv, Quiet, LateIsRaced
<1>9. OnlyConnectedAreIndexed'
  <2>1. \A j \in Watchable : watchers'[j] = watchers[j] \ {c}
    BY <1>1, PresenceSets DEF Moved
  <2> QED BY <1>1, <1>3, <2>1 DEF PresenceInv, OnlyConnectedAreIndexed
<1>10. ChecksLastAsked'
  BY <1>1, <1>3 DEF PresenceInv, ChecksLastAsked
<1>11. WatchesLastAsked'
  BY <1>1, <1>3, <1>5, <1>6 DEF PresenceInv, WatchesLastAsked
<1> QED BY <1>4, <1>7, <1>8, <1>9, <1>10, <1>11 DEF PresenceInv

LEMMA PresenceKept == PresenceInv /\ [PresenceNext]_presenceVars => PresenceInv'
<1> SUFFICES ASSUME PresenceInv, [PresenceNext]_presenceVars PROVE PresenceInv'
  OBVIOUS
<1>1. CASE UNCHANGED presenceVars
  BY <1>1 DEF presenceVars, hubVars, PresenceInv, PresenceTypeOK, HubInv, IndexAgrees, WatchersOwnIt, ViewersUpToDate,
     Quiet, BeingChecked, LateIsRaced, OnlyConnectedAreIndexed, ChecksLastAsked, WatchesLastAsked
<1>2. ASSUME NEW c \in Client, Connect(c) \/ Auth(c) \/ Close(c) PROVE PresenceInv'
  BY <1>2, ConnectKeeps, AuthKeeps, CloseKeeps
<1>3. ASSUME NEW c \in Client, NEW k \in Selection, WatchFrame(c, k) PROVE PresenceInv'
  BY <1>3, WatchFrameKeeps
<1>4. ASSUME NEW c \in Client, NEW n \in 1..MaxFrames, NEW k \in Watchable,
             CheckAnswered(c, n, k) \/ CheckThrows(c, n, k)
      PROVE  PresenceInv'
  BY <1>4, CheckAnsweredKeeps, CheckThrowsKeeps
<1> QED BY <1>1, <1>2, <1>3, <1>4 DEF PresenceNext

LEMMA PresenceInductive == PresenceSpec => []PresenceInv
BY PresenceInitially, PresenceKept, PTL DEF PresenceSpec

-----------------------------------------------------------------------------
(* The state is always of its types (dashboard.ts, dashboard-hub.ts).      *)
THEOREM PresenceTyped == PresenceSpec => []PresenceTypeOK
<1>1. PresenceInv => PresenceTypeOK
  BY DEF PresenceInv
<1> QED BY <1>1, PresenceInductive, PTL

(* The hub's indexes agree, whatever sockets come, ask and go, and however *)
(* their checks overlap (dashboard-hub.ts, watch and remove).              *)
THEOREM HubIsConsistent == PresenceSpec => []IndexAgrees
<1>1. PresenceInv => IndexAgrees
  BY DEF PresenceInv, HubInv
<1> QED BY <1>1, PresenceInductive, PTL

(* No socket is ever in the index of a conversation of another tenant      *)
(* (dashboard.ts, conversationBelongsToTenant).                            *)
THEOREM TenantsStayApart == PresenceSpec => []WatchersOwnIt
<1>1. PresenceInv => WatchersOwnIt
  BY DEF PresenceInv, HubInv
<1> QED BY <1>1, PresenceInductive, PTL

(* Every open socket's last viewer list is right (#publishViewers).        *)
THEOREM ViewersAreRight == PresenceSpec => []ViewersUpToDate
<1>1. PresenceInv => ViewersUpToDate
  BY DEF PresenceInv, HubInv
<1> QED BY <1>1, PresenceInductive, PTL

(* A closed socket stays indexed only if a check of its was in flight.     *)
THEOREM GhostsAreRaced == PresenceSpec => []OnlyConnectedAreIndexed
<1>1. PresenceInv => OnlyConnectedAreIndexed
  BY DEF PresenceInv
<1> QED BY <1>1, PresenceInductive, PTL

(* A socket that waits for its checks watches what it asked for last.      *)
THEOREM LastAskedWins == PresenceSpec => []WatchesLastAsked
<1>1. PresenceInv => WatchesLastAsked
  BY DEF PresenceInv
<1> QED BY <1>1, PresenceInductive, PTL

-----------------------------------------------------------------------------
(* ChatHandoff, for any number of sockets, agents, messages, transfers and *)
(* crashes and any length of the queue.                                    *)

(* A message of a socket passes through the queue, the append that is      *)
(* awaited and the thread, in this order, and whatever is further along    *)
(* was typed earlier: the queue is in order,                               *)
QueueInOrder(s) ==
  /\ \A i, j \in 1..Len(pending[s]) : i < j => pending[s][i] < pending[s][j]
  /\ \A i \in 1..Len(pending[s]) : pending[s][i] <= sent[s]

(* the message being appended is older than all of it,                     *)
HandledIsOlder(s) ==
  /\ handling[s] <= sent[s]
  /\ \A i \in 1..Len(pending[s]) : handling[s] < pending[s][i]

(* and what the thread has is older than both.                             *)
StoredIsOlder(s) ==
  \A k \in 1..Len(stored) : stored[k][1] = s =>
    /\ stored[k][2] <= sent[s]
    /\ handling[s] # 0 => stored[k][2] < handling[s]
    /\ \A i \in 1..Len(pending[s]) : stored[k][2] < pending[s][i]

(* A socket that was not yet opened has said nothing.                      *)
Unsaid(s) == ws[s] = "new" => sent[s] = 0

Ordered(s) == QueueInOrder(s) /\ HandledIsOlder(s) /\ StoredIsOlder(s)

Accounted(s, n) ==
  \/ <<s, n>> \in putOff
  \/ \E i \in 1..Len(pending[s]) : pending[s][i] = n
  \/ handling[s] = n
  \/ \E i \in 1..Len(stored) : stored[i] = <<s, n>>

ChatInv ==
  /\ ChatTypeOK
  /\ \A s \in Socket : Ordered(s) /\ Unsaid(s)
  /\ TextsKept
-----------------------------------------------------------------------------
(* A queue that grows at its end or shrinks at its head.                   *)
LEMMA Grown ==
  ASSUME NEW S, NEW q \in Seq(S), NEW x \in S
  PROVE  /\ Append(q, x) \in Seq(S) /\ Len(Append(q, x)) = Len(q) + 1 /\ Len(q) \in Nat
         /\ \A i \in 1..Len(q) : Append(q, x)[i] = q[i]
         /\ Append(q, x)[Len(q) + 1] = x
BY AppendProperties, LenProperties

LEMMA Shrunk ==
  ASSUME NEW S, NEW q \in Seq(S), q # <<>>
  PROVE  /\ Tail(q) \in Seq(S) /\ Len(Tail(q)) = Len(q) - 1 /\ Len(q) \in Nat \ {0}
         /\ \A i \in 1..Len(Tail(q)) : Tail(q)[i] = q[i + 1]
         /\ Head(q) \in S /\ Head(q) = q[1]
BY HeadTailProperties, LenProperties, EmptySeq

-----------------------------------------------------------------------------
(* Types.                                                                  *)

(* Nothing survives the process in its memory. *)
LEMMA GoneTypes ==
  ASSUME ChatTypeOK, Gone
  PROVE  /\ ws' \in [Socket -> {"new", "open", "dropped", "closed"}]
         /\ inited' \in SUBSET Socket
         /\ pending' \in [Socket -> Seq(1..MaxTexts)]
         /\ \A s \in Socket : Len(pending'[s]) <= MaxPending
         /\ handling' \in [Socket -> 0..MaxTexts]
         /\ forAI' \in SUBSET Socket
         /\ start' \in [Socket -> {"idle", "resolving", "history", "connecting"}]
         /\ mode' \in [Socket -> {"ai", "waiting", "human"}]
         /\ realtime' \in [Socket -> {"none", "connecting", "open"}]
         /\ owing' \in SUBSET Socket /\ logging' \in SUBSET Socket
         /\ timer' \in SUBSET Socket /\ expiring' \in SUBSET Socket
         /\ \A n \in Nat : transfer' \in [Socket -> 0..n]
         /\ join' \in [Socket \X Agent -> {"no", "assign", "outcome", "done"}]
         /\ registered' \in SUBSET Socket
<1>1. pending' = [s \in Socket |-> <<>>]
  BY DEF Gone
<1>2. <<>> \in Seq(1..MaxTexts) /\ Len(<<>>) = 0
  BY EmptySeq
<1>3. pending' \in [Socket -> Seq(1..MaxTexts)] /\ \A s \in Socket : Len(pending'[s]) = 0
  BY <1>1, <1>2
<1>4. \A s \in Socket : Len(pending'[s]) <= MaxPending
  BY <1>3, ChatBounds
<1>5. handling' \in [Socket -> 0..MaxTexts] /\ \A n \in Nat : transfer' \in [Socket -> 0..n]
  BY ChatBounds DEF Gone
<1>6. ws' \in [Socket -> {"new", "open", "dropped", "closed"}]
  BY DEF ChatTypeOK, Gone
<1>7. join' \in [Socket \X Agent -> {"no", "assign", "outcome", "done"}]
  BY DEF ChatTypeOK, Gone
<1> QED BY <1>3, <1>4, <1>5, <1>6, <1>7 DEF Gone

(* The sockets' part: their queues and histories. *)
QueueTypes ==
  /\ pending \in [Socket -> Seq(1..MaxTexts)]
  /\ \A s \in Socket : Len(pending[s]) <= MaxPending
  /\ handling \in [Socket -> 0..MaxTexts]
  /\ forAI \in SUBSET Socket
  /\ stored \in Seq(Socket \X (1..MaxTexts))
  /\ sent \in [Socket -> 0..MaxTexts]
  /\ putOff \in SUBSET (Socket \X (1..MaxTexts))

queueOnly == <<pending, handling, forAI, stored, sent, putOff>>

(* The sessions' part. *)
SessionTypes ==
  /\ ws \in [Socket -> {"new", "open", "dropped", "closed"}]
  /\ inited \in SUBSET Socket
  /\ start \in [Socket -> {"idle", "resolving", "history", "connecting"}]
  /\ mode \in [Socket -> {"ai", "waiting", "human"}]
  /\ realtime \in [Socket -> {"none", "connecting", "open"}]
  /\ owing \in SUBSET Socket
  /\ logging \in SUBSET Socket /\ timer \in SUBSET Socket /\ expiring \in SUBSET Socket
  /\ registered \in SUBSET Socket

(* The hand-over's part. *)
TransferTypes ==
  /\ transfers \in LiveTransfers
  /\ transfer \in [Socket -> 0..Len(transfers)]
  /\ join \in [Socket \X Agent -> {"no", "assign", "outcome", "done"}]

transferOnly == <<transfers, transfer, join>>

LEMMA TypesSplit ==
  ChatTypeOK <=> QueueTypes /\ SessionTypes /\ TransferTypes /\ crashes \in 0..MaxCrashes
BY DEF ChatTypeOK, QueueTypes, SessionTypes, TransferTypes

-----------------------------------------------------------------------------
(* What each step leaves of the order and the account of the texts.        *)

(* A step that touches no text: it can only open a socket that is silent.  *)
SpeaksLater ==
  \A s \in Socket : (ws'[s] = "new" => ws[s] = "new")
                    /\ (ws'[s] = "open" => ws[s] \in {"new", "open"})

LEMMA TextsUntouched ==
  ASSUME ChatInv, UNCHANGED queueOnly, SpeaksLater
  PROVE  QueueTypes' /\ (\A s \in Socket : Ordered(s) /\ Unsaid(s))' /\ TextsKept'
<1>1. QueueTypes'
  BY TypesSplit DEF QueueTypes, queueOnly, ChatInv
<1>2. (\A s \in Socket : Ordered(s))' /\ TextsInOrder'
  BY DEF queueOnly, ChatInv, Ordered, QueueInOrder, HandledIsOlder, StoredIsOlder, TextsKept,
         TextsInOrder
<1>3. (\A s \in Socket : Unsaid(s))'
  BY DEF queueOnly, ChatInv, Unsaid, SpeaksLater
<1>4. ASSUME NEW s \in Socket, ws'[s] = "open", NEW n \in 1..sent'[s]
      PROVE  Accounted(s, n)'
  <2>1. ws[s] = "open"
    BY <1>4 DEF queueOnly, ChatInv, Unsaid, SpeaksLater
  <2>2. Accounted(s, n)
    BY <1>4, <2>1 DEF queueOnly, ChatInv, TextsKept, TextsAccounted, Accounted
  <2> QED BY <2>2 DEF queueOnly, Accounted
<1>5. TextsAccounted'
  BY <1>4 DEF TextsAccounted, Accounted
<1> QED BY <1>1, <1>2, <1>3, <1>5 DEF TextsKept

(* A full queue refuses, any other takes the message at its end.           *)
LEMMA QueuedGrows ==
  ASSUME NEW q \in Seq(1..MaxTexts), NEW n \in 1..MaxTexts, Len(q) <= MaxPending
  PROVE  /\ Queued(q, n) \in Seq(1..MaxTexts) /\ Len(Queued(q, n)) <= MaxPending
         /\ Len(Queued(q, n)) \in Nat /\ Len(q) <= Len(Queued(q, n))
         /\ \A i \in 1..Len(q) : Queued(q, n)[i] = q[i]
         /\ \A i \in 1..Len(Queued(q, n)) :
              i \in 1..Len(q) \/ (i = Len(q) + 1 /\ Queued(q, n)[i] = n)
         /\ Len(q) < MaxPending => Len(Queued(q, n)) = Len(q) + 1 /\ Queued(q, n)[Len(q) + 1] = n
<1>1. Len(q) \in Nat
  BY LenProperties
<1>2. CASE Len(q) < MaxPending
  <2>1. Queued(q, n) = Append(q, n)
    BY <1>2 DEF Queued
  <2>2. /\ Append(q, n) \in Seq(1..MaxTexts) /\ Len(Append(q, n)) = Len(q) + 1
        /\ \A i \in 1..Len(q) : Append(q, n)[i] = q[i]
        /\ Append(q, n)[Len(q) + 1] = n
    BY Grown
  <2> QED BY <1>1, <1>2, <2>1, <2>2, ChatBounds
<1>3. CASE ~(Len(q) < MaxPending)
  BY <1>1, <1>3 DEF Queued
<1> QED BY <1>2, <1>3

LEMMA SayKeeps ==
  ASSUME ChatInv, NEW s \in Socket, Say(s)
  PROVE  QueueTypes' /\ (\A t \in Socket : Ordered(t) /\ Unsaid(t))' /\ TextsKept'
<1> DEFINE n == sent[s] + 1
           q == pending[s]
<1> USE ChatBounds
<1>1. /\ q \in Seq(1..MaxTexts) /\ Len(q) \in Nat /\ Len(q) <= MaxPending
      /\ sent[s] \in Nat /\ n \in 1..MaxTexts /\ ws[s] = "open"
      /\ UNCHANGED <<ws, handling, forAI, stored>>
  BY LenProperties DEF Say, ChatInv, ChatTypeOK
<1>2. /\ sent' = [sent EXCEPT ![s] = n]
      /\ pending' = [pending EXCEPT ![s] = Queued(q, n)]
      /\ putOff' = IF Len(q) < MaxPending THEN putOff ELSE putOff \cup {<<s, n>>}
  BY DEF Say, ChatInv, ChatTypeOK
<1>3. /\ sent'[s] = n /\ pending'[s] = Queued(q, n)
      /\ \A t \in Socket \ {s} : sent'[t] = sent[t] /\ pending'[t] = pending[t]
  BY <1>2 DEF ChatInv, ChatTypeOK
<1>4. /\ Queued(q, n) \in Seq(1..MaxTexts) /\ Len(Queued(q, n)) <= MaxPending
      /\ Len(Queued(q, n)) \in Nat /\ Len(q) <= Len(Queued(q, n))
      /\ \A i \in 1..Len(q) : Queued(q, n)[i] = q[i]
      /\ \A i \in 1..Len(Queued(q, n)) : i \in 1..Len(q) \/ (i = Len(q) + 1 /\ Queued(q, n)[i] = n)
      /\ Len(q) < MaxPending => Len(Queued(q, n)) = Len(q) + 1 /\ Queued(q, n)[Len(q) + 1] = n
  BY <1>1, QueuedGrows
<1>5. QueueTypes'
  <2>1. putOff' \in SUBSET (Socket \X (1..MaxTexts))
    BY <1>1, <1>2 DEF ChatInv, ChatTypeOK
  <2>2. sent' \in [Socket -> 0..MaxTexts] /\ pending' \in [Socket -> Seq(1..MaxTexts)]
    BY <1>1, <1>2, <1>4 DEF ChatInv, ChatTypeOK
  <2>3. \A t \in Socket : Len(pending'[t]) <= MaxPending
    BY <1>3, <1>4 DEF ChatInv, ChatTypeOK
  <2> QED BY <2>1, <2>2, <2>3, <1>1 DEF QueueTypes, ChatInv, ChatTypeOK
<1>6. QueueInOrder(s)'
  <2>1. QueueInOrder(s)
    BY DEF ChatInv, Ordered
  <2>2. \A i \in 1..Len(q) : q[i] \in 1..MaxTexts
    BY <1>1, ElementOfSeq
  <2>3. \A i \in 1..Len(pending'[s]) : pending'[s][i] <= n
    BY <1>1, <1>3, <1>4, <2>1, <2>2 DEF QueueInOrder
  <2>4. \A i, j \in 1..Len(pending'[s]) : i < j => i \in 1..Len(q)
    BY <1>1, <1>3, <1>4
  <2>5. ASSUME NEW i \in 1..Len(pending'[s]), NEW j \in 1..Len(pending'[s]), i < j
        PROVE  pending'[s][i] < pending'[s][j]
    <3>1. i \in 1..Len(q) /\ pending'[s][i] = q[i]
      BY <2>4, <2>5, <1>3, <1>4
    <3>2. q[i] \in Nat /\ q[i] <= sent[s] /\ q[i] < n
      BY <3>1, <2>1, <2>2, <1>1 DEF QueueInOrder
    <3>3. CASE j \in 1..Len(q)
      <4>1. pending'[s][j] = q[j]
        BY <3>3, <1>3, <1>4
      <4>2. q[i] < q[j]
        BY <3>1, <3>3, <2>1, <2>5 DEF QueueInOrder
      <4> QED BY <3>1, <4>1, <4>2
    <3>4. CASE j \notin 1..Len(q)
      <4>1. pending'[s][j] = n
        BY <3>4, <1>3, <1>4
      <4> QED BY <3>1, <3>2, <4>1
    <3> QED BY <3>3, <3>4
  <2> QED BY <2>3, <2>5, <1>3 DEF QueueInOrder
<1>7. HandledIsOlder(s)'
  <2>1. HandledIsOlder(s) /\ handling[s] \in Nat
    BY DEF ChatInv, Ordered, ChatTypeOK
  <2>2. handling'[s] = handling[s] /\ handling[s] < n
    BY <1>1, <2>1 DEF HandledIsOlder
  <2>3. \A i \in 1..Len(pending'[s]) : handling[s] < pending'[s][i]
    BY <1>3, <1>4, <2>1, <2>2 DEF HandledIsOlder
  <2> QED BY <2>1, <2>2, <2>3, <1>1, <1>3 DEF HandledIsOlder
<1>8. StoredIsOlder(s)'
  <2>1. StoredIsOlder(s)
    BY DEF ChatInv, Ordered
  <2>2. ASSUME NEW k \in 1..Len(stored), stored[k][1] = s
        PROVE  /\ stored[k][2] <= n
               /\ \A i \in 1..Len(pending'[s]) : stored[k][2] < pending'[s][i]
    <3>1. stored \in Seq(Socket \X (1..MaxTexts))
      BY DEF ChatInv, ChatTypeOK
    <3>2. stored[k] \in Socket \X (1..MaxTexts)
      BY <3>1, ElementOfSeq
    <3>3. stored[k][2] \in Nat /\ stored[k][2] <= sent[s]
      BY <3>2, <2>1, <2>2 DEF StoredIsOlder
    <3>4. stored[k][2] <= n /\ stored[k][2] < n
      <4>1. stored[k][2] <= sent[s] /\ stored[k][2] \in Nat /\ sent[s] \in Nat
        BY <3>3, <1>1
      <4> QED BY <4>1
    <3>5. \A i \in 1..Len(q) : stored[k][2] < q[i]
      BY <2>1, <2>2 DEF StoredIsOlder
    <3>6. ASSUME NEW i \in 1..Len(Queued(q, n))
          PROVE  stored[k][2] < Queued(q, n)[i]
      <4>1. i \in 1..Len(q) \/ (i = Len(q) + 1 /\ Queued(q, n)[i] = n)
        BY <3>6, <1>4
      <4>2. i \in 1..Len(q) => Queued(q, n)[i] = q[i]
        BY <1>4
      <4> QED BY <4>1, <4>2, <3>4, <3>5
    <3> QED BY <3>4, <3>6, <1>3
  <2> QED BY <2>1, <2>2, <1>1, <1>3 DEF StoredIsOlder
<1>9. ASSUME NEW t \in Socket \ {s}
      PROVE  Ordered(t)'
  BY <1>1, <1>3 DEF ChatInv, Ordered, QueueInOrder, HandledIsOlder, StoredIsOlder
<1>10. (\A t \in Socket : Ordered(t))'
  BY <1>6, <1>7, <1>8, <1>9 DEF Ordered
<1>11. (\A t \in Socket : Unsaid(t))'
  BY <1>1, <1>3 DEF ChatInv, Unsaid
<1>12. TextsInOrder'
  BY <1>1 DEF ChatInv, TextsKept, TextsInOrder
<1>13. ASSUME NEW t \in Socket, ws'[t] = "open", NEW m \in 1..sent'[t]
       PROVE  Accounted(t, m)'
  <2>1. CASE t = s /\ m = n
    <3>1. CASE Len(q) < MaxPending
      BY <2>1, <3>1, <1>1, <1>3, <1>4 DEF Accounted
    <3>2. CASE ~(Len(q) < MaxPending)
      BY <2>1, <3>2, <1>2 DEF Accounted
    <3> QED BY <3>1, <3>2
  <2>2. CASE ~(t = s /\ m = n)
    <3>1. m \in 1..sent[t] /\ ws[t] = "open"
      BY <2>2, <1>1, <1>3, <1>13
    <3>2. Accounted(t, m)
      BY <3>1 DEF ChatInv, TextsKept, TextsAccounted, Accounted
    <3>3. ASSUME NEW i \in 1..Len(pending[t])
          PROVE  i \in 1..Len(pending'[t]) /\ pending'[t][i] = pending[t][i]
      <4>1. CASE t = s
        BY <4>1, <1>1, <1>3, <1>4
      <4>2. CASE t # s
        BY <4>2, <1>3
      <4> QED BY <4>1, <4>2
    <3>4. putOff \subseteq putOff'
      BY <1>2
    <3> QED BY <3>2, <3>3, <3>4, <1>1 DEF Accounted
  <2> QED BY <2>1, <2>2
<1>14. TextsAccounted'
  BY <1>13 DEF TextsAccounted, Accounted
<1> QED BY <1>5, <1>10, <1>11, <1>12, <1>14 DEF TextsKept

(* The head of the queue is taken, to be appended or put off.              *)
LEMMA HandleKeeps ==
  ASSUME ChatInv, NEW s \in Socket, HandleNext(s)
  PROVE  QueueTypes' /\ (\A t \in Socket : Ordered(t) /\ Unsaid(t))' /\ TextsKept'
<1> DEFINE q == pending[s]
           h == Head(pending[s])
<1>1. /\ q \in Seq(1..MaxTexts) /\ q # <<>> /\ handling[s] = 0
      /\ UNCHANGED <<ws, stored, sent>>
  BY DEF HandleNext, Drainable, ChatInv, ChatTypeOK
<1>2. /\ Tail(q) \in Seq(1..MaxTexts) /\ Len(Tail(q)) = Len(q) - 1 /\ Len(q) \in Nat \ {0}
      /\ \A i \in 1..Len(Tail(q)) : Tail(q)[i] = q[i + 1]
      /\ h \in 1..MaxTexts /\ h = q[1]
  BY <1>1, Shrunk
<1>3. /\ pending' = [pending EXCEPT ![s] = Tail(q)]
      /\ \/ putOff' = putOff \cup {<<s, h>>} /\ UNCHANGED <<handling, forAI>>
         \/ /\ handling' = [handling EXCEPT ![s] = h]
            /\ forAI' \in {forAI \cup {s}, forAI \ {s}}
            /\ putOff' = putOff
  BY DEF HandleNext, ChatInv, ChatTypeOK
<1>4. /\ pending'[s] = Tail(q)
      /\ \A t \in Socket \ {s} : pending'[t] = pending[t] /\ handling'[t] = handling[t]
      /\ handling'[s] \in {0, h}
      /\ putOff \subseteq putOff' /\ (<<s, h>> \in putOff' \/ handling'[s] = h)
  BY <1>1, <1>3 DEF ChatInv, ChatTypeOK
<1>5. QueueTypes'
  <2>1. /\ putOff' \in SUBSET (Socket \X (1..MaxTexts)) /\ forAI' \in SUBSET Socket
        /\ handling' \in [Socket -> 0..MaxTexts]
    <3>1. h \in 0..MaxTexts
      BY <1>2
    <3>2. handling \in [Socket -> 0..MaxTexts] /\ putOff \in SUBSET (Socket \X (1..MaxTexts))
          /\ forAI \in SUBSET Socket
      BY DEF ChatInv, ChatTypeOK
    <3>3. putOff' \in SUBSET (Socket \X (1..MaxTexts)) /\ forAI' \in SUBSET Socket
      BY <3>2, <1>2, <1>3
    <3>4. handling' \in [Socket -> 0..MaxTexts]
      BY <3>1, <3>2, <1>3
    <3> QED BY <3>3, <3>4
  <2>2. pending' \in [Socket -> Seq(1..MaxTexts)]
    BY <1>2, <1>3 DEF ChatInv, ChatTypeOK
  <2>3. ASSUME NEW t \in Socket
        PROVE  Len(pending'[t]) <= MaxPending
    <3>1. CASE t = s
      BY <3>1, <1>2, <1>4, ChatBounds DEF ChatInv, ChatTypeOK
    <3>2. CASE t # s
      BY <3>2, <1>4 DEF ChatInv, ChatTypeOK
    <3> QED BY <3>1, <3>2
  <2> QED BY <2>1, <2>2, <2>3, <1>1 DEF QueueTypes, ChatInv, ChatTypeOK
<1>6. /\ \A i, j \in 1..Len(q) : i < j => q[i] < q[j]
      /\ \A i \in 1..Len(q) : q[i] <= sent[s]
      /\ \A i \in 1..Len(q) : q[i] \in Nat
      /\ sent[s] \in Nat
  <2>1. \A i \in 1..Len(q) : q[i] \in 1..MaxTexts
    BY <1>1, ElementOfSeq
  <2> QED BY <2>1, ChatBounds DEF ChatInv, ChatTypeOK, Ordered, QueueInOrder
<1>7. \A i \in 1..Len(Tail(q)) : i + 1 \in 1..Len(q) /\ Tail(q)[i] = q[i + 1] /\ h < Tail(q)[i]
  <2>1. ASSUME NEW i \in 1..Len(Tail(q))
        PROVE  i + 1 \in 1..Len(q) /\ 1 \in 1..Len(q) /\ 1 < i + 1
    BY <1>2
  <2> QED BY <2>1, <1>2, <1>6
<1>8. QueueInOrder(s)'
  <2>1. \A i, j \in 1..Len(Tail(q)) : i < j => i + 1 < j + 1
    BY <1>2
  <2> QED BY <2>1, <1>1, <1>4, <1>6, <1>7 DEF QueueInOrder
<1>9. HandledIsOlder(s)'
  <2>1. h <= sent[s] /\ 0 <= sent[s]
    BY <1>2, <1>6
  <2>2. \A i \in 1..Len(Tail(q)) : 0 < Tail(q)[i]
    BY <1>2, <1>6, <1>7
  <2> QED BY <2>1, <2>2, <1>1, <1>4, <1>7 DEF HandledIsOlder
<1>10. StoredIsOlder(s)'
  <2>1. StoredIsOlder(s) /\ 1 \in 1..Len(q)
    BY <1>2 DEF ChatInv, Ordered
  <2>2. ASSUME NEW k \in 1..Len(stored), stored[k][1] = s
        PROVE  /\ stored[k][2] <= sent[s] /\ stored[k][2] < h
               /\ \A i \in 1..Len(Tail(q)) : stored[k][2] < Tail(q)[i]
    BY <2>1, <2>2, <1>2, <1>7 DEF StoredIsOlder
  <2> QED BY <2>2, <1>1, <1>4 DEF StoredIsOlder
<1>11. ASSUME NEW t \in Socket \ {s}
       PROVE  Ordered(t)'
  <2>1. Ordered(t) /\ pending'[t] = pending[t] /\ handling'[t] = handling[t]
    BY <1>4 DEF ChatInv
  <2> QED BY <2>1, <1>1 DEF Ordered, QueueInOrder, HandledIsOlder, StoredIsOlder
<1>12. (\A t \in Socket : Ordered(t))'
  BY <1>8, <1>9, <1>10, <1>11 DEF Ordered
<1>13. (\A t \in Socket : Unsaid(t))' /\ TextsInOrder'
  BY <1>1 DEF ChatInv, Unsaid, TextsKept, TextsInOrder
<1>14. ASSUME NEW t \in Socket, ws'[t] = "open", NEW m \in 1..sent'[t]
       PROVE  Accounted(t, m)'
  <2>1. Accounted(t, m) /\ m \in Nat \ {0}
    <3>1. ws[t] = "open" /\ m \in 1..sent[t] /\ sent[t] \in Nat
      BY <1>1, <1>14 DEF ChatInv, ChatTypeOK
    <3>2. TextsAccounted
      BY DEF ChatInv, TextsKept
    <3>3. \A n \in 1..sent[t] : Accounted(t, n)
      BY <3>1, <3>2 DEF TextsAccounted, Accounted
    <3>4. m \in Nat \ {0}
      BY <3>1
    <3> QED BY <3>1, <3>3, <3>4
  <2>2. CASE t # s
    BY <2>1, <2>2, <1>1, <1>4 DEF Accounted
  <2>3. CASE t = s
    <3>1. CASE m = h
      BY <2>3, <3>1, <1>4 DEF Accounted
    <3>2. CASE m # h
      <4>1. ASSUME NEW i \in 1..Len(q), q[i] = m
            PROVE  \E j \in 1..Len(Tail(q)) : Tail(q)[j] = m
        <5>1. i # 1 /\ i - 1 \in 1..Len(Tail(q)) /\ (i - 1) + 1 = i
          BY <4>1, <3>2, <1>2
        <5> QED BY <5>1, <4>1, <1>2
      <4> QED BY <4>1, <2>1, <2>3, <1>1, <1>4 DEF Accounted
    <3> QED BY <3>1, <3>2
  <2> QED BY <2>2, <2>3
<1>15. TextsAccounted'
  BY <1>14 DEF TextsAccounted, Accounted
<1> QED BY <1>5, <1>12, <1>13, <1>15 DEF TextsKept

(* The append returns: the text is the newest of its socket in the thread. *)
LEMMA StoredKeeps ==
  ASSUME ChatInv, NEW s \in Socket, Stored(s)
  PROVE  QueueTypes' /\ (\A t \in Socket : Ordered(t) /\ Unsaid(t))' /\ TextsKept'
<1> DEFINE h == handling[s]
           L == Len(stored)
<1>1. /\ h \in 1..MaxTexts /\ stored \in Seq(Socket \X (1..MaxTexts)) /\ <<s, h>> \in Socket \X (1..MaxTexts)
      /\ stored' = Append(stored, <<s, h>>) /\ handling' = [handling EXCEPT ![s] = 0]
      /\ UNCHANGED <<ws, pending, forAI, sent, putOff>>
  BY ChatBounds DEF Stored, ChatInv, ChatTypeOK
<1>2. /\ stored' \in Seq(Socket \X (1..MaxTexts)) /\ Len(stored') = L + 1 /\ L \in Nat
      /\ \A i \in 1..L : stored'[i] = stored[i]
      /\ stored'[L + 1] = <<s, h>>
  BY <1>1, Grown
<1>3. handling'[s] = 0 /\ \A t \in Socket \ {s} : handling'[t] = handling[t]
  BY <1>1 DEF ChatInv, ChatTypeOK
<1>4. QueueTypes'
  BY <1>1, <1>2, ChatBounds DEF QueueTypes, ChatInv, ChatTypeOK
<1>5. \A k \in 1..Len(stored') : (k \in 1..L /\ stored'[k] = stored[k]) \/ (k = L + 1 /\ stored'[k] = <<s, h>>)
  BY <1>2
<1>6. Ordered(s) /\ h # 0
  BY <1>1 DEF ChatInv
<1>7. QueueInOrder(s)'
  BY <1>1, <1>6 DEF Ordered, QueueInOrder
<1>8. HandledIsOlder(s)'
  <2>1. \A i \in 1..Len(pending[s]) : 0 < pending[s][i]
    <3>1. pending[s] \in Seq(1..MaxTexts)
      BY DEF ChatInv, ChatTypeOK
    <3>2. \A i \in 1..Len(pending[s]) : pending[s][i] \in 1..MaxTexts
      BY <3>1, ElementOfSeq
    <3> QED BY <3>2
  <2> QED BY <2>1, <1>1, <1>3, ChatBounds DEF HandledIsOlder, ChatInv, ChatTypeOK
<1>9. StoredIsOlder(s)'
  <2>1. ASSUME NEW k \in 1..Len(stored'), stored'[k][1] = s
        PROVE  /\ stored'[k][2] <= sent[s]
               /\ \A i \in 1..Len(pending[s]) : stored'[k][2] < pending[s][i]
    <3>1. CASE k \in 1..L /\ stored'[k] = stored[k]
      BY <2>1, <3>1, <1>6 DEF Ordered, StoredIsOlder
    <3>2. CASE stored'[k] = <<s, h>>
      BY <3>2, <1>6 DEF Ordered, HandledIsOlder
    <3> QED BY <3>1, <3>2, <1>5
  <2> QED BY <2>1, <1>1, <1>3 DEF StoredIsOlder
<1>10. ASSUME NEW t \in Socket \ {s}
       PROVE  Ordered(t)'
  <2>1. Ordered(t) /\ t # s
    BY DEF ChatInv
  <2>2. QueueInOrder(t)' /\ HandledIsOlder(t)'
    BY <2>1, <1>1, <1>3 DEF Ordered, QueueInOrder, HandledIsOlder
  <2>3. \A k \in 1..Len(stored') : stored'[k][1] = t => k \in 1..L /\ stored'[k] = stored[k]
    BY <2>1, <1>5
  <2>4. StoredIsOlder(t)'
    BY <2>1, <2>3, <1>1, <1>3 DEF Ordered, StoredIsOlder
  <2> QED BY <2>2, <2>4 DEF Ordered
<1>11. (\A t \in Socket : Ordered(t))'
  BY <1>7, <1>8, <1>9, <1>10 DEF Ordered
<1>12. (\A t \in Socket : Unsaid(t))'
  BY <1>1 DEF ChatInv, Unsaid
<1>13. TextsInOrder'
  <2>1. ASSUME NEW i \in 1..Len(stored'), NEW j \in 1..Len(stored'), i < j, stored'[i][1] = stored'[j][1]
        PROVE  stored'[i][2] < stored'[j][2]
    <3>1. i \in 1..L /\ stored'[i] = stored[i]
      BY <2>1, <1>2
    <3>2. CASE j \in 1..L
      BY <2>1, <3>1, <3>2, <1>2 DEF ChatInv, TextsKept, TextsInOrder
    <3>3. CASE j = L + 1
      BY <2>1, <3>1, <3>3, <1>2, <1>6 DEF Ordered, StoredIsOlder
    <3> QED BY <3>2, <3>3, <1>2
  <2> QED BY <2>1 DEF TextsInOrder
<1>14. ASSUME NEW t \in Socket, ws'[t] = "open", NEW m \in 1..sent'[t]
       PROVE  Accounted(t, m)'
  <2>1. Accounted(t, m) /\ m # 0
    <3>1. ws[t] = "open" /\ m \in 1..sent[t] /\ sent[t] \in Nat
      BY <1>1, <1>14 DEF ChatInv, ChatTypeOK
    <3>2. TextsAccounted
      BY DEF ChatInv, TextsKept
    <3>3. \A n \in 1..sent[t] : Accounted(t, n)
      BY <3>1, <3>2 DEF TextsAccounted, Accounted
    <3>4. m \in Nat \ {0}
      BY <3>1
    <3> QED BY <3>1, <3>3, <3>4
  <2>2. CASE t = s /\ m = h
    <3>1. L + 1 \in 1..Len(stored') /\ stored'[L + 1] = <<t, m>>
      BY <2>2, <1>2
    <3> QED BY <3>1 DEF Accounted
  <2>3. CASE ~(t = s /\ m = h)
    <3>1. \A i \in 1..L : i \in 1..Len(stored') /\ stored'[i] = stored[i]
      BY <1>2
    <3> QED BY <2>1, <2>3, <3>1, <1>1, <1>3 DEF Accounted
  <2> QED BY <2>2, <2>3
<1>15. TextsAccounted'
  BY <1>14 DEF TextsAccounted, Accounted
<1> QED BY <1>4, <1>11, <1>12, <1>13, <1>15 DEF TextsKept

(* The process dies: the queues with it, and no visitor is connected.      *)
LEMMA GoneKeeps ==
  ASSUME ChatInv, Gone, UNCHANGED <<stored, sent, putOff>>
  PROVE  QueueTypes' /\ (\A t \in Socket : Ordered(t) /\ Unsaid(t))' /\ TextsKept'
<1>1. QueueTypes'
  BY GoneTypes DEF QueueTypes, ChatInv, ChatTypeOK
<1>2. \A s \in Socket : /\ Len(pending'[s]) = 0 /\ handling'[s] = 0
                        /\ ws'[s] # "open" /\ (ws'[s] = "new" => ws[s] = "new")
  BY EmptySeq DEF Gone
<1>3. (\A s \in Socket : Ordered(s))'
  <2>1. \A s \in Socket : 1..Len(pending'[s]) = {}
    BY <1>2
  <2> QED BY <2>1, <1>2, ChatBounds DEF ChatInv, ChatTypeOK, Ordered, QueueInOrder, HandledIsOlder, StoredIsOlder
<1>4. (\A s \in Socket : Unsaid(s))' /\ TextsKept'
  BY <1>2 DEF ChatInv, Unsaid, TextsKept, TextsInOrder, TextsAccounted
<1> QED BY <1>1, <1>3, <1>4

-----------------------------------------------------------------------------
(* Every step keeps the invariant.                                         *)

(* Whatever the step, the sessions keep their types ...                    *)
LEMMA SessionTypesKept ==
  ASSUME ChatTypeOK, ChatNext
  PROVE  SessionTypes'
<1>1. SessionTypes
  BY TypesSplit
<1>2. ASSUME NEW s \in Socket, ChatConnect(s) \/ Drop(s) \/ Say(s)
      PROVE  SessionTypes'
  BY <1>1, <1>2 DEF SessionTypes, ChatConnect, Drop, Say, aiVars, handoffVars
<1>3. ASSUME Gone
      PROVE  SessionTypes'
  BY <1>3, GoneTypes DEF SessionTypes
<1>4. ASSUME NEW s \in Socket, ChatClose(s)
      PROVE  SessionTypes'
  <2>1. CASE s \in inited /\ start[s] = "connecting"
    BY <1>3, <1>4, <2>1 DEF ChatClose
  <2>2. CASE ~(s \in inited /\ start[s] = "connecting")
    BY <1>1, <1>4, <2>2 DEF SessionTypes, ChatClose, Dispose
  <2> QED BY <2>1, <2>2
<1>5. ASSUME NEW s \in Socket, HandleNext(s) \/ Stored(s) \/ Register(s)
      PROVE  SessionTypes'
  BY <1>1, <1>5 DEF SessionTypes, HandleNext, Stored, Register, RegisterChat, aiVars, handoffVars
<1>6. ASSUME NEW s \in Socket, OpenRealtime(s) \/ Started(s)
      PROVE  SessionTypes'
  BY <1>1, <1>6 DEF SessionTypes, OpenRealtime, Started, handoffVars
<1>7. ASSUME NEW s \in Socket, TransferLogged(s) \/ HandoffTimeout(s) \/ BackToAI(s)
      PROVE  SessionTypes'
  BY <1>1, <1>7 DEF SessionTypes, TransferLogged, HandoffTimeout, BackToAI, RegisterChat, aiVars
<1>8. ASSUME NEW s \in Socket, NEW a \in Agent, JoinAssigned(s, a) \/ JoinRecorded(s, a)
      PROVE  SessionTypes'
  BY <1>1, <1>8 DEF SessionTypes, JoinAssigned, JoinRecorded, aiVars, handoffVars
<1>9. ASSUME NEW s \in Socket, AIText(s) \/ BeginHandoff(s)
      PROVE  SessionTypes'
  BY <1>1, <1>9 DEF SessionTypes, AIText, BeginHandoff, handoffVars
<1>10. ASSUME NEW s \in Socket, NEW a \in Agent, AgentJoin(s, a)
       PROVE  SessionTypes'
  BY <1>1, <1>10 DEF SessionTypes, AgentJoin, aiVars
<1>11. CASE Crash
  BY <1>3, <1>11 DEF Crash
<1> QED BY <1>2, <1>4, <1>5, <1>6, <1>7, <1>8, <1>9, <1>10, <1>11 DEF ChatNext, Bridge

(* A transfer's outcome is written over; without a transfer nothing is. *)
LEMMA OutcomeWritten ==
  ASSUME NEW S, NEW q \in Seq(S), NEW i, NEW x \in S
  PROVE  [q EXCEPT ![i] = x] \in Seq(S) /\ Len([q EXCEPT ![i] = x]) = Len(q)
<1> DEFINE r == [q EXCEPT ![i] = x]
<1>1. Len(q) \in Nat /\ DOMAIN q = 1..Len(q) /\ q \in [1..Len(q) -> S]
  BY LenProperties
<1>2. r \in [1..Len(q) -> S]
  BY <1>1
<1>3. r \in Seq(S) /\ Len(r) = Len(q)
  BY <1>1, <1>2, IsASeq, LenProperties
<1> QED BY <1>3

(* ... and so do the transfers.                                            *)
LEMMA TransferTypesKept ==
  ASSUME ChatTypeOK, ChatNext
  PROVE  TransferTypes'
<1>1. /\ transfers \in LiveTransfers /\ Len(transfers) \in Nat
      /\ transfer \in [Socket -> 0..Len(transfers)]
      /\ join \in [Socket \X Agent -> {"no", "assign", "outcome", "done"}]
  BY LenProperties DEF ChatTypeOK, LiveTransfers
<1>2. ASSUME UNCHANGED transferOnly
      PROVE  TransferTypes'
  BY <1>1, <1>2 DEF transferOnly, TransferTypes
<1>3. ASSUME Gone, UNCHANGED transfers
      PROVE  TransferTypes'
  BY <1>1, <1>3, GoneTypes DEF TransferTypes
<1>4. ASSUME NEW s \in Socket, ChatClose(s)
      PROVE  TransferTypes'
  <2>1. CASE s \in inited /\ start[s] = "connecting"
    BY <1>3, <1>4, <2>1 DEF ChatClose
  <2>2. CASE ~(s \in inited /\ start[s] = "connecting")
    BY <1>2, <1>4, <2>2 DEF ChatClose, transferOnly
  <2> QED BY <2>1, <2>2
<1>5. ASSUME NEW s \in Socket,
             ChatConnect(s) \/ Drop(s) \/ Say(s) \/ HandleNext(s) \/ Stored(s) \/ Register(s)
      PROVE  TransferTypes'
  BY <1>2, <1>5 DEF transferOnly, ChatConnect, Drop, Say, HandleNext, Stored, Register, handoffVars
<1>6. ASSUME NEW s \in Socket,
             OpenRealtime(s) \/ Started(s) \/ AIText(s) \/ BeginHandoff(s) \/ HandoffTimeout(s)
      PROVE  TransferTypes'
  BY <1>2, <1>6
     DEF transferOnly, OpenRealtime, Started, AIText, BeginHandoff, HandoffTimeout, handoffVars
<1>7. ASSUME NEW s \in Socket, TransferLogged(s)
      PROVE  TransferTypes'
  <2>1. /\ transfers' = Append(transfers, "pending")
        /\ transfer' = [transfer EXCEPT ![s] = Len(transfers) + 1] /\ join' = join
    BY <1>7 DEF TransferLogged
  <2>2. transfers' \in LiveTransfers /\ Len(transfers') = Len(transfers) + 1
    BY <1>1, <2>1, Grown DEF LiveTransfers
  <2> QED BY <1>1, <2>1, <2>2 DEF TransferTypes
<1>8. ASSUME NEW i, NEW o \in {"answered", "no_answer"}, transfers' = [transfers EXCEPT ![i] = o]
      PROVE  transfers' \in LiveTransfers /\ Len(transfers') = Len(transfers)
  BY <1>1, <1>8, OutcomeWritten DEF LiveTransfers
<1>9. ASSUME NEW s \in Socket, BackToAI(s)
      PROVE  TransferTypes'
  BY <1>1, <1>8, <1>9 DEF BackToAI, TransferTypes
<1>10. ASSUME NEW s \in Socket, NEW a \in Agent, JoinAssigned(s, a) \/ AgentJoin(s, a)
       PROVE  TransferTypes'
  BY <1>1, <1>10 DEF JoinAssigned, AgentJoin, handoffVars, TransferTypes
<1>11. ASSUME NEW s \in Socket, NEW a \in Agent, JoinRecorded(s, a)
       PROVE  TransferTypes'
  BY <1>1, <1>8, <1>11 DEF JoinRecorded, handoffVars, TransferTypes
<1>12. CASE Crash
  BY <1>3, <1>12 DEF Crash
<1> QED BY <1>4, <1>5, <1>6, <1>7, <1>9, <1>10, <1>11, <1>12 DEF ChatNext, Bridge

LEMMA CrashesKept ==
  ASSUME ChatTypeOK, ChatNext
  PROVE  crashes' \in 0..MaxCrashes
<1>1. crashes' = crashes \/ (crashes < MaxCrashes /\ crashes' = crashes + 1)
  BY DEF ChatNext, Bridge, ChatConnect, Drop, Say, ChatClose, HandleNext, Stored, Register, OpenRealtime,
         Started, TransferLogged, HandoffTimeout, BackToAI, JoinAssigned, JoinRecorded, AIText,
         BeginHandoff, AgentJoin, Crash
<1> QED BY <1>1, ChatBounds DEF ChatTypeOK

(* The texts.                                                              *)
LEMMA TextsKeptByAll ==
  ASSUME ChatInv, ChatNext
  PROVE  QueueTypes' /\ (\A t \in Socket : Ordered(t) /\ Unsaid(t))' /\ TextsKept'
<1> DEFINE Goal == QueueTypes' /\ (\A t \in Socket : Ordered(t) /\ Unsaid(t))' /\ TextsKept'
<1>1. ASSUME UNCHANGED <<queueOnly, ws>>
      PROVE  Goal
  BY <1>1, TextsUntouched DEF SpeaksLater
<1>2. ASSUME NEW s \in Socket, ChatConnect(s) \/ Drop(s)
      PROVE  Goal
  <2>1. UNCHANGED queueOnly /\ SpeaksLater
    BY <1>2 DEF ChatConnect, Drop, SpeaksLater, queueOnly, queueVars, ChatInv, ChatTypeOK
  <2> QED BY <2>1, TextsUntouched
<1>3. ASSUME NEW s \in Socket, ChatClose(s)
      PROVE  Goal
  <2>1. CASE s \in inited /\ start[s] = "connecting"
    BY <1>3, <2>1, GoneKeeps DEF ChatClose
  <2>2. CASE ~(s \in inited /\ start[s] = "connecting")
    <3>1. UNCHANGED queueOnly /\ SpeaksLater
      BY <1>3, <2>2 DEF ChatClose, SpeaksLater, queueOnly, queueVars, ChatInv, ChatTypeOK
    <3> QED BY <3>1, TextsUntouched
  <2> QED BY <2>1, <2>2
<1>4. ASSUME NEW s \in Socket, Register(s) \/ OpenRealtime(s) \/ Started(s) \/ TransferLogged(s)
                               \/ HandoffTimeout(s) \/ BackToAI(s) \/ AIText(s) \/ BeginHandoff(s)
      PROVE  Goal
  <2>1. UNCHANGED <<queueOnly, ws>>
    BY <1>4 DEF queueOnly, queueVars, Register, OpenRealtime, Started, TransferLogged, HandoffTimeout,
                BackToAI, AIText, BeginHandoff
  <2> QED BY <2>1, <1>1
<1>5. ASSUME NEW s \in Socket, NEW a \in Agent,
             JoinAssigned(s, a) \/ JoinRecorded(s, a) \/ AgentJoin(s, a)
      PROVE  Goal
  <2>1. UNCHANGED <<queueOnly, ws>>
    BY <1>5 DEF queueOnly, queueVars, JoinAssigned, JoinRecorded, AgentJoin
  <2> QED BY <2>1, <1>1
<1>6. CASE Crash
  BY <1>6, GoneKeeps DEF Crash
<1>7. ASSUME NEW s \in Socket, Say(s) \/ HandleNext(s) \/ Stored(s)
      PROVE  Goal
  BY <1>7, SayKeeps, HandleKeeps, StoredKeeps
<1> QED BY <1>2, <1>3, <1>4, <1>5, <1>6, <1>7 DEF ChatNext, Bridge

LEMMA ChatInitially == ChatInit => ChatInv
<1> SUFFICES ASSUME ChatInit PROVE ChatInv
  OBVIOUS
<1>1. /\ <<>> \in Seq(1..MaxTexts) /\ <<>> \in LiveTransfers /\ <<>> \in Seq(Socket \X (1..MaxTexts))
      /\ Len(<<>>) = 0 /\ 1..0 = {}
  BY EmptySeq DEF LiveTransfers
<1>2. QueueTypes
  BY <1>1, ChatBounds DEF ChatInit, QueueTypes
<1>3. SessionTypes
  BY DEF ChatInit, SessionTypes
<1>4. TransferTypes /\ crashes \in 0..MaxCrashes
  BY <1>1, ChatBounds DEF ChatInit, TransferTypes
<1>5. \A s \in Socket : Ordered(s) /\ Unsaid(s)
  <2>1. \A s \in Socket : 1..Len(pending[s]) = {} /\ handling[s] = 0 /\ sent[s] = 0
    BY <1>1 DEF ChatInit
  <2>2. 1..Len(stored) = {}
    BY <1>1 DEF ChatInit
  <2> QED BY <2>1, <2>2 DEF Ordered, QueueInOrder, HandledIsOlder, StoredIsOlder, Unsaid
<1>6. TextsKept
  <2>1. 1..Len(stored) = {} /\ \A s \in Socket : ws[s] # "open"
    BY <1>1 DEF ChatInit
  <2> QED BY <2>1 DEF TextsKept, TextsInOrder, TextsAccounted
<1> QED BY <1>2, <1>3, <1>4, <1>5, <1>6, TypesSplit DEF ChatInv

(* Every reachable state satisfies the invariant: the queues, the append   *)
(* that is awaited and the thread hold each socket's texts in the order    *)
(* they were typed, and all of them.                                       *)
THEOREM ChatInductive == ChatSafeSpec => []ChatInv
<1>1. ChatInv /\ [ChatNext]_chatVars => ChatInv'
  <2> SUFFICES ASSUME ChatInv, [ChatNext]_chatVars PROVE ChatInv'
    OBVIOUS
  <2>1. CASE ChatNext
    <3>1. ChatTypeOK
      BY DEF ChatInv
    <3>2. SessionTypes' /\ TransferTypes' /\ crashes' \in 0..MaxCrashes
      BY <2>1, <3>1, SessionTypesKept, TransferTypesKept, CrashesKept
    <3>3. QueueTypes' /\ (\A t \in Socket : Ordered(t) /\ Unsaid(t))' /\ TextsKept'
      BY <2>1, TextsKeptByAll
    <3>4. ChatTypeOK'
      BY <3>2, <3>3 DEF ChatTypeOK, QueueTypes, SessionTypes, TransferTypes
    <3> QED BY <3>3, <3>4 DEF ChatInv
  <2>2. CASE UNCHANGED chatVars
    <3>1. UNCHANGED queueOnly /\ SpeaksLater
      BY <2>2 DEF chatVars, queueVars, queueOnly, SpeaksLater
    <3>2. QueueTypes' /\ (\A s \in Socket : Ordered(s) /\ Unsaid(s))' /\ TextsKept'
      BY <3>1, TextsUntouched
    <3>3. SessionTypes' /\ TransferTypes' /\ crashes' \in 0..MaxCrashes
      BY <2>2, TypesSplit DEF ChatInv, chatVars, aiVars, handoffVars, SessionTypes, TransferTypes
    <3>4. ChatTypeOK'
      BY <3>2, <3>3 DEF ChatTypeOK, QueueTypes, SessionTypes, TransferTypes
    <3> QED BY <3>2, <3>4 DEF ChatInv
  <2> QED BY <2>1, <2>2
<1> QED BY <1>1, ChatInitially, PTL DEF ChatSafeSpec

(* Every value of ChatHandoff has its type.                                *)
THEOREM ChatTyped == ChatSafeSpec => []ChatTypeOK
<1>1. ChatInv => ChatTypeOK
  BY DEF ChatInv
<1> QED BY <1>1, ChatInductive, PTL

(* Whatever connects, drops, hands over, times out or dies: a socket's     *)
(* messages reach the thread in the order they were typed and once each,   *)
(* and of a connected visitor's none has disappeared (chat-widget.ts).     *)
THEOREM TextsAreKept == ChatSafeSpec => []TextsKept
<1>1. ChatInv => TextsKept
  BY DEF ChatInv
<1> QED BY <1>1, ChatInductive, PTL
=============================================================================
