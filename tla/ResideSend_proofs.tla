-------------------------- MODULE ResideSend_proofs --------------------------
(* Theorems about ResideSend, for any number of callers, messages, rows,   *)
(* attachments, retries and faults.                                        *)
EXTENDS ResideSend, FiniteSetTheorems, SequenceTheorems, WellFoundedInduction, TLAPS

-----------------------------------------------------------------------------
(* What is of which kind, and that all but what has no key has one row.    *)
Sorted ==
  /\ \A i \in Send : kind[i] \in {"email", "sms", "inbox"}
  /\ \A i \in Text : kind[i] \in {"forwarded", "direct"}
  /\ \A i \in Notice : kind[i] = "notice"

Alone ==
  \A r, s \in 1..made : item[r] = item[s] /\ kind[item[r]] # "direct" => r = s

-----------------------------------------------------------------------------
(* A row says what became of its message: "sent" once the provider took it,*)
(* "failed" if it did not, or if a failure hid that it had, or the provider*)
(* reported so of what it took; and what was handed over or counted more   *)
(* than once is owed to such a failure.                                    *)
Dispatched == {"email", "sms", "notice"}

RowInv(r) ==
  /\ r > made => status[r] = "none" /\ handed[r] = 0
  /\ r \in tracked => r <= made /\ kind[item[r]] \in Dispatched /\ handed[r] > 0
  /\ r \notin tracked => reported[r] = {}
  /\ r <= made /\ status[r] \in {"queued", "sent", "failed"} => kind[item[r]] \in Dispatched
  /\ status[r] \in {"none", "queued"} /\ r \notin tracked => attempts[r] = 0
  /\ status[r] = "sent" => r <= made /\ handed[r] > 0
  /\ status[r] = "failed" =>
       r <= made /\ (IF r \in tracked THEN "failed" \in reported[r] ELSE handed[r] <= unsure[item[r]])
  /\ status[r] = "undelivered" => r <= made /\ "undelivered" \in reported[r]
  /\ status[r] = "delivered" => r <= made /\ (kind[item[r]] = "inbox" \/ "delivered" \in reported[r])
  /\ handed[r] <= 1 + unsure[item[r]]
  /\ attempts[r] <= 1 + unsure[item[r]]

(* A row that is dispatched has one dispatch, which is at the point its    *)
(* row is at.                                                              *)
Carrying == {"attach", "fetching", "send", "record", "refused"}

RowOf(c) == req[c].row

Carried(c) ==
  /\ RowOf(c) \in 1..made /\ item[RowOf(c)] = ItemOf(c)
  /\ KindOf(c) \in Dispatched
  /\ IF RowOf(c) \in tracked THEN pc[c] = "record" ELSE status[RowOf(c)] = "queued"
  /\ pc[c] \in {"attach", "fetching"} => handed[RowOf(c)] = 0
  /\ pc[c] \in {"send", "refused"} => handed[RowOf(c)] <= unsure[ItemOf(c)]
  /\ pc[c] = "record" => handed[RowOf(c)] > 0 /\ attempts[RowOf(c)] <= unsure[ItemOf(c)]

CallerInv(c) ==
  /\ pc[c] \in Carrying => Carried(c)
  /\ pc[c] \in {"lookup", "insert", "existing"} => KindOf(c) # "notice" /\ RowOf(c) = NoRow
  /\ pc[c] = "existing" => KindOf(c) = "forwarded"

Exclusive ==
  \A c, d \in Caller :
    pc[c] \in Carrying /\ pc[d] \in Carrying /\ RowOf(c) = RowOf(d) => c = d

(* An answer rests on the rows of its item, now and for good: the row of a *)
(* refused message is never touched again, and what the provider reported  *)
(* it has reported.                                                        *)
GivenUp(r) == status[r] = "failed" /\ r \notin tracked

HeardInv(i) ==
  /\ heard[i] = "sent" => Accepted(i)
  /\ heard[i] \in {"failed", "undelivered"} =>
       \E r \in RowsOf(i) : heard[i] \in reported[r] \/ (heard[i] = "failed" /\ GivenUp(r))
  /\ heard[i] = "delivered" => kind[i] = "inbox" \/ \E r \in RowsOf(i) : "delivered" \in reported[r]
  /\ heard[i] = "received" => RowsOf(i) # {}

-----------------------------------------------------------------------------
(* A link of an email names its own row, or is one pasted from another.    *)
LinksOwned ==
  /\ body \in Authored
  /\ \A r \in Row : link[r].row \in {NoRow, r} \/ link[r].form = "wrapped"

TapsOwned ==
  /\ \A t \in taps : handed[t[2]] > 0 /\ (t[1] = t[2] \/ link[t[2]].form = "wrapped")
  /\ \A r \in clicked : \E q \in Row : <<r, q>> \in taps

-----------------------------------------------------------------------------
(* Where a recipient stands among the attachments is what the cache says   *)
(* of the references before, each of them settled, and of nothing else.    *)
Stand == [got : SUBSET Ref, total : 0..Budget]

After(k, s, u) ==
  IF k[u] = "got" /\ s.total + SizeOf[u] <= Budget
  THEN [got |-> s.got \cup {u}, total |-> s.total + SizeOf[u]]
  ELSE s

Path(k, f, n) ==
  /\ f \in [1..n -> Stand]
  /\ f[1] = [got |-> {}, total |-> 0]
  /\ \A m \in 1..(n - 1) :
       k[Refs[m]] \in {"got", "dropped"} /\ f[m + 1] = After(k, f[m], Refs[m])

Stands(k, n, s) == \E f \in [1..n -> Stand] : Path(k, f, n) /\ f[n] = s

InNotice(c) == pc[c] \in Carrying /\ KindOf(c) = "notice"

Following(c) ==
  /\ InNotice(c) => Stands(cache, req[c].n, [got |-> req[c].got, total |-> req[c].total])
  /\ InNotice(c) /\ pc[c] \notin {"attach", "fetching"} => req[c].n = Len(Refs) + 1

Fetching(c) ==
  pc[c] = "fetching" =>
    /\ KindOf(c) = "notice" /\ req[c].n <= Len(Refs) /\ cache[Refs[req[c].n]] = "pending"

FetchedOnce ==
  \A c, d \in Caller :
    pc[c] = "fetching" /\ pc[d] = "fetching" /\ Refs[req[c].n] = Refs[req[d].n] => c = d

MailedAlike ==
  \A g \in mailed : \E t \in 0..Budget : Stands(cache, Len(Refs) + 1, [got |-> g, total |-> t])

-----------------------------------------------------------------------------
TableInv ==
  /\ Sorted /\ Alone /\ Exclusive
  /\ \A r \in Row : RowInv(r)
  /\ \A c \in Caller : CallerInv(c)

RowsInv == TableInv /\ (\A i \in Item : HeardInv(i)) /\ QueuedIsHeld

LinkInv == LinksOwned /\ TapsOwned

PassInv ==
  /\ \A c \in Caller : Following(c) /\ Fetching(c)
  /\ FetchedOnce /\ MailedAlike

IInv ==
  /\ TypeOK
  /\ RowsInv
  /\ LinkInv
  /\ PassInv

-----------------------------------------------------------------------------
(* Constants and requests.                                                 *)
LEMMA Constants ==
  /\ AnyItem \in Send /\ AnyItem \in Item
  /\ Cardinality(Notice) \in Nat /\ Cardinality(Notice) \in 0..MaxRows
  /\ Len(Refs) \in Nat /\ DOMAIN Refs = 1..Len(Refs)
  /\ \A n \in 1..Len(Refs) : Refs[n] \in Ref
  /\ 0 \in 0..Budget /\ Retries \in 0..Retries
<1>1. AnyItem \in Send
  BY ItemsAssumption DEF AnyItem
<1>2. Cardinality(Notice) \in Nat
  BY ItemsAssumption, FS_CardinalityType
<1>3. Len(Refs) \in Nat /\ DOMAIN Refs = 1..Len(Refs)
  BY BoundsAssumption, LenProperties
<1>4. \A n \in 1..Len(Refs) : Refs[n] \in Ref
  BY <1>3 DEF Ref
<1>5. 0 \in 0..Budget /\ Retries \in 0..Retries
  BY BoundsAssumption
<1> QED BY <1>1, <1>2, <1>3, <1>4, <1>5, ItemsAssumption, BoundsAssumption DEF Item

LEMMA RequestType ==
  ASSUME NEW i \in Item, NEW r \in Row \cup {NoRow}
  PROVE  [NoRequest EXCEPT !.item = i, !.row = r] \in Requests /\ [NoRequest EXCEPT !.item = i] \in Requests
<1>1. 1 \in 1..(Len(Refs) + 1)
  BY Constants
<1> QED BY <1>1, Constants DEF Requests, NoRequest

LEMMA NoRequestType == NoRequest \in Requests
<1>1. 1 \in 1..(Len(Refs) + 1)
  BY Constants
<1> QED BY <1>1, Constants DEF Requests, NoRequest

Elsewhere(c) == \A d \in Caller : d # c => pc'[d] = pc[d] /\ req'[d] = req[d]

SameJob(c) ==
  /\ req'[c].item = req[c].item /\ req'[c].row = req[c].row /\ req'[c].n = req[c].n
  /\ req'[c].got = req[c].got /\ req'[c].total = req[c].total

CallerTypes == pc \in [Caller -> Steps] /\ req \in [Caller -> Requests]

LEMMA GotoIs ==
  ASSUME CallerTypes, NEW c \in Caller, NEW s \in Steps, Goto(c, s)
  PROVE  CallerTypes' /\ pc'[c] = s /\ Elsewhere(c) /\ SameJob(c)
<1>1. pc' \in [Caller -> Steps] /\ pc'[c] = s
  BY DEF CallerTypes, Goto
<1>2. req' = [req EXCEPT ![c] = [req[c] EXCEPT !.tries = Retries]]
  BY DEF Goto
<1>3. [req[c] EXCEPT !.tries = Retries] \in Requests
  BY Constants DEF CallerTypes, Requests
<1>4. req' \in [Caller -> Requests] /\ req'[c] = [req[c] EXCEPT !.tries = Retries]
  BY <1>2, <1>3 DEF CallerTypes
<1>5. Elsewhere(c)
  BY <1>2 DEF Goto, CallerTypes, Elsewhere
<1>6. SameJob(c)
  BY <1>4 DEF SameJob, CallerTypes, Requests
<1> QED BY <1>1, <1>4, <1>5, <1>6 DEF CallerTypes

LEMMA LeaveIs ==
  ASSUME CallerTypes, NEW c \in Caller, Leave(c)
  PROVE  CallerTypes' /\ pc'[c] = "idle" /\ req'[c] = NoRequest /\ Elsewhere(c)
BY NoRequestType DEF CallerTypes, Leave, Elsewhere, Steps

LEMMA RetryIs ==
  ASSUME CallerTypes, NEW c \in Caller, req[c].tries > 0,
         req' = [req EXCEPT ![c].tries = @ - 1], UNCHANGED pc
  PROVE  CallerTypes' /\ Elsewhere(c) /\ SameJob(c)
<1>1. req' = [req EXCEPT ![c] = [req[c] EXCEPT !.tries = req[c].tries - 1]]
  OBVIOUS
<1>2. req[c] \in Requests
  BY DEF CallerTypes
<1>3. req[c].tries \in 0..Retries
  BY <1>2 DEF Requests
<1>4. req[c].tries - 1 \in 0..Retries
  BY <1>3, BoundsAssumption
<1>5. [req[c] EXCEPT !.tries = req[c].tries - 1] \in Requests
  BY <1>2, <1>4 DEF Requests
<1>6. Elsewhere(c)
  BY <1>1 DEF CallerTypes, Elsewhere
<1>7. SameJob(c)
  BY <1>1, <1>2 DEF CallerTypes, SameJob, Requests
<1> QED BY <1>1, <1>5, <1>6, <1>7 DEF CallerTypes

LEMMA AttachIs ==
  ASSUME CallerTypes, NEW c \in Caller, NEW came \in BOOLEAN, req[c].n \in 1..Len(Refs), Attach(c, came)
  PROVE  LET u == Refs[req[c].n]
             fits == came /\ req[c].total + SizeOf[u] <= Budget IN
         /\ req' \in [Caller -> Requests]
         /\ \A d \in Caller : d # c => req'[d] = req[d]
         /\ req'[c].item = req[c].item /\ req'[c].row = req[c].row
         /\ req'[c].n = req[c].n + 1
         /\ req'[c].got = (IF fits THEN req[c].got \cup {u} ELSE req[c].got)
         /\ req'[c].total = (IF fits THEN req[c].total + SizeOf[u] ELSE req[c].total)
<1> DEFINE u == Refs[req[c].n]
           fits == came /\ req[c].total + SizeOf[u] <= Budget
           N == req[c].n + 1
           G == IF fits THEN req[c].got \cup {u} ELSE req[c].got
           T == IF fits THEN req[c].total + SizeOf[u] ELSE req[c].total
<1>1. req[c] \in Requests
  BY DEF CallerTypes
<1>2. req' = [req EXCEPT ![c] = [req[c] EXCEPT !.n = N, !.got = G, !.total = T]]
  BY DEF Attach
<1>3. N \in 1..(Len(Refs) + 1)
  BY Constants
<1>4. u \in Ref /\ SizeOf[u] \in Nat
  BY Constants, BoundsAssumption
<1>5. req[c].got \in SUBSET Ref /\ req[c].total \in 0..Budget
  BY <1>1 DEF Requests
<1>6. G \in SUBSET Ref
  BY <1>4, <1>5
<1>7. T \in 0..Budget
  BY <1>4, <1>5, BoundsAssumption
<1> HIDE DEF N, G, T
<1>8. [req[c] EXCEPT !.n = N, !.got = G, !.total = T] \in Requests
  BY <1>1, <1>3, <1>6, <1>7 DEF Requests
<1>9. req' \in [Caller -> Requests] /\ req'[c] = [req[c] EXCEPT !.n = N, !.got = G, !.total = T]
  BY <1>2, <1>8 DEF CallerTypes
<1>10. \A d \in Caller : d # c => req'[d] = req[d]
  BY <1>2 DEF CallerTypes
<1>11. /\ req'[c].item = req[c].item /\ req'[c].row = req[c].row
       /\ req'[c].n = N /\ req'[c].got = G /\ req'[c].total = T
  BY <1>1, <1>9 DEF Requests
<1> QED BY <1>9, <1>10, <1>11 DEF N, G, T

LEMMA RespondIs ==
  ASSUME TypeOK, NEW c \in Caller, NEW a \in Answers, Respond(c, a)
  PROVE  /\ CallerTypes' /\ pc'[c] = "idle" /\ req'[c] = NoRequest /\ Elsewhere(c)
         /\ heard' \in [Item -> Answers]
         /\ \A i \in Item : heard'[i] = heard[i] \/ (i = ItemOf(c) /\ heard'[i] = a)
<1>1. CallerTypes
  BY DEF TypeOK, CallerTypes
<1>2. CallerTypes' /\ pc'[c] = "idle" /\ req'[c] = NoRequest /\ Elsewhere(c)
  BY <1>1, LeaveIs DEF Respond
<1>3. heard' = heard \/ heard' = [heard EXCEPT ![ItemOf(c)] = a]
  BY DEF Respond
<1> QED BY <1>2, <1>3 DEF TypeOK

LEMMA FaultIs ==
  ASSUME TypeOK, Fault
  PROVE  faults' \in Nat /\ faults' > 0
BY DEF TypeOK, Fault

LEMMA SetStatusIs ==
  ASSUME TypeOK, NEW c \in Caller, NEW s \in Answers, SetStatus(c, s), RowOf(c) \in Row
  PROVE  /\ status' \in [Row -> Answers] /\ attempts' \in [Row -> Nat]
         /\ status'[RowOf(c)] = s /\ attempts'[RowOf(c)] = attempts[RowOf(c)] + 1
         /\ \A r \in Row : r # RowOf(c) => status'[r] = status[r] /\ attempts'[r] = attempts[r]
         /\ made' = made /\ item' = item
<1>1. attempts[RowOf(c)] + 1 \in Nat
  BY DEF TypeOK
<1> QED BY <1>1 DEF TypeOK, SetStatus, RowOf

LEMMA AddRowIs ==
  ASSUME TypeOK, NEW c \in Caller, AddRow(c)
  PROVE  /\ made + 1 \in Row /\ made' = made + 1 /\ made' \in 0..MaxRows
         /\ item' \in [Row -> Item] /\ status' \in [Row -> Answers]
         /\ item'[made + 1] = ItemOf(c) /\ status'[made + 1] = FirstStatus(c)
         /\ \A r \in Row : r # made + 1 => item'[r] = item[r] /\ status'[r] = status[r]
         /\ attempts' = attempts /\ FirstStatus(c) \in {"delivered", "queued", "received"}
<1>1. FirstStatus(c) \in {"delivered", "queued", "received"}
  BY DEF FirstStatus
<1>2. made + 1 \in Row
  BY BoundsAssumption DEF TypeOK, AddRow, Row
<1>3. ItemOf(c) \in Item
  BY DEF TypeOK, ItemOf, Requests
<1>4. made' = made + 1 /\ made' \in 0..MaxRows
  BY BoundsAssumption DEF TypeOK, AddRow
<1> QED BY <1>1, <1>2, <1>3, <1>4 DEF TypeOK, AddRow, Answers

-----------------------------------------------------------------------------
(* Types.                                                                  *)
LEMMA BeginIs ==
  ASSUME TypeOK, NEW c \in Caller, NEW i \in Item, NEW s \in Steps, Begin(c, i, s)
  PROVE  /\ CallerTypes' /\ pc[c] = "idle" /\ pc'[c] = s /\ Elsewhere(c)
         /\ req'[c].item = i /\ req'[c].row = NoRow
         /\ calls' \in Nat
         /\ UNCHANGED <<kind, tableVars, trackVars, passVars, heard, histVars, faults, crashes, reportVars>>
<1>1. req' = [req EXCEPT ![c] = [NoRequest EXCEPT !.item = i]] /\ pc' = [pc EXCEPT ![c] = s]
  BY DEF Begin
<1>2. [NoRequest EXCEPT !.item = i] \in Requests
  BY RequestType
<1>3. CallerTypes' /\ pc'[c] = s /\ Elsewhere(c) /\ req'[c] = [NoRequest EXCEPT !.item = i]
  BY <1>1, <1>2 DEF TypeOK, CallerTypes, Elsewhere
<1>4. req'[c].item = i /\ req'[c].row = NoRow
  BY <1>3 DEF NoRequest
<1>5. pc[c] = "idle" /\ calls' \in Nat
  BY DEF TypeOK, Begin
<1> QED BY <1>3, <1>4, <1>5 DEF Begin

LEMMA BeginNoticeIs ==
  ASSUME TypeOK, NEW c \in Caller, NEW r \in Row, BeginNotice(c, r)
  PROVE  /\ CallerTypes' /\ pc[c] = "idle" /\ pc'[c] = "attach" /\ Elsewhere(c)
         /\ req'[c].item = item[r] /\ req'[c].row = r
         /\ req'[c].n = 1 /\ req'[c].got = {} /\ req'[c].total = 0
         /\ calls' \in Nat
         /\ UNCHANGED <<kind, tableVars, trackVars, passVars, heard, histVars, faults, crashes, reportVars>>
<1>1. /\ req' = [req EXCEPT ![c] = [NoRequest EXCEPT !.item = item[r], !.row = r]]
      /\ pc' = [pc EXCEPT ![c] = "attach"]
  BY DEF BeginNotice
<1>2. [NoRequest EXCEPT !.item = item[r], !.row = r] \in Requests
  BY RequestType DEF TypeOK
<1>3. /\ CallerTypes' /\ pc'[c] = "attach" /\ Elsewhere(c)
      /\ req'[c] = [NoRequest EXCEPT !.item = item[r], !.row = r]
  BY <1>1, <1>2 DEF TypeOK, CallerTypes, Elsewhere, Steps
<1>4. /\ req'[c].item = item[r] /\ req'[c].row = r
      /\ req'[c].n = 1 /\ req'[c].got = {} /\ req'[c].total = 0
  BY <1>3 DEF NoRequest
<1>5. pc[c] = "idle" /\ calls' \in Nat
  BY DEF TypeOK, BeginNotice
<1> QED BY <1>3, <1>4, <1>5 DEF BeginNotice

LEMMA BeginTypes ==
  ASSUME TypeOK, NEW c \in Caller,
         (\E i \in Item : BeginSend(c, i) \/ BeginForwarded(c, i) \/ BeginText(c, i) \/ BeginMail(c, i))
         \/ (\E r \in Row : BeginNotice(c, r))
  PROVE  TypeOK'
<1>1. ASSUME NEW i \in Item, NEW s \in Steps, Begin(c, i, s)
      PROVE  TypeOK'
  BY <1>1, BeginIs DEF TypeOK, CallerTypes, tableVars, trackVars, passVars, histVars, reportVars
<1>2. ASSUME NEW r \in Row, BeginNotice(c, r)
      PROVE  TypeOK'
  BY <1>2, BeginNoticeIs DEF TypeOK, CallerTypes, tableVars, trackVars, passVars, histVars, reportVars
<1>3. "lookup" \in Steps /\ "insert" \in Steps
  BY DEF Steps
<1> QED BY <1>1, <1>2, <1>3 DEF BeginSend, BeginForwarded, BeginText, BeginMail

LEMMA InsertedIs ==
  ASSUME TypeOK, NEW c \in Caller, made + 1 \in Row, Inserted(c), FirstStatus(c) \in {"delivered", "queued", "received"}
  PROVE  /\ CallerTypes' /\ Elsewhere(c) /\ heard' \in [Item -> Answers]
         /\ \/ /\ KindOf(c) \in {"email", "sms"}
               /\ pc'[c] \in {"attach", "send"}
               /\ req'[c].item = ItemOf(c) /\ req'[c].row = made + 1
               /\ heard' = heard
            \/ /\ KindOf(c) \notin {"email", "sms"}
               /\ pc'[c] = "idle" /\ req'[c] = NoRequest
               /\ \A i \in Item : heard'[i] = heard[i] \/ (i = ItemOf(c) /\ heard'[i] = FirstStatus(c))
<1>1. CASE KindOf(c) \in {"email", "sms"}
  <2>1. /\ req' = [req EXCEPT ![c] = [req[c] EXCEPT !.row = made + 1]] /\ heard' = heard
        /\ pc' = [pc EXCEPT ![c] = IF KindOf(c) = "email" THEN "attach" ELSE "send"]
    BY <1>1 DEF Inserted
  <2>2. req[c] \in Requests
    BY DEF TypeOK
  <2>3. [req[c] EXCEPT !.row = made + 1] \in Requests
    BY <2>2 DEF Requests
  <2>4. req' \in [Caller -> Requests] /\ req'[c] = [req[c] EXCEPT !.row = made + 1]
    BY <2>1, <2>3 DEF TypeOK
  <2>5. pc' \in [Caller -> Steps] /\ pc'[c] \in {"attach", "send"} /\ Elsewhere(c)
    BY <2>1 DEF TypeOK, Steps, Elsewhere
  <2>6. req'[c].item = ItemOf(c) /\ req'[c].row = made + 1
    BY <2>2, <2>4 DEF Requests, ItemOf
  <2> QED BY <1>1, <2>1, <2>4, <2>5, <2>6 DEF CallerTypes, TypeOK
<1>2. CASE KindOf(c) \notin {"email", "sms"}
  <2>1. Respond(c, FirstStatus(c)) /\ FirstStatus(c) \in Answers
    BY <1>2 DEF Inserted, Answers
  <2> QED BY <1>2, <2>1, RespondIs
<1> QED BY <1>1, <1>2

LEMMA InsertThrewIs ==
  ASSUME TypeOK, NEW c \in Caller, InsertThrew(c)
  PROVE  /\ CallerTypes' /\ Elsewhere(c) /\ heard' = heard
         /\ \/ /\ KindOf(c) = "forwarded" /\ pc'[c] = "existing"
               /\ req'[c].item = ItemOf(c) /\ req'[c].row = RowOf(c)
            \/ pc'[c] = "idle" /\ req'[c] = NoRequest
<1>1. CallerTypes
  BY DEF TypeOK, CallerTypes
<1>2. CASE KindOf(c) = "forwarded"
  <2>1. Goto(c, "existing") /\ heard' = heard /\ "existing" \in Steps
    BY <1>2 DEF InsertThrew, Steps
  <2> QED BY <1>1, <1>2, <2>1, GotoIs DEF SameJob, ItemOf, RowOf
<1>3. CASE KindOf(c) # "forwarded"
  BY <1>1, <1>3, LeaveIs DEF InsertThrew, Throw
<1> QED BY <1>2, <1>3

LEMMA InsertTypes ==
  ASSUME TypeOK, NEW c \in Caller, Insert(c)
  PROVE  TypeOK'
<1>0. UNCHANGED <<kind, trackVars, passVars, handed, unsure, calls, crashes, reportVars>>
  BY DEF Insert
<1>1. CallerTypes' /\ heard' \in [Item -> Answers]
  <2>1. CASE InsertThrew(c)
    BY <2>1, InsertThrewIs DEF TypeOK
  <2>2. CASE AddRow(c) /\ Inserted(c)
    BY <2>2, AddRowIs, InsertedIs
  <2> QED BY <2>1, <2>2 DEF Insert
<1>2. /\ made' \in 0..MaxRows /\ item' \in [Row -> Item] /\ status' \in [Row -> Answers]
      /\ attempts' \in [Row -> Nat]
  <2>1. CASE AddRow(c)
    BY <2>1, AddRowIs DEF TypeOK
  <2>2. CASE UNCHANGED tableVars
    BY <2>2 DEF TypeOK, tableVars
  <2> QED BY <2>1, <2>2 DEF Insert
<1>3. faults' \in Nat
  BY FaultIs DEF Insert, TypeOK
<1> QED BY <1>0, <1>1, <1>2, <1>3 DEF TypeOK, CallerTypes, trackVars, passVars, reportVars

LEMMA LookupTypes ==
  ASSUME TypeOK, NEW c \in Caller, Lookup(c)
  PROVE  TypeOK'
<1>0. CallerTypes /\ "insert" \in Steps
  BY DEF TypeOK, CallerTypes, Steps
<1>1. CallerTypes' /\ heard' \in [Item -> Answers]
  <2>1. ASSUME NEW r \in RowsOf(ItemOf(c)), Respond(c, status[r])
        PROVE  CallerTypes' /\ heard' \in [Item -> Answers]
    <3>1. status[r] \in Answers
      BY BoundsAssumption DEF TypeOK, RowsOf, Row
    <3> QED BY <2>1, <3>1, RespondIs
  <2>2. CASE Goto(c, "insert") /\ UNCHANGED heard
    BY <1>0, <2>2, GotoIs DEF TypeOK
  <2>3. CASE Throw(c)
    BY <1>0, <2>3, LeaveIs DEF Throw, TypeOK
  <2> QED BY <2>1, <2>2, <2>3 DEF Lookup
<1>2. faults' \in Nat
  BY FaultIs DEF Lookup, TypeOK
<1> QED BY <1>1, <1>2 DEF Lookup, TypeOK, CallerTypes, tableVars, trackVars, passVars, histVars, reportVars

LEMMA ExistingTypes ==
  ASSUME TypeOK, NEW c \in Caller, Existing(c)
  PROVE  TypeOK'
<1>0. CallerTypes /\ "received" \in Answers
  BY DEF TypeOK, CallerTypes, Answers
<1>1. CallerTypes' /\ heard' \in [Item -> Answers]
  <2>1. CASE Throw(c)
    BY <1>0, <2>1, LeaveIs DEF Throw, TypeOK
  <2>2. CASE Respond(c, "received")
    BY <1>0, <2>2, RespondIs
  <2> QED BY <2>1, <2>2 DEF Existing
<1>2. UNCHANGED <<kind, tableVars, trackVars, passVars, histVars, budgetVars, reportVars>>
  BY DEF Existing
<1> QED BY <1>1, <1>2 DEF TypeOK, CallerTypes, tableVars, trackVars, passVars, histVars, budgetVars, reportVars

LEMMA AttachTypes ==
  ASSUME TypeOK, NEW c \in Caller, Fetching(c), Fetch(c) \/ Fetched(c) \/ FromCache(c)
  PROVE  TypeOK'
<1>0. CallerTypes /\ req[c] \in Requests
  BY DEF TypeOK, CallerTypes
<1>1. ASSUME req[c].n <= Len(Refs)
      PROVE  req[c].n \in 1..Len(Refs) /\ Refs[req[c].n] \in Ref
  <2>1. req[c].n \in 1..(Len(Refs) + 1)
    BY <1>0 DEF Requests
  <2>2. req[c].n \in 1..Len(Refs)
    BY <1>1, <2>1, Constants
  <2> QED BY <2>2, Constants
<1>2. CASE Fetch(c)
  <2>1. cache' \in [Ref -> {"none", "pending", "got", "dropped"}]
    BY <1>2 DEF Fetch, Promised, TypeOK
  <2>2. pc' \in [Caller -> Steps]
    BY <1>2 DEF Fetch, TypeOK, Steps
  <2> QED BY <1>2, <2>1, <2>2 DEF Fetch, TypeOK, tableVars, trackVars, histVars, budgetVars, reportVars
<1>3. CASE Fetched(c)
  <2>1. PICK came \in BOOLEAN :
          /\ cache' = [cache EXCEPT ![Refs[req[c].n]] = IF came THEN "got" ELSE "dropped"]
          /\ Attach(c, came)
    BY <1>3 DEF Fetched
  <2>2. cache' \in [Ref -> {"none", "pending", "got", "dropped"}]
    BY <2>1 DEF TypeOK
  <2>3. pc' \in [Caller -> Steps]
    BY <1>3 DEF Fetched, TypeOK, Steps
  <2>4. req[c].n \in 1..Len(Refs)
    BY <1>1, <1>3 DEF Fetched, Fetching
  <2>5. req' \in [Caller -> Requests]
    BY <1>0, <2>1, <2>4, AttachIs
  <2> QED BY <1>3, <2>2, <2>3, <2>5 DEF Fetched, TypeOK, tableVars, trackVars, histVars, budgetVars, reportVars
<1>4. CASE FromCache(c)
  <2>1. req[c].n \in 1..Len(Refs)
    BY <1>1, <1>4 DEF FromCache, Attaching
  <2>2. PICK came \in BOOLEAN : Attach(c, came)
    BY <1>4 DEF FromCache
  <2>3. req' \in [Caller -> Requests]
    BY <1>0, <2>1, <2>2, AttachIs
  <2> QED BY <1>4, <2>3 DEF FromCache, TypeOK, tableVars, trackVars, passVars, histVars, budgetVars, reportVars
<1> QED BY <1>2, <1>3, <1>4

LEMMA ComposeIs ==
  ASSUME TypeOK, LinksOwned, NEW c \in Caller, Compose(c), RowOf(c) \in Row
  PROVE  /\ CallerTypes' /\ pc'[c] = "send" /\ Elsewhere(c) /\ SameJob(c)
         /\ link' \in [Row -> Links]
         /\ \A r \in Row : r # RowOf(c) => link'[r] = link[r]
         /\ link'[RowOf(c)].row = RowOf(c) \/ link'[RowOf(c)].form = "wrapped"
<1>0. CallerTypes /\ "send" \in Steps
  BY DEF TypeOK, CallerTypes, Steps
<1>1. CallerTypes' /\ pc'[c] = "send" /\ Elsewhere(c) /\ SameJob(c)
  BY <1>0, GotoIs DEF Compose
<1>2. Authored \subseteq Links
  BY DEF Authored, Links
<1>3. PICK w \in Links : link' = [link EXCEPT ![RowOf(c)] = Tokened(w, RowOf(c))]
  <2>1. Written \subseteq Links
    BY <1>2 DEF Written, TypeOK
  <2>2. body \in Links
    BY DEF TypeOK
  <2> QED BY <2>1, <2>2 DEF Compose, RowOf
<1>4. Tokened(w, RowOf(c)) \in Links
  BY DEF Tokened, Links
<1>5. Tokened(w, RowOf(c)).row = RowOf(c) \/ Tokened(w, RowOf(c)).form = "wrapped"
  BY DEF Tokened, Links
<1>6. link'[RowOf(c)] = Tokened(w, RowOf(c)) /\ \A r \in Row : r # RowOf(c) => link'[r] = link[r]
  BY <1>3 DEF TypeOK
<1> QED BY <1>1, <1>3, <1>4, <1>5, <1>6 DEF TypeOK

(* What the hand-over does to a row and to what is known of its item.      *)
LEMMA HandOverIs ==
  ASSUME TypeOK, NEW c \in Caller, HandOver(c), RowOf(c) \in Row
  PROVE  /\ CallerTypes' /\ Elsewhere(c) /\ SameJob(c) /\ pc'[c] \in {"send", "record", "refused"}
         /\ handed' \in [Row -> Nat] /\ unsure' \in [Item -> Nat]
         /\ \A r \in Row : r # RowOf(c) => handed'[r] = handed[r]
         /\ \A i \in Item : unsure'[i] >= unsure[i]
         /\ handed'[RowOf(c)] \in {handed[RowOf(c)], handed[RowOf(c)] + 1}
         /\ pc'[c] = "record" => handed'[RowOf(c)] = handed[RowOf(c)] + 1 /\ unsure' = unsure
         /\ pc'[c] # "record" =>
              handed'[RowOf(c)] = handed[RowOf(c)] \/ unsure'[ItemOf(c)] = unsure[ItemOf(c)] + 1
         /\ mailed' = mailed \/ (KindOf(c) = "notice" /\ mailed' = mailed \cup {req[c].got})
         /\ faults' \in Nat
<1>0. CallerTypes /\ "record" \in Steps /\ "refused" \in Steps /\ ItemOf(c) \in Item /\ pc[c] = "send"
  BY DEF TypeOK, CallerTypes, Steps, ItemOf, Requests, HandOver
<1>1. ASSUME Taken(c)
      PROVE  /\ handed' \in [Row -> Nat] /\ handed'[RowOf(c)] = handed[RowOf(c)] + 1
             /\ \A r \in Row : r # RowOf(c) => handed'[r] = handed[r]
             /\ mailed' = mailed \/ (KindOf(c) = "notice" /\ mailed' = mailed \cup {req[c].got})
  BY <1>1 DEF TypeOK, Taken, RowOf
<1>2. ASSUME UNCHANGED <<handed, mailed>>
      PROVE  /\ handed' \in [Row -> Nat] /\ handed'[RowOf(c)] = handed[RowOf(c)]
             /\ \A r \in Row : r # RowOf(c) => handed'[r] = handed[r]
             /\ mailed' = mailed \/ (KindOf(c) = "notice" /\ mailed' = mailed \cup {req[c].got})
  BY <1>2 DEF TypeOK
<1>3. ASSUME unsure' = unsure
      PROVE  unsure' \in [Item -> Nat] /\ \A i \in Item : unsure'[i] >= unsure[i]
  BY <1>3 DEF TypeOK
<1>4. CASE Taken(c) /\ Goto(c, "record") /\ UNCHANGED <<unsure, faults>>
  <2>1. CallerTypes' /\ Elsewhere(c) /\ SameJob(c) /\ pc'[c] = "record"
    BY <1>0, <1>4, GotoIs
  <2> QED BY <1>1, <1>3, <1>4, <2>1 DEF TypeOK
<1>5. CASE Goto(c, "refused") /\ UNCHANGED <<handed, mailed, unsure, faults>>
  <2>1. CallerTypes' /\ Elsewhere(c) /\ SameJob(c) /\ pc'[c] = "refused"
    BY <1>0, <1>5, GotoIs
  <2> QED BY <1>2, <1>3, <1>5, <2>1 DEF TypeOK
<1>6. CASE /\ Fault
           /\ unsure' = [unsure EXCEPT ![ItemOf(c)] = @ + 1]
           /\ Taken(c) \/ UNCHANGED <<handed, mailed>>
           /\ \/ req[c].tries > 0 /\ req' = [req EXCEPT ![c].tries = @ - 1] /\ UNCHANGED pc
              \/ Goto(c, "refused")
  <2>1. CallerTypes' /\ Elsewhere(c) /\ SameJob(c) /\ pc'[c] \in {"send", "refused"}
    BY <1>0, <1>6, GotoIs, RetryIs
  <2>2. unsure[ItemOf(c)] + 1 \in Nat /\ unsure[ItemOf(c)] + 1 >= unsure[ItemOf(c)]
    BY <1>0 DEF TypeOK
  <2>3. /\ unsure' \in [Item -> Nat] /\ unsure'[ItemOf(c)] = unsure[ItemOf(c)] + 1
        /\ \A i \in Item : unsure'[i] >= unsure[i]
    BY <1>0, <1>6, <2>2 DEF TypeOK
  <2>4. faults' \in Nat
    BY <1>6, FaultIs
  <2> QED BY <1>1, <1>2, <1>6, <2>1, <2>3, <2>4
<1> QED BY <1>4, <1>5, <1>6 DEF HandOver

(* What recording does to a row, and to what is known of its item.         *)
LEMMA RecordIs ==
  ASSUME TypeOK, NEW c \in Caller, Record(c), RowOf(c) \in Row
  PROVE  /\ CallerTypes' /\ Elsewhere(c) /\ heard' \in [Item -> Answers]
         /\ status' \in [Row -> Answers] /\ attempts' \in [Row -> Nat] /\ unsure' \in [Item -> Nat]
         /\ made' = made /\ item' = item /\ faults' \in Nat
         /\ \A r \in Row : r # RowOf(c) => status'[r] = status[r] /\ attempts'[r] = attempts[r]
         /\ \A i \in Item : unsure'[i] >= unsure[i]
         /\ \A i \in Item : heard'[i] = heard[i] \/ (i = ItemOf(c) /\ heard'[i] = "sent")
         /\ tracked' \in SUBSET Row /\ reported' = reported
         /\ \/ /\ status'[RowOf(c)] = status[RowOf(c)] /\ attempts'[RowOf(c)] = attempts[RowOf(c)] /\ faults' > 0
               /\ tracked' = tracked
            \/ /\ status'[RowOf(c)] = "sent" /\ attempts'[RowOf(c)] = attempts[RowOf(c)] + 1
               /\ tracked' = tracked \cup {RowOf(c)}
               /\ pc'[c] = "idle" \/ unsure'[ItemOf(c)] = unsure[ItemOf(c)] + 1
         /\ (pc'[c] = "record" /\ SameJob(c)) \/ (pc'[c] = "idle" /\ req'[c] = NoRequest)
<1>0. CallerTypes /\ "sent" \in Answers /\ ItemOf(c) \in Item /\ pc[c] = "record"
  BY DEF TypeOK, CallerTypes, Answers, ItemOf, Requests, Record
<1>a. ASSUME SetSent(c)
      PROVE  SetStatus(c, "sent") /\ tracked' = tracked \cup {RowOf(c)} /\ tracked' \in SUBSET Row
  BY <1>a DEF SetSent, TypeOK, RowOf
<1>b. reported' = reported
  BY DEF Record
<1>1. CASE SetSent(c) /\ Respond(c, "sent") /\ UNCHANGED <<unsure, faults>>
  <2>1. /\ unsure' \in [Item -> Nat] /\ faults' \in Nat /\ \A i \in Item : unsure'[i] >= unsure[i]
    BY <1>1 DEF TypeOK
  <2> QED BY <1>0, <1>a, <1>b, <1>1, <2>1, SetStatusIs, RespondIs
<1>2. CASE /\ Fault
           /\ \/ SetSent(c) /\ unsure' = [unsure EXCEPT ![ItemOf(c)] = @ + 1]
              \/ UNCHANGED <<tableVars, tracked, unsure>>
           /\ \/ req[c].tries > 0 /\ req' = [req EXCEPT ![c].tries = @ - 1] /\ UNCHANGED <<pc, heard>>
              \/ req[c].tries = 0 /\ Respond(c, Unrecorded(c))
  <2>1. faults' \in Nat /\ faults' > 0
    BY <1>2, FaultIs
  <2>2. /\ CallerTypes' /\ Elsewhere(c) /\ heard' \in [Item -> Answers]
        /\ \A i \in Item : heard'[i] = heard[i] \/ (i = ItemOf(c) /\ heard'[i] = "sent")
        /\ (pc'[c] = "record" /\ SameJob(c)) \/ (pc'[c] = "idle" /\ req'[c] = NoRequest)
    <3>1. CASE req[c].tries > 0 /\ req' = [req EXCEPT ![c].tries = @ - 1] /\ UNCHANGED <<pc, heard>>
      BY <1>0, <3>1, RetryIs DEF TypeOK
    <3>2. CASE Respond(c, "sent")
      BY <1>0, <3>2, RespondIs
    <3> QED BY <1>2, <3>1, <3>2 DEF Unrecorded
  <2>3. CASE SetSent(c) /\ unsure' = [unsure EXCEPT ![ItemOf(c)] = @ + 1]
    <3>1. unsure[ItemOf(c)] + 1 \in Nat /\ unsure[ItemOf(c)] + 1 >= unsure[ItemOf(c)]
      BY <1>0 DEF TypeOK
    <3>2. /\ unsure' \in [Item -> Nat] /\ unsure'[ItemOf(c)] = unsure[ItemOf(c)] + 1
          /\ \A i \in Item : unsure'[i] >= unsure[i]
      BY <1>0, <2>3, <3>1 DEF TypeOK
    <3> QED BY <1>0, <1>a, <1>b, <2>1, <2>2, <2>3, <3>2, SetStatusIs
  <2>4. CASE UNCHANGED <<tableVars, tracked, unsure>>
    <3>1. /\ unsure' \in [Item -> Nat] /\ \A i \in Item : unsure'[i] >= unsure[i]
          /\ status' \in [Row -> Answers] /\ attempts' \in [Row -> Nat] /\ tracked' \in SUBSET Row
      BY <2>4 DEF TypeOK, tableVars
    <3> QED BY <1>b, <2>1, <2>2, <2>4, <3>1 DEF tableVars
  <2> QED BY <1>2, <2>3, <2>4
<1> QED BY <1>1, <1>2 DEF Record

LEMMA RecordRefusedIs ==
  ASSUME TypeOK, NEW c \in Caller, RecordRefused(c), RowOf(c) \in Row
  PROVE  /\ CallerTypes' /\ Elsewhere(c) /\ pc'[c] = "idle" /\ req'[c] = NoRequest
         /\ heard' \in [Item -> Answers]
         /\ status' \in [Row -> Answers] /\ attempts' \in [Row -> Nat]
         /\ made' = made /\ item' = item /\ faults' \in Nat
         /\ \A r \in Row : r # RowOf(c) => status'[r] = status[r] /\ attempts'[r] = attempts[r]
         /\ \A i \in Item :
              heard'[i] = heard[i]
              \/ (i = ItemOf(c) /\ heard'[i] = "failed" /\ status'[RowOf(c)] = "failed")
         /\ \/ status'[RowOf(c)] = status[RowOf(c)] /\ attempts'[RowOf(c)] = attempts[RowOf(c)] /\ faults' > 0
            \/ status'[RowOf(c)] = "failed" /\ attempts'[RowOf(c)] = attempts[RowOf(c)] + 1
<1>0. CallerTypes /\ "failed" \in Answers
  BY DEF TypeOK, CallerTypes, Answers
<1>1. CASE SetStatus(c, "failed") /\ Respond(c, "failed") /\ UNCHANGED faults
  <2>1. faults' \in Nat
    BY <1>1 DEF TypeOK
  <2> QED BY <1>0, <1>1, <2>1, SetStatusIs, RespondIs
<1>2. CASE Fault /\ Throw(c) /\ (SetStatus(c, "failed") \/ UNCHANGED tableVars)
  <2>1. faults' \in Nat /\ faults' > 0
    BY <1>2, FaultIs
  <2>2. /\ CallerTypes' /\ Elsewhere(c) /\ pc'[c] = "idle" /\ req'[c] = NoRequest
        /\ heard' = heard /\ heard' \in [Item -> Answers]
    BY <1>0, <1>2, LeaveIs DEF Throw, TypeOK
  <2>3. CASE SetStatus(c, "failed")
    BY <1>0, <2>1, <2>2, <2>3, SetStatusIs
  <2>4. CASE UNCHANGED tableVars
    <3>1. status' \in [Row -> Answers] /\ attempts' \in [Row -> Nat]
      BY <2>4 DEF TypeOK, tableVars
    <3> QED BY <2>1, <2>2, <2>4, <3>1 DEF tableVars
  <2> QED BY <1>2, <2>3, <2>4
<1> QED BY <1>1, <1>2 DEF RecordRefused

LEMMA DispatchTypes ==
  ASSUME TypeOK, LinksOwned, NEW c \in Caller, RowOf(c) \in Row,
         Compose(c) \/ HandOver(c) \/ Record(c) \/ RecordRefused(c)
  PROVE  TypeOK'
<1>1. CASE Compose(c)
  BY <1>1, ComposeIs DEF Compose, TypeOK, CallerTypes, tableVars, passVars, histVars, budgetVars, reportVars
<1>2. CASE HandOver(c)
  <2>1. req[c].got \in SUBSET Ref
    BY DEF TypeOK, Requests
  <2>2. mailed' \in SUBSET SUBSET Ref
    BY <1>2, <2>1, HandOverIs DEF TypeOK
  <2> QED BY <1>2, <2>2, HandOverIs DEF HandOver, TypeOK, CallerTypes, tableVars, trackVars, reportVars
<1>3. CASE Record(c)
  BY <1>3, RecordIs DEF Record, TypeOK, CallerTypes, trackVars, passVars
<1>4. CASE RecordRefused(c)
  BY <1>4, RecordRefusedIs DEF RecordRefused, TypeOK, CallerTypes, trackVars, passVars, histVars, reportVars
<1> QED BY <1>1, <1>2, <1>3, <1>4

LEMMA OtherTypes ==
  ASSUME TypeOK, NextPass \/ Crash \/ (\E r \in Row : Tap(r)) \/ \E r \in Row, s \in Answers : DeliveryReport(r, s)
  PROVE  TypeOK'
<1>1. CASE NextPass
  BY <1>1 DEF NextPass, TypeOK, tableVars, trackVars, histVars, budgetVars, reportVars
<1>2. CASE Crash
  BY <1>2, NoRequestType DEF Crash, TypeOK, tableVars, trackVars, histVars, reportVars, Steps
<1>3. ASSUME NEW r \in Row, Tap(r)
      PROVE  TypeOK'
  <2>1. link[r].row \in Row
    BY <1>3 DEF TypeOK, Links, Tap
  <2>2. taps' \in SUBSET (Row \X Row) /\ clicked' \in SUBSET Row
    BY <1>3, <2>1 DEF TypeOK, Tap
  <2> QED BY <1>3, <2>2 DEF Tap, TypeOK, tableVars, passVars, histVars, budgetVars, reportVars
<1>4. ASSUME NEW r \in Row, NEW s \in Answers, DeliveryReport(r, s)
      PROVE  TypeOK'
  <2>1. status' \in [Row -> Answers] /\ reported' \in [Row -> SUBSET Answers]
    BY <1>4 DEF TypeOK, DeliveryReport
  <2> QED BY <1>4, <2>1 DEF DeliveryReport, TypeOK, trackVars, passVars, histVars, budgetVars
<1> QED BY <1>1, <1>2, <1>3, <1>4

-----------------------------------------------------------------------------
(* Links and clicks.                                                       *)
LEMMA LinksKept ==
  ASSUME TypeOK, LinkInv, UNCHANGED trackVars, \A r \in Row : handed'[r] >= handed[r], handed' \in [Row -> Nat]
  PROVE  LinkInv'
<1>1. LinksOwned'
  BY DEF LinkInv, LinksOwned, trackVars
<1>2. TapsOwned'
  <2>1. ASSUME NEW t \in taps
        PROVE  handed'[t[2]] > 0 /\ (t[1] = t[2] \/ link[t[2]].form = "wrapped")
    <3>1. t[2] \in Row
      BY DEF TypeOK
    <3>2. handed[t[2]] > 0 /\ (t[1] = t[2] \/ link[t[2]].form = "wrapped")
      BY DEF LinkInv, TapsOwned
    <3>3. handed'[t[2]] >= handed[t[2]] /\ handed'[t[2]] \in Nat /\ handed[t[2]] \in Nat
      BY <3>1 DEF TypeOK
    <3> QED BY <3>2, <3>3
  <2> QED BY <2>1 DEF LinkInv, TapsOwned, trackVars
<1> QED BY <1>1, <1>2 DEF LinkInv

LEMMA RowsExist ==
  ASSUME TypeOK
  PROVE  1..made \subseteq Row
BY BoundsAssumption DEF TypeOK, Row

LEMMA ComposeLinks ==
  ASSUME TypeOK, LinkInv, NEW c \in Caller, CallerInv(c), Compose(c)
  PROVE  LinkInv'
<1>1. RowOf(c) \in Row /\ handed[RowOf(c)] = 0
  BY RowsExist DEF Compose, CallerInv, Carried, Carrying
<1>2. /\ \A r \in Row : r # RowOf(c) => link'[r] = link[r]
      /\ link'[RowOf(c)].row = RowOf(c) \/ link'[RowOf(c)].form = "wrapped"
  BY <1>1, ComposeIs DEF LinkInv
<1>3. UNCHANGED <<taps, body, clicked, handed>>
  BY DEF Compose, histVars
<1>4. LinksOwned'
  BY <1>2, <1>3 DEF LinkInv, LinksOwned
<1>5. ASSUME NEW t \in taps
      PROVE  handed[t[2]] > 0 /\ (t[1] = t[2] \/ link'[t[2]].form = "wrapped")
  <2>1. t[2] \in Row
    BY DEF TypeOK
  <2>2. handed[t[2]] > 0 /\ (t[1] = t[2] \/ link[t[2]].form = "wrapped")
    BY DEF LinkInv, TapsOwned
  <2>3. t[2] # RowOf(c)
    BY <1>1, <2>2
  <2> QED BY <1>2, <2>1, <2>2, <2>3
<1>6. TapsOwned'
  BY <1>3, <1>5 DEF LinkInv, TapsOwned
<1> QED BY <1>4, <1>6 DEF LinkInv

LEMMA TapLinks ==
  ASSUME TypeOK, LinkInv, NEW r \in Row, Tap(r)
  PROVE  LinkInv'
<1>1. /\ handed[r] > 0 /\ link[r].row # NoRow
      /\ taps' = taps \cup {<<link[r].row, r>>} /\ clicked' = clicked \cup {link[r].row}
      /\ UNCHANGED <<link, body, handed>>
  BY DEF Tap, histVars
<1>2. link[r].row = r \/ link[r].form = "wrapped"
  BY <1>1 DEF LinkInv, LinksOwned
<1>3. LinksOwned'
  BY <1>1 DEF LinkInv, LinksOwned
<1>4. ASSUME NEW t \in taps'
      PROVE  handed[t[2]] > 0 /\ (t[1] = t[2] \/ link[t[2]].form = "wrapped")
  <2>1. CASE t \in taps
    BY <2>1 DEF LinkInv, TapsOwned
  <2>2. CASE t = <<link[r].row, r>>
    BY <1>1, <1>2, <2>2
  <2> QED BY <1>1, <2>1, <2>2
<1>5. \A q \in clicked' : \E s \in Row : <<q, s>> \in taps'
  BY <1>1 DEF LinkInv, TapsOwned
<1>6. TapsOwned'
  BY <1>1, <1>4, <1>5 DEF TapsOwned
<1> QED BY <1>3, <1>6 DEF LinkInv

-----------------------------------------------------------------------------
(* The attachments of a notice: a path extends by one reference, lasts as  *)
(* long as what is settled stays, and has one end only.                    *)
SettledKept == \A u \in Ref : cache[u] \in {"got", "dropped"} => cache'[u] = cache[u]

LEMMA StandsKept ==
  ASSUME NEW k, NEW l, \A u \in Ref : k[u] \in {"got", "dropped"} => l[u] = k[u],
         NEW n \in 1..(Len(Refs) + 1), NEW s, Stands(k, n, s)
  PROVE  Stands(l, n, s)
<1>1. PICK f \in [1..n -> Stand] : Path(k, f, n) /\ f[n] = s
  BY DEF Stands
<1>2. ASSUME NEW m \in 1..(n - 1)
      PROVE  l[Refs[m]] \in {"got", "dropped"} /\ f[m + 1] = After(l, f[m], Refs[m])
  <2>1. k[Refs[m]] \in {"got", "dropped"} /\ f[m + 1] = After(k, f[m], Refs[m])
    BY <1>1 DEF Path
  <2>2. m \in 1..Len(Refs)
    BY Constants
  <2>3. l[Refs[m]] = k[Refs[m]]
    BY <2>1, <2>2, Constants
  <2> QED BY <2>1, <2>3 DEF After
<1>3. Path(l, f, n)
  BY <1>1, <1>2 DEF Path
<1> QED BY <1>1, <1>3 DEF Stands

LEMMA StandsAtStart == \A k : Stands(k, 1, [got |-> {}, total |-> 0])
<1> DEFINE f == [m \in 1..1 |-> [got |-> {}, total |-> 0]]
<1>1. [got |-> {}, total |-> 0] \in Stand
  BY Constants DEF Stand
<1>2. f \in [1..1 -> Stand] /\ f[1] = [got |-> {}, total |-> 0]
  BY <1>1
<1>3. 1..(1 - 1) = {}
  OBVIOUS
<1> HIDE DEF f
<1>4. \A k : Path(k, f, 1)
  BY <1>2, <1>3 DEF Path
<1> QED BY <1>2, <1>4 DEF Stands

LEMMA StandsNext ==
  ASSUME NEW k, NEW n \in 1..Len(Refs), NEW s, Stands(k, n, s), k[Refs[n]] \in {"got", "dropped"}
  PROVE  Stands(k, n + 1, After(k, s, Refs[n]))
<1>1. PICK f \in [1..n -> Stand] : Path(k, f, n) /\ f[n] = s
  BY DEF Stands
<1> DEFINE t == After(k, s, Refs[n])
           h == [m \in 1..(n + 1) |-> IF m = n + 1 THEN t ELSE f[m]]
<1>2. n \in Nat /\ n >= 1 /\ n \in 1..n
  BY Constants
<1>3. s \in Stand
  BY <1>1, <1>2
<1>4. Refs[n] \in Ref /\ SizeOf[Refs[n]] \in Nat
  BY Constants, BoundsAssumption
<1>5. t \in Stand
  BY <1>3, <1>4, BoundsAssumption DEF After, Stand
<1> HIDE DEF t
<1>6. \A m \in 1..n : m \in 1..(n + 1) /\ m # n + 1 /\ h[m] = f[m]
  BY <1>2
<1>7. h[n + 1] = t /\ n + 1 \in 1..(n + 1)
  BY <1>2
<1>8. h \in [1..(n + 1) -> Stand]
  <2>1. ASSUME NEW m \in 1..(n + 1)
        PROVE  (IF m = n + 1 THEN t ELSE f[m]) \in Stand
    <3>1. m = n + 1 \/ m \in 1..n
      BY <1>2
    <3> QED BY <1>5, <3>1
  <2> QED BY <2>1
<1> HIDE DEF h
<1>9. h[1] = [got |-> {}, total |-> 0]
  <2>1. f[1] = [got |-> {}, total |-> 0]
    BY <1>1 DEF Path
  <2>2. 1 \in 1..n
    BY <1>2
  <2>3. h[1] = f[1]
    BY <1>6, <2>2
  <2> QED BY <2>1, <2>3
<1>10. ASSUME NEW m \in 1..((n + 1) - 1)
       PROVE  k[Refs[m]] \in {"got", "dropped"} /\ h[m + 1] = After(k, h[m], Refs[m])
  <2>1. m \in 1..n
    BY <1>2
  <2>2. h[m] = f[m]
    BY <1>6, <2>1
  <2>3. CASE m = n
    BY <1>1, <1>7, <2>2, <2>3 DEF t
  <2>4. CASE m # n
    <3>1. m \in 1..(n - 1) /\ m + 1 \in 1..n
      BY <1>2, <2>1, <2>4
    <3>2. k[Refs[m]] \in {"got", "dropped"} /\ f[m + 1] = After(k, f[m], Refs[m])
      BY <1>1, <3>1 DEF Path
    <3> QED BY <1>6, <2>2, <3>1, <3>2
  <2> QED BY <2>3, <2>4
<1>11. Path(k, h, n + 1)
  BY <1>8, <1>9, <1>10 DEF Path
<1> QED BY <1>7, <1>8, <1>11 DEF Stands, t

(* Induction on the numbers, in a set.                                     *)
LEMMA Least ==
  ASSUME NEW T \in SUBSET Nat, T # {}
  PROVE  \E x \in T : \A y \in T : ~(y < x)
<1>1. IsWellFoundedOn(OpToRel(<, Nat), Nat)
  BY NatLessThanWellFounded
<1>2. \E x \in T : \A y \in T : ~ (<<y, x>> \in OpToRel(<, Nat))
  BY <1>1, WFMin
<1> QED BY <1>2 DEF OpToRel

LEMMA OneEnd ==
  ASSUME NEW k, NEW n \in 1..(Len(Refs) + 1), NEW s, NEW t, Stands(k, n, s), Stands(k, n, t)
  PROVE  s = t
<1>1. PICK f \in [1..n -> Stand] : Path(k, f, n) /\ f[n] = s
  BY DEF Stands
<1>2. PICK h \in [1..n -> Stand] : Path(k, h, n) /\ h[n] = t
  BY DEF Stands
<1> DEFINE T == {m \in Nat : m \in 1..n /\ f[m] # h[m]}
<1> SUFFICES ASSUME T # {} PROVE FALSE
  <2>1. n \in Nat /\ n \in 1..n
    BY Constants
  <2> QED BY <1>1, <1>2, <2>1
<1>3. PICK x \in T : \A y \in T : ~(y < x)
  BY Least
<1>4. x \in 1..n /\ f[x] # h[x] /\ x \in Nat /\ n \in Nat
  BY <1>3, Constants
<1>5. CASE x = 1
  BY <1>1, <1>2, <1>4, <1>5 DEF Path
<1>6. CASE x # 1
  <2>1. x - 1 \in 1..(n - 1) /\ x - 1 \in 1..n /\ x - 1 \in Nat /\ x - 1 < x /\ (x - 1) + 1 = x
    BY <1>4, <1>6
  <2>2. f[x - 1] = h[x - 1]
    BY <1>3, <2>1
  <2>3. f[(x - 1) + 1] = After(k, f[x - 1], Refs[x - 1])
    BY <1>1, <2>1 DEF Path
  <2>4. h[(x - 1) + 1] = After(k, h[x - 1], Refs[x - 1])
    BY <1>2, <2>1 DEF Path
  <2> QED BY <1>4, <2>1, <2>2, <2>3, <2>4
<1> QED BY <1>5, <1>6

-----------------------------------------------------------------------------
(* Recipients in a pass.                                                   *)
LEMMA FollowingKept ==
  ASSUME TypeOK, SettledKept, NEW d \in Caller, Following(d),
         pc'[d] = pc[d], req'[d] = req[d], kind' = kind
  PROVE  Following(d)'
<1>1. InNotice(d)' <=> InNotice(d)
  BY DEF InNotice, KindOf, ItemOf
<1>2. req[d].n \in 1..(Len(Refs) + 1)
  BY DEF TypeOK, Requests
<1>3. InNotice(d) => Stands(cache, req[d].n, [got |-> req[d].got, total |-> req[d].total])'
  BY <1>2, StandsKept DEF Following, SettledKept
<1> QED BY <1>1, <1>3 DEF Following

LEMMA MailedKept ==
  ASSUME SettledKept, MailedAlike, UNCHANGED mailed
  PROVE  MailedAlike'
<1>1. Len(Refs) + 1 \in 1..(Len(Refs) + 1)
  BY Constants
<1>2. ASSUME NEW g \in mailed
      PROVE  \E t \in 0..Budget : Stands(cache, Len(Refs) + 1, [got |-> g, total |-> t])'
  <2>1. PICK t \in 0..Budget : Stands(cache, Len(Refs) + 1, [got |-> g, total |-> t])
    BY DEF MailedAlike
  <2>2. Stands(cache, Len(Refs) + 1, [got |-> g, total |-> t])'
    BY <1>1, <2>1, StandsKept DEF SettledKept
  <2> QED BY <2>2
<1> QED BY <1>2 DEF MailedAlike

(* A step of c that fetches nothing disturbs c alone.                      *)
LEMMA PassKept ==
  ASSUME TypeOK, PassInv, NEW c \in Caller, Elsewhere(c), UNCHANGED <<kind, cache>>,
         Following(c)', pc'[c] # "fetching", MailedAlike'
  PROVE  PassInv'
<1>1. SettledKept
  BY DEF SettledKept
<1>2. ASSUME NEW d \in Caller
      PROVE  Following(d)' /\ Fetching(d)'
  <2>1. CASE d = c
    BY <2>1 DEF Fetching
  <2>2. CASE d # c
    <3>1. pc'[d] = pc[d] /\ req'[d] = req[d] /\ kind' = kind /\ cache' = cache
      BY <2>2 DEF Elsewhere
    <3>2. Following(d)'
      BY <1>1, <3>1, FollowingKept DEF PassInv
    <3>3. Fetching(d)'
      BY <3>1 DEF PassInv, Fetching, KindOf, ItemOf
    <3> QED BY <3>2, <3>3
  <2> QED BY <2>1, <2>2
<1>3. FetchedOnce'
  BY DEF PassInv, FetchedOnce, Elsewhere
<1> QED BY <1>2, <1>3 DEF PassInv

LEMMA MailedSame ==
  ASSUME PassInv, UNCHANGED passVars
  PROVE  MailedAlike'
<1>1. SettledKept /\ UNCHANGED mailed
  BY DEF SettledKept, passVars
<1> QED BY <1>1, MailedKept DEF PassInv

LEMMA Outside ==
  ASSUME NEW c \in Caller, pc'[c] \notin Carrying \/ KindOf(c)' # "notice"
  PROVE  Following(c)'
BY DEF Following, InNotice

LEMMA FetchPass ==
  ASSUME TypeOK, PassInv, NEW c \in Caller, Fetch(c)
  PROVE  PassInv'
<1> DEFINE u == Refs[req[c].n]
<1>1. /\ Attaching(c) /\ cache[u] = "none" /\ cache' = [cache EXCEPT ![u] = "pending"]
      /\ pc' = [pc EXCEPT ![c] = "fetching"] /\ UNCHANGED <<kind, req, mailed>>
  BY DEF Fetch, Promised
<1>2. req[c].n \in 1..Len(Refs) /\ u \in Ref
  <2>1. req[c].n \in 1..(Len(Refs) + 1)
    BY DEF TypeOK, Requests
  <2>2. req[c].n \in 1..Len(Refs)
    BY <1>1, <2>1, Constants DEF Attaching
  <2> QED BY <2>2, Constants
<1>3. cache'[u] = "pending" /\ \A v \in Ref : v # u => cache'[v] = cache[v]
  BY <1>1, <1>2 DEF TypeOK
<1> HIDE DEF u
<1>4. SettledKept
  BY <1>1, <1>3 DEF SettledKept
<1>5. pc'[c] = "fetching" /\ pc[c] = "attach" /\ KindOf(c) = "notice" /\ req[c].n <= Len(Refs)
  BY <1>1 DEF TypeOK, Attaching
<1>6. \A d \in Caller : d # c => pc'[d] = pc[d]
  BY <1>1 DEF TypeOK
<1>7. ASSUME NEW d \in Caller, pc[d] = "fetching"
      PROVE  Refs[req[d].n] # u /\ Refs[req[d].n] \in Ref
  <2>1. req[d].n <= Len(Refs) /\ cache[Refs[req[d].n]] = "pending"
    BY <1>7 DEF PassInv, Fetching
  <2>2. req[d].n \in 1..(Len(Refs) + 1)
    BY DEF TypeOK, Requests
  <2>3. req[d].n \in 1..Len(Refs)
    BY <2>1, <2>2, Constants
  <2> QED BY <1>1, <2>1, <2>3, Constants
<1>8. ASSUME NEW d \in Caller
      PROVE  Following(d)'
  <2>1. CASE d # c
    BY <1>1, <1>4, <1>6, <2>1, FollowingKept DEF PassInv
  <2>2. CASE d = c
    <3>1. Following(c) /\ InNotice(c)
      BY <1>5 DEF PassInv, InNotice, Carrying
    <3>2. Stands(cache, req[c].n, [got |-> req[c].got, total |-> req[c].total])
      BY <3>1 DEF Following
    <3>3. req[c].n \in 1..(Len(Refs) + 1)
      BY DEF TypeOK, Requests
    <3>4. Stands(cache, req[c].n, [got |-> req[c].got, total |-> req[c].total])'
      BY <1>1, <1>4, <3>2, <3>3, StandsKept DEF SettledKept
    <3> QED BY <1>5, <2>2, <3>4 DEF Following
  <2> QED BY <2>1, <2>2
<1>9. ASSUME NEW d \in Caller
      PROVE  Fetching(d)'
  <2>1. CASE d = c
    BY <1>1, <1>3, <1>5, <2>1 DEF Fetching, KindOf, ItemOf, u
  <2>2. CASE d # c
    BY <1>1, <1>3, <1>6, <1>7, <2>2 DEF PassInv, Fetching, KindOf, ItemOf
  <2> QED BY <2>1, <2>2
<1>10. FetchedOnce'
  <2> SUFFICES ASSUME NEW d \in Caller, NEW e \in Caller, pc'[d] = "fetching", pc'[e] = "fetching",
                      Refs[req[d].n] = Refs[req[e].n], d # e
               PROVE  FALSE
    BY <1>1 DEF FetchedOnce
  <2>1. CASE d = c
    BY <1>6, <1>7, <2>1 DEF u
  <2>2. CASE e = c
    BY <1>6, <1>7, <2>2 DEF u
  <2>3. CASE d # c /\ e # c
    BY <1>6, <2>3 DEF PassInv, FetchedOnce
  <2> QED BY <2>1, <2>2, <2>3
<1>11. MailedAlike'
  BY <1>1, <1>4, MailedKept DEF PassInv
<1> QED BY <1>8, <1>9, <1>10, <1>11 DEF PassInv

(* A reference done with is one step of the path.                          *)
LEMMA AttachFollows ==
  ASSUME TypeOK, PassInv, SettledKept, NEW c \in Caller, NEW came \in BOOLEAN, Attach(c, came),
         InNotice(c), pc[c] \in {"attach", "fetching"}, req[c].n \in 1..Len(Refs),
         cache'[Refs[req[c].n]] = (IF came THEN "got" ELSE "dropped"),
         pc'[c] = "attach", kind' = kind
  PROVE  Following(c)' /\ \A d \in Caller : d # c => req'[d] = req[d]
<1> DEFINE n == req[c].n
           u == Refs[n]
           s == [got |-> req[c].got, total |-> req[c].total]
           fits == came /\ req[c].total + SizeOf[u] <= Budget
<1>0. CallerTypes
  BY DEF TypeOK, CallerTypes
<1>1. /\ \A d \in Caller : d # c => req'[d] = req[d]
      /\ req'[c].item = req[c].item /\ req'[c].n = n + 1
      /\ req'[c].got = (IF fits THEN req[c].got \cup {u} ELSE req[c].got)
      /\ req'[c].total = (IF fits THEN req[c].total + SizeOf[u] ELSE req[c].total)
  BY <1>0, AttachIs
<1>2. Stands(cache', n, s)
  <2>1. Stands(cache, n, s) /\ n \in 1..(Len(Refs) + 1)
    BY Constants DEF PassInv, Following
  <2> QED BY <2>1, StandsKept DEF SettledKept
<1>3. Stands(cache', n + 1, After(cache', s, u))
  <2>1. cache'[u] \in {"got", "dropped"}
    OBVIOUS
  <2> HIDE DEF s
  <2> QED BY <1>2, <2>1, StandsNext
<1>4. After(cache', s, u) = [got |-> req'[c].got, total |-> req'[c].total]
  BY <1>1 DEF After
<1>5. Stands(cache', req'[c].n, [got |-> req'[c].got, total |-> req'[c].total])
  BY <1>1, <1>3, <1>4
<1>6. Following(c)'
  BY <1>5 DEF Following
<1> QED BY <1>1, <1>6

LEMMA FetchedPass ==
  ASSUME TypeOK, PassInv, NEW c \in Caller, Fetched(c)
  PROVE  PassInv'
<1> DEFINE u == Refs[req[c].n]
<1>1. PICK came \in BOOLEAN :
        cache' = [cache EXCEPT ![u] = IF came THEN "got" ELSE "dropped"] /\ Attach(c, came)
  BY DEF Fetched
<1>2. pc[c] = "fetching" /\ pc' = [pc EXCEPT ![c] = "attach"] /\ UNCHANGED <<kind, mailed>>
  BY DEF Fetched
<1>3. KindOf(c) = "notice" /\ req[c].n <= Len(Refs) /\ cache[u] = "pending"
  BY <1>2 DEF PassInv, Fetching
<1>4. req[c].n \in 1..Len(Refs) /\ u \in Ref
  <2>1. req[c].n \in 1..(Len(Refs) + 1)
    BY DEF TypeOK, Requests
  <2>2. req[c].n \in 1..Len(Refs)
    BY <1>3, <2>1, Constants
  <2> QED BY <2>2, Constants
<1>5. /\ cache'[u] = (IF came THEN "got" ELSE "dropped")
      /\ \A v \in Ref : v # u => cache'[v] = cache[v]
  BY <1>1, <1>4 DEF TypeOK
<1> HIDE DEF u
<1>6. SettledKept
  BY <1>3, <1>5 DEF SettledKept
<1>7. pc'[c] = "attach" /\ \A d \in Caller : d # c => pc'[d] = pc[d]
  BY <1>2 DEF TypeOK
<1>8. Following(c)' /\ \A d \in Caller : d # c => req'[d] = req[d]
  <2>1. InNotice(c)
    BY <1>2, <1>3 DEF InNotice, Carrying
  <2> QED BY <1>1, <1>2, <1>4, <1>5, <1>6, <1>7, <2>1, AttachFollows DEF u
<1>9. ASSUME NEW d \in Caller, d # c
      PROVE  Following(d)' /\ Fetching(d)'
  <2>1. Following(d)'
    BY <1>2, <1>6, <1>7, <1>8, <1>9, FollowingKept DEF PassInv
  <2>2. ASSUME pc[d] = "fetching"
        PROVE  cache'[Refs[req[d].n]] = "pending"
    <3>1. Refs[req[d].n] # u
      BY <1>2, <1>9, <2>2 DEF PassInv, FetchedOnce, u
    <3>2. req[d].n <= Len(Refs) /\ cache[Refs[req[d].n]] = "pending"
      BY <2>2 DEF PassInv, Fetching
    <3>3. req[d].n \in 1..(Len(Refs) + 1)
      BY DEF TypeOK, Requests
    <3>4. req[d].n \in 1..Len(Refs)
      BY <3>2, <3>3, Constants
    <3> QED BY <1>5, <3>1, <3>2, <3>4, Constants
  <2>3. Fetching(d)'
    BY <1>2, <1>7, <1>8, <1>9, <2>2 DEF PassInv, Fetching, KindOf, ItemOf
  <2> QED BY <2>1, <2>3
<1>10. Fetching(c)'
  BY <1>7 DEF Fetching
<1>11. FetchedOnce'
  BY <1>7, <1>8 DEF PassInv, FetchedOnce
<1>12. MailedAlike'
  BY <1>2, <1>6, MailedKept DEF PassInv
<1> QED BY <1>8, <1>9, <1>10, <1>11, <1>12 DEF PassInv

LEMMA FromCachePass ==
  ASSUME TypeOK, PassInv, NEW c \in Caller, FromCache(c)
  PROVE  PassInv'
<1>1. /\ Attaching(c) /\ UNCHANGED <<kind, pc, passVars>>
      /\ cache[Refs[req[c].n]] \in {"got", "dropped"}
      /\ Attach(c, cache[Refs[req[c].n]] = "got")
  BY DEF FromCache
<1>2. pc[c] = "attach" /\ KindOf(c) = "notice" /\ InNotice(c)
  BY <1>1 DEF Attaching, InNotice, Carrying
<1>3. req[c].n \in 1..Len(Refs)
  <2>1. req[c].n \in 1..(Len(Refs) + 1)
    BY DEF TypeOK, Requests
  <2> QED BY <1>1, <2>1, Constants DEF Attaching
<1>4. SettledKept
  BY <1>1 DEF SettledKept, passVars
<1>5. PICK came \in BOOLEAN :
        Attach(c, came) /\ cache[Refs[req[c].n]] = (IF came THEN "got" ELSE "dropped")
  BY <1>1
<1>6. Following(c)' /\ \A d \in Caller : d # c => req'[d] = req[d]
  BY <1>1, <1>2, <1>3, <1>4, <1>5, AttachFollows DEF passVars
<1>7. Elsewhere(c) /\ pc'[c] # "fetching"
  BY <1>1, <1>2, <1>6 DEF Elsewhere
<1>8. MailedAlike'
  BY <1>1, MailedSame
<1> QED BY <1>1, <1>6, <1>7, <1>8, PassKept DEF passVars

LEMMA JobFollows ==
  ASSUME TypeOK, PassInv, NEW c \in Caller, SameJob(c), UNCHANGED <<kind, cache>>,
         pc[c] \in Carrying, KindOf(c) = "notice" => req[c].n = Len(Refs) + 1
  PROVE  Following(c)'
<1>1. KindOf(c)' = KindOf(c)
  BY DEF SameJob, KindOf, ItemOf
<1>2. CASE KindOf(c) # "notice"
  BY <1>1, <1>2, Outside
<1>3. CASE KindOf(c) = "notice"
  <2>1. Stands(cache, req[c].n, [got |-> req[c].got, total |-> req[c].total])
    BY <1>3 DEF PassInv, Following, InNotice
  <2>2. Stands(cache', req'[c].n, [got |-> req'[c].got, total |-> req'[c].total])
    BY <2>1 DEF SameJob
  <2>3. req'[c].n = Len(Refs) + 1
    BY <1>3 DEF SameJob
  <2> QED BY <2>2, <2>3 DEF Following
<1> QED BY <1>2, <1>3

LEMMA DispatchPass ==
  ASSUME TypeOK, LinksOwned, PassInv, NEW c \in Caller, RowOf(c) \in Row,
         Compose(c) \/ HandOver(c) \/ Record(c) \/ RecordRefused(c)
  PROVE  PassInv'
<1>0. req[c].n \in 1..(Len(Refs) + 1)
  BY DEF TypeOK, Requests
<1>1. ASSUME pc[c] \in {"send", "record"}
      PROVE  pc[c] \in Carrying /\ (KindOf(c) = "notice" => req[c].n = Len(Refs) + 1)
  BY <1>1 DEF PassInv, Following, InNotice, Carrying
<1>2. CASE Compose(c)
  <2>1. Elsewhere(c) /\ SameJob(c) /\ pc'[c] # "fetching" /\ UNCHANGED <<kind, passVars>>
    BY <1>2, ComposeIs DEF Compose
  <2>2. pc[c] \in Carrying /\ (KindOf(c) = "notice" => req[c].n = Len(Refs) + 1)
    BY <1>0, <1>2, Constants DEF Compose, Attaching, Carrying
  <2>3. Following(c)' /\ MailedAlike'
    BY <2>1, <2>2, JobFollows, MailedSame DEF passVars
  <2> QED BY <2>1, <2>3, PassKept DEF passVars
<1>3. CASE HandOver(c)
  <2>1. /\ Elsewhere(c) /\ SameJob(c) /\ pc'[c] # "fetching" /\ UNCHANGED <<kind, cache>>
        /\ mailed' = mailed \/ (KindOf(c) = "notice" /\ mailed' = mailed \cup {req[c].got})
    BY <1>3, HandOverIs DEF HandOver
  <2>2. pc[c] \in Carrying /\ (KindOf(c) = "notice" => req[c].n = Len(Refs) + 1)
    BY <1>1, <1>3 DEF HandOver
  <2>3. Following(c)'
    BY <2>1, <2>2, JobFollows
  <2>4. ASSUME KindOf(c) = "notice"
        PROVE  \E t \in 0..Budget : Stands(cache, Len(Refs) + 1, [got |-> req[c].got, total |-> t])
    <3>1. Stands(cache, Len(Refs) + 1, [got |-> req[c].got, total |-> req[c].total])
      BY <2>2, <2>4 DEF PassInv, Following, InNotice
    <3>2. req[c].total \in 0..Budget
      BY DEF TypeOK, Requests
    <3> QED BY <3>1, <3>2
  <2>5. MailedAlike'
    BY <2>1, <2>4 DEF PassInv, MailedAlike
  <2> QED BY <2>1, <2>3, <2>5, PassKept
<1>4. CASE Record(c)
  <2>1. /\ Elsewhere(c) /\ UNCHANGED <<kind, passVars>> /\ pc[c] = "record"
        /\ (pc'[c] = "record" /\ SameJob(c)) \/ (pc'[c] = "idle" /\ req'[c] = NoRequest)
    BY <1>4, RecordIs DEF Record
  <2>2. CASE pc'[c] = "record" /\ SameJob(c)
    <3>1. Following(c)' /\ MailedAlike'
      BY <1>1, <2>1, <2>2, JobFollows, MailedSame DEF passVars
    <3> QED BY <2>1, <2>2, <3>1, PassKept DEF passVars
  <2>3. CASE pc'[c] = "idle"
    <3>1. Following(c)' /\ MailedAlike'
      BY <2>1, <2>3, Outside, MailedSame DEF Carrying
    <3> QED BY <2>1, <2>3, <3>1, PassKept DEF passVars
  <2> QED BY <2>1, <2>2, <2>3
<1>5. CASE RecordRefused(c)
  <2>1. Elsewhere(c) /\ UNCHANGED <<kind, passVars>> /\ pc'[c] = "idle"
    BY <1>5, RecordRefusedIs DEF RecordRefused
  <2>2. Following(c)' /\ MailedAlike'
    BY <2>1, Outside, MailedSame DEF Carrying
  <2> QED BY <2>1, <2>2, PassKept DEF passVars
<1> QED BY <1>2, <1>3, <1>4, <1>5

LEMMA RequestPass ==
  ASSUME TypeOK, PassInv, Sorted, NEW c \in Caller, Lookup(c) \/ Insert(c) \/ Existing(c)
  PROVE  PassInv'
<1>0. CallerTypes /\ UNCHANGED <<kind, passVars>>
  BY DEF TypeOK, CallerTypes, Lookup, Insert, Existing
<1>1. /\ Elsewhere(c) /\ pc'[c] # "fetching"
      /\ pc'[c] \notin Carrying \/ (KindOf(c) \in {"email", "sms"} /\ req'[c].item = ItemOf(c))
  <2>1. CASE Lookup(c)
    <3>1. ASSUME NEW r \in RowsOf(ItemOf(c)), Respond(c, status[r])
          PROVE  Elsewhere(c) /\ pc'[c] = "idle"
      BY <1>0, <3>1, LeaveIs DEF Respond
    <3>2. CASE Goto(c, "insert")
      BY <1>0, <3>2, GotoIs DEF Steps, Carrying
    <3>3. CASE Throw(c)
      BY <1>0, <3>3, LeaveIs DEF Throw, Carrying
    <3> QED BY <2>1, <3>1, <3>2, <3>3 DEF Lookup, Carrying
  <2>2. CASE Insert(c)
    <3>1. CASE InsertThrew(c)
      BY <3>1, InsertThrewIs DEF Carrying
    <3>2. CASE AddRow(c) /\ Inserted(c)
      BY <3>2, AddRowIs, InsertedIs DEF Carrying
    <3> QED BY <2>2, <3>1, <3>2 DEF Insert
  <2>3. CASE Existing(c)
    BY <1>0, <2>3, LeaveIs DEF Existing, Throw, Respond, Carrying
  <2> QED BY <2>1, <2>2, <2>3
<1>2. KindOf(c)' # "notice" \/ pc'[c] \notin Carrying
  BY <1>0, <1>1 DEF KindOf, ItemOf
<1>3. Following(c)' /\ MailedAlike'
  BY <1>0, <1>2, Outside, MailedSame
<1> QED BY <1>0, <1>1, <1>3, PassKept DEF passVars

LEMMA BeginPass ==
  ASSUME TypeOK, PassInv, NEW c \in Caller,
         (\E i \in Item : BeginSend(c, i) \/ BeginForwarded(c, i) \/ BeginText(c, i) \/ BeginMail(c, i))
         \/ (\E r \in Row : BeginNotice(c, r))
  PROVE  PassInv'
<1>1. ASSUME NEW i \in Item, NEW s \in {"lookup", "insert"}, Begin(c, i, s)
      PROVE  PassInv'
  <2>1. Elsewhere(c) /\ pc'[c] = s /\ UNCHANGED <<kind, passVars>>
    BY <1>1, BeginIs DEF Steps
  <2>2. Following(c)' /\ MailedAlike'
    BY <2>1, Outside, MailedSame DEF Carrying
  <2> QED BY <2>1, <2>2, PassKept DEF passVars
<1>2. ASSUME NEW r \in Row, BeginNotice(c, r)
      PROVE  PassInv'
  <2>1. /\ Elsewhere(c) /\ pc'[c] = "attach" /\ UNCHANGED <<kind, passVars>>
        /\ req'[c].n = 1 /\ req'[c].got = {} /\ req'[c].total = 0
    BY <1>2, BeginNoticeIs
  <2>2. Stands(cache', req'[c].n, [got |-> req'[c].got, total |-> req'[c].total])
    BY <2>1, StandsAtStart
  <2>3. Following(c)'
    BY <2>1, <2>2 DEF Following
  <2>4. MailedAlike'
    BY <2>1, MailedSame
  <2> QED BY <2>1, <2>3, <2>4, PassKept DEF passVars
<1> QED BY <1>1, <1>2 DEF BeginSend, BeginForwarded, BeginText, BeginMail

LEMMA OtherPass ==
  ASSUME TypeOK, PassInv, NextPass \/ Crash \/ (\E r \in Row : Tap(r)) \/ \E r \in Row, s \in Answers : DeliveryReport(r, s)
  PROVE  PassInv'
<1>1. CASE NextPass
  <2>1. /\ UNCHANGED <<kind, pc, req>> /\ mailed' = {}
        /\ \A c \in Caller : pc[c] = "idle" \/ KindOf(c) # "notice"
    BY <1>1 DEF NextPass, InPass
  <2>2. \A c \in Caller : ~InNotice(c)' /\ pc'[c] # "fetching"
    <3> SUFFICES ASSUME NEW c \in Caller PROVE ~InNotice(c)' /\ pc'[c] # "fetching"
      OBVIOUS
    <3>1. ~InNotice(c)'
      BY <2>1 DEF InNotice, KindOf, ItemOf, Carrying
    <3>2. pc'[c] # "fetching"
      BY <2>1 DEF PassInv, Fetching
    <3> QED BY <3>1, <3>2
  <2> QED BY <2>1, <2>2 DEF PassInv, Following, Fetching, FetchedOnce, MailedAlike
<1>2. CASE Crash
  <2>1. \A c \in Caller : pc'[c] = "idle"
    BY <1>2 DEF Crash
  <2>2. mailed' = {}
    BY <1>2 DEF Crash
  <2>3. \A c \in Caller : ~InNotice(c)' /\ pc'[c] # "fetching"
    BY <2>1 DEF InNotice, Carrying
  <2> QED BY <2>2, <2>3 DEF PassInv, Following, Fetching, FetchedOnce, MailedAlike
<1>3. ASSUME UNCHANGED <<kind, pc, req, passVars>>
      PROVE  PassInv'
  <2>1. UNCHANGED <<kind, pc, req, passVars>>
    BY <1>3
  <2>2. SettledKept
    BY <2>1 DEF SettledKept, passVars
  <2>3. \A c \in Caller : Following(c)' /\ Fetching(c)'
    <3> SUFFICES ASSUME NEW c \in Caller PROVE Following(c)' /\ Fetching(c)'
      OBVIOUS
    <3>1. Following(c)'
      BY <2>1, <2>2, FollowingKept DEF PassInv
    <3>2. Fetching(c)'
      BY <2>1 DEF PassInv, Fetching, KindOf, ItemOf, passVars
    <3> QED BY <3>1, <3>2
  <2>4. FetchedOnce' /\ MailedAlike'
    BY <2>1, MailedSame DEF PassInv, FetchedOnce
  <2> QED BY <2>3, <2>4 DEF PassInv
<1> QED BY <1>1, <1>2, <1>3 DEF Tap, DeliveryReport

-----------------------------------------------------------------------------
(* Rows, their dispatches and the answers: what a step leaves alone.       *)
LEMMA CallerKept ==
  ASSUME TypeOK, NEW d \in Caller, CallerInv(d),
         pc'[d] = pc[d], req'[d] = req[d], kind' = kind, made' \in Nat, made' >= made,
         unsure' \in [Item -> Nat], \A i \in Item : unsure'[i] >= unsure[i],
         pc[d] \in Carrying =>
           /\ item'[RowOf(d)] = item[RowOf(d)] /\ (RowOf(d) \in tracked' <=> RowOf(d) \in tracked)
           /\ status'[RowOf(d)] = status[RowOf(d)] \/ RowOf(d) \in tracked
           /\ handed'[RowOf(d)] = handed[RowOf(d)] /\ attempts'[RowOf(d)] = attempts[RowOf(d)]
  PROVE  CallerInv(d)'
<1>1. RowOf(d)' = RowOf(d) /\ ItemOf(d)' = ItemOf(d) /\ KindOf(d)' = KindOf(d)
  BY DEF RowOf, ItemOf, KindOf
<1>2. ASSUME pc[d] \in Carrying
      PROVE  Carried(d)'
  <2>1. Carried(d)
    BY <1>2 DEF CallerInv
  <2>2. RowOf(d) \in 1..made'
    BY <2>1 DEF Carried, TypeOK
  <2>3. /\ handed[RowOf(d)] \in Nat /\ attempts[RowOf(d)] \in Nat
        /\ unsure[ItemOf(d)] \in Nat /\ unsure'[ItemOf(d)] \in Nat /\ unsure'[ItemOf(d)] >= unsure[ItemOf(d)]
    <3>1. RowOf(d) \in Row
      BY <2>1, RowsExist DEF Carried
    <3>2. ItemOf(d) \in Item
      BY DEF TypeOK, ItemOf, Requests
    <3> QED BY <3>1, <3>2 DEF TypeOK
  <2>4. /\ item'[RowOf(d)] = ItemOf(d)
        /\ handed'[RowOf(d)] = handed[RowOf(d)] /\ attempts'[RowOf(d)] = attempts[RowOf(d)]
    BY <1>2, <2>1 DEF Carried
  <2>5. pc'[d] \in {"send", "refused"} => handed'[RowOf(d)] <= unsure'[ItemOf(d)]
    BY <2>1, <2>3, <2>4 DEF Carried
  <2>6. pc'[d] = "record" => handed'[RowOf(d)] > 0 /\ attempts'[RowOf(d)] <= unsure'[ItemOf(d)]
    BY <2>1, <2>3, <2>4 DEF Carried
  <2>7. /\ IF RowOf(d) \in tracked' THEN pc'[d] = "record" ELSE status'[RowOf(d)] = "queued"
        /\ pc'[d] \in {"attach", "fetching"} => handed'[RowOf(d)] = 0
        /\ KindOf(d) \in Dispatched
    BY <1>2, <2>1, <2>4 DEF Carried
  <2> QED BY <1>1, <2>2, <2>4, <2>5, <2>6, <2>7 DEF Carried
<1> QED BY <1>1, <1>2 DEF CallerInv

LEMMA RowKept ==
  ASSUME TypeOK, NEW r \in Row, RowInv(r), kind' = kind, item'[r] = item[r], status'[r] = status[r],
         r \in tracked' <=> r \in tracked, reported'[r] = reported[r],
         handed'[r] = handed[r], attempts'[r] = attempts[r], made' \in Nat, r <= made' <=> r <= made,
         unsure' \in [Item -> Nat], \A i \in Item : unsure'[i] >= unsure[i]
  PROVE  RowInv(r)'
<1>1. r \in Nat /\ made \in Nat
  BY DEF Row, TypeOK
<1>2. r > made' <=> r > made
  BY <1>1
<1>3. /\ handed[r] \in Nat /\ attempts[r] \in Nat /\ unsure[item[r]] \in Nat
      /\ unsure'[item[r]] \in Nat /\ unsure'[item[r]] >= unsure[item[r]]
  BY DEF TypeOK
<1>4. /\ handed'[r] <= 1 + unsure'[item'[r]] /\ attempts'[r] <= 1 + unsure'[item'[r]]
      /\ status'[r] = "failed" /\ r \notin tracked' => handed'[r] <= unsure'[item'[r]]
  BY <1>3 DEF RowInv
<1> QED BY <1>2, <1>4 DEF RowInv

LEMMA HeardKept ==
  ASSUME TypeOK, NEW i \in Item, HeardInv(i), heard'[i] = heard[i], made' \in Nat, made' >= made,
         handed' \in [Row -> Nat], kind' = kind,
         \A r \in 1..made :
           /\ item'[r] = item[r] /\ handed'[r] >= handed[r]
           /\ reported[r] \subseteq reported'[r] /\ (GivenUp(r) => GivenUp(r)')
  PROVE  HeardInv(i)'
<1>1. ASSUME NEW r \in RowsOf(i)
      PROVE  /\ r \in RowsOf(i)'
             /\ handed[r] > 0 => handed'[r] > 0
             /\ reported[r] \subseteq reported'[r] /\ (GivenUp(r) => GivenUp(r)')
  <2>1. r \in 1..made /\ item[r] = i
    BY DEF RowsOf
  <2>2. r \in 1..made' /\ item'[r] = i
    BY <2>1 DEF TypeOK
  <2>3. r \in Row
    BY <2>1, RowsExist
  <2>4. handed[r] > 0 => handed'[r] > 0
    BY <2>1, <2>3 DEF TypeOK
  <2> QED BY <2>1, <2>2, <2>4 DEF RowsOf
<1>2. ASSUME heard[i] = "sent"
      PROVE  Accepted(i)'
  <2>1. PICK r \in RowsOf(i) : handed[r] > 0
    BY <1>2 DEF HeardInv, Accepted
  <2>2. r \in RowsOf(i)' /\ handed'[r] > 0
    BY <1>1, <2>1
  <2> QED BY <2>2 DEF Accepted
<1>3. ASSUME heard[i] \in {"failed", "undelivered"}
      PROVE  (\E r \in RowsOf(i) : heard[i] \in reported[r] \/ (heard[i] = "failed" /\ GivenUp(r)))'
  <2>1. PICK r \in RowsOf(i) : heard[i] \in reported[r] \/ (heard[i] = "failed" /\ GivenUp(r))
    BY <1>3 DEF HeardInv
  <2>2. r \in RowsOf(i)' /\ (heard'[i] \in reported'[r] \/ (heard'[i] = "failed" /\ GivenUp(r)'))
    BY <1>1, <2>1
  <2> QED BY <2>2
<1>4. ASSUME heard[i] = "received"
      PROVE  (RowsOf(i) # {})'
  <2>1. PICK r \in RowsOf(i) : TRUE
    BY <1>4 DEF HeardInv
  <2>2. r \in RowsOf(i)'
    BY <1>1, <2>1
  <2> QED BY <2>2
<1>5. ASSUME heard[i] = "delivered", kind[i] # "inbox"
      PROVE  (\E r \in RowsOf(i) : "delivered" \in reported[r])'
  <2>1. PICK r \in RowsOf(i) : "delivered" \in reported[r]
    BY <1>5 DEF HeardInv
  <2>2. r \in RowsOf(i)' /\ "delivered" \in reported'[r]
    BY <1>1, <2>1
  <2> QED BY <2>2
<1> QED BY <1>2, <1>3, <1>4, <1>5 DEF HeardInv

LEMMA QueuedKept ==
  ASSUME QueuedIsHeld, NEW c \in Caller, Elsewhere(c),
         faults > 0 => faults' > 0, crashes' = crashes,
         \A r \in Row : (handed[r] > 0 => handed'[r] > 0) /\ reported[r] \subseteq reported'[r],
         \A r \in Row : status'[r] = "queued" /\ item'[r] \in Send =>
           \/ faults' > 0
           \/ pc'[c] # "idle" /\ req'[c].row = r
           \/ status[r] = "queued" /\ item'[r] = item[r] /\ (pc[c] = "idle" \/ req[c].row # r)
  PROVE  QueuedIsHeld'
<1> SUFFICES ASSUME NEW i \in Send, NEW r \in Row, item'[r] = i, status'[r] = "queued",
                    ~(crashes' > 0), ~(faults' > 0)
             PROVE  \/ \E d \in Caller : pc'[d] # "idle" /\ req'[d].row = r
                    \/ handed'[r] > 0 /\ "queued" \in reported'[r]
  BY DEF QueuedIsHeld
<1>1. CASE pc'[c] # "idle" /\ req'[c].row = r
  BY <1>1
<1>2. CASE status[r] = "queued" /\ item'[r] = item[r] /\ (pc[c] = "idle" \/ req[c].row # r)
  <2>1. CASE handed[r] > 0 /\ "queued" \in reported[r]
    BY <2>1
  <2>2. ASSUME NEW d \in Caller, pc[d] # "idle", req[d].row = r
        PROVE  pc'[d] # "idle" /\ req'[d].row = r
    <3>1. d # c
      BY <1>2, <2>2
    <3> QED BY <2>2, <3>1 DEF Elsewhere
  <2> QED BY <1>2, <2>1, <2>2 DEF QueuedIsHeld
<1> QED BY <1>1, <1>2

(* A caller moves and the tables stay.                                     *)
LEMMA TablesSame ==
  ASSUME TypeOK, UNCHANGED <<kind, tableVars, histVars, reportVars>>
  PROVE  /\ made' \in Nat /\ made' >= made /\ handed' \in [Row -> Nat] /\ unsure' \in [Item -> Nat]
         /\ \A i \in Item : unsure'[i] >= unsure[i]
         /\ \A r \in Row : handed'[r] >= handed[r]
         /\ kind' = kind /\ made' = made /\ item' = item /\ status' = status
         /\ attempts' = attempts /\ handed' = handed /\ tracked' = tracked /\ reported' = reported
         /\ \A r \in Row : reported[r] \subseteq reported'[r] /\ (GivenUp(r) => GivenUp(r)')
BY DEF TypeOK, tableVars, histVars, reportVars, GivenUp

LEMMA MoveKeeps ==
  ASSUME TypeOK, RowsInv, NEW c \in Caller, Elsewhere(c), UNCHANGED <<kind, tableVars, histVars, reportVars>>,
         crashes' = crashes, faults > 0 => faults' > 0, CallerInv(c)',
         pc'[c] \in Carrying => \A d \in Caller : d # c /\ pc[d] \in Carrying => RowOf(d) # req'[c].row,
         \A i \in Item : HeardInv(i)',
         \A r \in Row : status[r] = "queued" /\ pc[c] # "idle" /\ req[c].row = r =>
           faults' > 0 \/ (pc'[c] # "idle" /\ req'[c].row = r)
  PROVE  RowsInv'
<1>1. /\ made' \in Nat /\ made' >= made /\ handed' \in [Row -> Nat] /\ unsure' \in [Item -> Nat]
      /\ \A i \in Item : unsure'[i] >= unsure[i]
      /\ kind' = kind /\ made' = made /\ item' = item /\ status' = status
      /\ attempts' = attempts /\ handed' = handed /\ tracked' = tracked /\ reported' = reported
  BY TablesSame
<1>2. ASSUME NEW r \in Row
      PROVE  RowInv(r)'
  BY <1>1, RowKept DEF RowsInv, TableInv
<1>3. ASSUME NEW d \in Caller
      PROVE  CallerInv(d)'
  <2>1. CASE d # c
    BY <1>1, <2>1, CallerKept DEF RowsInv, TableInv, Elsewhere
  <2> QED BY <2>1
<1>4. Exclusive'
  <2> SUFFICES ASSUME NEW d \in Caller, NEW e \in Caller, pc'[d] \in Carrying, pc'[e] \in Carrying,
                      req'[d].row = req'[e].row, d # e
               PROVE  FALSE
    BY DEF Exclusive, RowOf
  <2>1. CASE d = c
    BY <2>1 DEF Elsewhere, RowOf
  <2>2. CASE e = c
    BY <2>2 DEF Elsewhere, RowOf
  <2>3. CASE d # c /\ e # c
    BY <2>3 DEF Elsewhere, RowOf, RowsInv, TableInv, Exclusive
  <2> QED BY <2>1, <2>2, <2>3
<1>5. Sorted' /\ Alone'
  BY <1>1 DEF RowsInv, TableInv, Sorted, Alone
<1>6. QueuedIsHeld'
  BY <1>1, QueuedKept DEF RowsInv
<1> QED BY <1>2, <1>3, <1>4, <1>5, <1>6 DEF RowsInv, TableInv

LEMMA KindsAre ==
  ASSUME TypeOK, Sorted, NEW i \in Item
  PROVE  /\ i \in Send => kind[i] \in {"email", "sms", "inbox"}
         /\ kind[i] \in Kinds
         /\ kind[i] = "notice" <=> i \in Notice
BY DEF TypeOK, Sorted, Item

LEMMA BeginRows ==
  ASSUME TypeOK, RowsInv, NEW c \in Caller,
         (\E i \in Item : BeginSend(c, i) \/ BeginForwarded(c, i) \/ BeginText(c, i) \/ BeginMail(c, i))
         \/ (\E r \in Row : BeginNotice(c, r))
  PROVE  RowsInv'
<1>0. Sorted
  BY DEF RowsInv, TableInv
<1>1. ASSUME NEW i \in Item, NEW s \in {"lookup", "insert"}, Begin(c, i, s), kind[i] # "notice"
      PROVE  RowsInv'
  <2>1. /\ pc[c] = "idle" /\ pc'[c] = s /\ Elsewhere(c)
        /\ req'[c].item = i /\ req'[c].row = NoRow
        /\ UNCHANGED <<kind, tableVars, heard, histVars, faults, crashes, reportVars>>
    BY <1>1, BeginIs DEF Steps
  <2>2. CallerInv(c)'
    <3>1. KindOf(c)' # "notice" /\ RowOf(c)' = NoRow
      BY <1>1, <2>1 DEF KindOf, ItemOf, RowOf
    <3> QED BY <2>1, <3>1 DEF CallerInv, Carrying
  <2>3. \A j \in Item : HeardInv(j)'
    BY <2>1, HeardKept, TablesSame, RowsExist DEF RowsInv
  <2> QED BY <2>1, <2>2, <2>3, MoveKeeps DEF Carrying
<1>2. ASSUME NEW r \in Row, BeginNotice(c, r)
      PROVE  RowsInv'
  <2>1. /\ pc[c] = "idle" /\ pc'[c] = "attach" /\ Elsewhere(c)
        /\ req'[c].item = item[r] /\ req'[c].row = r
        /\ UNCHANGED <<kind, tableVars, heard, histVars, faults, crashes, reportVars>>
    BY <1>2, BeginNoticeIs
  <2>2. /\ r <= made /\ kind[item[r]] = "notice" /\ status[r] = "queued" /\ handed[r] = 0
        /\ \A d \in InPass : req[d].row # r
    BY <1>2 DEF BeginNotice
  <2>3. r \in 1..made
    BY <2>2 DEF Row, TypeOK
  <2>4. CallerInv(c)'
    <3>1. /\ KindOf(c)' = "notice" /\ RowOf(c)' = r /\ ItemOf(c)' = item[r]
          /\ made' = made /\ item' = item /\ status' = status /\ handed' = handed /\ tracked' = tracked
      BY <2>1, <2>2 DEF KindOf, ItemOf, RowOf, tableVars, histVars, reportVars
    <3>2. r \notin tracked
      BY <2>2 DEF RowsInv, TableInv, RowInv
    <3>3. Carried(c)'
      BY <2>1, <2>2, <2>3, <3>1, <3>2 DEF Carried, Dispatched
    <3> QED BY <2>1, <3>3 DEF CallerInv
  <2>5. ASSUME NEW d \in Caller, pc[d] \in Carrying
        PROVE  RowOf(d) # r
    <3> SUFFICES ASSUME RowOf(d) = r PROVE FALSE
      OBVIOUS
    <3>1. ItemOf(d) = item[r]
      BY <2>5 DEF RowsInv, TableInv, CallerInv, Carried
    <3>2. d \in InPass
      BY <2>2, <2>5, <3>1 DEF InPass, KindOf, Carrying
    <3> QED BY <2>2, <3>2 DEF RowOf
  <2>6. \A j \in Item : HeardInv(j)'
    BY <2>1, HeardKept, TablesSame, RowsExist DEF RowsInv
  <2> QED BY <2>1, <2>4, <2>5, <2>6, MoveKeeps
<1>3. ASSUME NEW i \in Item
      PROVE  /\ BeginSend(c, i) => Begin(c, i, "lookup") /\ kind[i] # "notice"
             /\ BeginForwarded(c, i) => Begin(c, i, "lookup") /\ kind[i] # "notice"
             /\ BeginText(c, i) => Begin(c, i, "insert") /\ kind[i] # "notice"
             /\ BeginMail(c, i) => Begin(c, i, "insert") /\ kind[i] # "notice"
  BY <1>0, KindsAre DEF BeginSend, BeginForwarded, BeginText, BeginMail
<1> QED BY <1>1, <1>2, <1>3

LEMMA ExistingRows ==
  ASSUME TypeOK, RowsInv, NEW c \in Caller, Existing(c)
  PROVE  RowsInv'
<1>0. CallerTypes /\ "received" \in Answers
  BY DEF TypeOK, CallerTypes, Answers
<1>1. pc[c] = "existing" /\ UNCHANGED <<kind, tableVars, histVars, faults, crashes, reportVars>> /\ RowOf(c) = NoRow
  BY DEF Existing, budgetVars, RowsInv, TableInv, CallerInv
<1>2. /\ Elsewhere(c) /\ pc'[c] = "idle"
      /\ \A i \in Item : heard'[i] = heard[i] \/ (i = ItemOf(c) /\ heard'[i] = "received" /\ RowsOf(i) # {})
  <2>1. CASE Throw(c)
    BY <1>0, <2>1, LeaveIs DEF Throw
  <2>2. CASE RowsOf(ItemOf(c)) # {} /\ Respond(c, "received")
    BY <1>0, <2>2, RespondIs
  <2> QED BY <2>1, <2>2 DEF Existing
<1>3. CallerInv(c)'
  BY <1>2 DEF CallerInv, Carrying
<1>4. ASSUME NEW i \in Item
      PROVE  HeardInv(i)'
  <2>1. CASE heard'[i] = heard[i]
    BY <1>1, <2>1, HeardKept, TablesSame, RowsExist DEF RowsInv
  <2>2. CASE heard'[i] = "received" /\ RowsOf(i) # {}
    <3>1. RowsOf(i)' = RowsOf(i)
      BY <1>1 DEF RowsOf, tableVars
    <3> QED BY <2>2, <3>1 DEF HeardInv
  <2> QED BY <1>2, <2>1, <2>2
<1>5. \A r \in Row : req[c].row # r
  BY <1>1 DEF RowOf, Row, NoRow
<1> QED BY <1>1, <1>2, <1>3, <1>4, <1>5, MoveKeeps DEF Carrying

LEMMA LookupRows ==
  ASSUME TypeOK, RowsInv, NEW c \in Caller, Lookup(c)
  PROVE  RowsInv'
<1>0. CallerTypes /\ "insert" \in Steps
  BY DEF TypeOK, CallerTypes, Steps
<1>1. /\ pc[c] = "lookup" /\ UNCHANGED <<kind, tableVars, histVars, crashes, reportVars>>
      /\ RowOf(c) = NoRow /\ KindOf(c) # "notice"
  BY DEF Lookup, RowsInv, TableInv, CallerInv
<1>2. faults > 0 => faults' > 0
  BY FaultIs DEF Lookup
<1>3. /\ Elsewhere(c)
      /\ pc'[c] = "idle" \/ (pc'[c] = "insert" /\ SameJob(c))
      /\ \A i \in Item :
           \/ heard'[i] = heard[i]
           \/ i = ItemOf(c) /\ \E r \in RowsOf(i) : heard'[i] = status[r]
  <2>1. ASSUME NEW r \in RowsOf(ItemOf(c)), Respond(c, status[r])
        PROVE  /\ Elsewhere(c) /\ pc'[c] = "idle"
               /\ \A i \in Item : heard'[i] = heard[i] \/ (i = ItemOf(c) /\ heard'[i] = status[r])
    <3>1. status[r] \in Answers
      BY RowsExist DEF TypeOK, RowsOf
    <3> QED BY <2>1, <3>1, RespondIs
  <2>2. CASE Goto(c, "insert") /\ UNCHANGED heard
    BY <1>0, <2>2, GotoIs
  <2>3. CASE Throw(c)
    BY <1>0, <2>3, LeaveIs DEF Throw
  <2> QED BY <2>1, <2>2, <2>3 DEF Lookup
<1>4. CallerInv(c)'
  <2>1. CASE pc'[c] = "idle"
    BY <2>1 DEF CallerInv, Carrying
  <2>2. CASE pc'[c] = "insert" /\ SameJob(c)
    <3>1. KindOf(c)' # "notice" /\ RowOf(c)' = NoRow
      BY <1>1, <2>2 DEF SameJob, KindOf, ItemOf, RowOf
    <3> QED BY <2>2, <3>1 DEF CallerInv, Carrying
  <2> QED BY <1>3, <2>1, <2>2
<1>5. ASSUME NEW i \in Item
      PROVE  HeardInv(i)'
  <2>1. CASE heard'[i] = heard[i]
    BY <1>1, <2>1, HeardKept, TablesSame, RowsExist DEF RowsInv
  <2>2. ASSUME NEW r \in RowsOf(i), heard'[i] = status[r]
        PROVE  HeardInv(i)'
    <3>1. /\ RowsOf(i)' = RowsOf(i) /\ status' = status /\ handed' = handed
          /\ tracked' = tracked /\ reported' = reported /\ kind' = kind
      BY <1>1 DEF RowsOf, tableVars, histVars, reportVars
    <3>2. r \in Row /\ RowInv(r) /\ item[r] = i
      BY RowsExist DEF RowsOf, RowsInv, TableInv
    <3>3. heard'[i] = "sent" => Accepted(i)'
      BY <2>2, <3>1, <3>2 DEF Accepted, RowInv
    <3>4. heard'[i] \in {"failed", "undelivered"} =>
            heard'[i] \in reported'[r] \/ (heard'[i] = "failed" /\ GivenUp(r)')
      BY <2>2, <3>1, <3>2 DEF RowInv, GivenUp
    <3>5. heard'[i] = "delivered" => kind'[i] = "inbox" \/ "delivered" \in reported'[r]
      BY <2>2, <3>1, <3>2 DEF RowInv
    <3> QED BY <2>2, <3>1, <3>3, <3>4, <3>5 DEF HeardInv
  <2> QED BY <1>3, <2>1, <2>2
<1>6. \A r \in Row : req[c].row # r
  BY <1>1 DEF RowOf, Row, NoRow
<1> QED BY <1>1, <1>2, <1>3, <1>4, <1>5, <1>6, MoveKeeps DEF Carrying

(* On its way to the hand-over a dispatch changes no row.                  *)
LEMMA PrepareRows ==
  ASSUME TypeOK, RowsInv, NEW c \in Caller, Elsewhere(c),
         req'[c].item = req[c].item, req'[c].row = req[c].row,
         UNCHANGED <<kind, tableVars, histVars, heard, faults, crashes, reportVars>>,
         pc[c] \in {"attach", "fetching"}, pc'[c] \in {"attach", "fetching", "send"}
  PROVE  RowsInv'
<1>1. Carried(c) /\ ItemOf(c) \in Item
  BY DEF RowsInv, TableInv, CallerInv, Carrying, TypeOK, ItemOf, Requests
<1>2. CallerInv(c)'
  <2>1. /\ KindOf(c)' = KindOf(c) /\ RowOf(c)' = RowOf(c) /\ ItemOf(c)' = ItemOf(c)
        /\ made' = made /\ item' = item /\ status' = status /\ handed' = handed /\ unsure' = unsure
        /\ tracked' = tracked
    BY DEF KindOf, ItemOf, RowOf, tableVars, histVars, reportVars
  <2>2. handed[RowOf(c)] = 0 /\ 0 <= unsure[ItemOf(c)]
    BY <1>1 DEF Carried, TypeOK
  <2>3. RowOf(c) \notin tracked /\ status[RowOf(c)] = "queued"
    BY <1>1 DEF Carried
  <2>4. Carried(c)'
    BY <1>1, <2>1, <2>2, <2>3 DEF Carried
  <2> QED BY <2>4 DEF CallerInv
<1>3. \A d \in Caller : d # c /\ pc[d] \in Carrying => RowOf(d) # req'[c].row
  BY DEF RowsInv, TableInv, Exclusive, Carrying, RowOf
<1>4. \A i \in Item : HeardInv(i)'
  BY HeardKept, TablesSame, RowsExist DEF RowsInv
<1> QED BY <1>2, <1>3, <1>4, MoveKeeps

LEMMA AttachRows ==
  ASSUME TypeOK, RowsInv, PassInv, NEW c \in Caller, Fetch(c) \/ Fetched(c) \/ FromCache(c)
  PROVE  RowsInv'
<1>0. CallerTypes /\ req[c].n \in 1..(Len(Refs) + 1)
  BY DEF TypeOK, CallerTypes, Requests
<1>1. CASE Fetch(c)
  <2>1. /\ pc[c] = "attach" /\ pc' = [pc EXCEPT ![c] = "fetching"] /\ req' = req
        /\ UNCHANGED <<kind, tableVars, histVars, heard, faults, crashes, reportVars>>
    BY <1>1 DEF Fetch, Attaching, budgetVars
  <2>2. Elsewhere(c) /\ pc'[c] = "fetching"
    BY <2>1 DEF Elsewhere, TypeOK
  <2> QED BY <2>1, <2>2, PrepareRows
<1>2. CASE Fetched(c)
  <2>1. /\ pc[c] = "fetching" /\ pc' = [pc EXCEPT ![c] = "attach"]
        /\ \E came \in BOOLEAN : Attach(c, came)
        /\ UNCHANGED <<kind, tableVars, histVars, heard, faults, crashes, reportVars>>
    BY <1>2 DEF Fetched, budgetVars
  <2>2. req[c].n \in 1..Len(Refs)
    <3>1. req[c].n <= Len(Refs)
      BY <2>1 DEF PassInv, Fetching
    <3> QED BY <1>0, <3>1, Constants
  <2>3. req'[c].item = req[c].item /\ req'[c].row = req[c].row /\ \A d \in Caller : d # c => req'[d] = req[d]
    BY <1>0, <2>1, <2>2, AttachIs
  <2>4. Elsewhere(c) /\ pc'[c] = "attach"
    BY <2>1, <2>3 DEF Elsewhere, TypeOK
  <2> QED BY <2>1, <2>3, <2>4, PrepareRows
<1>3. CASE FromCache(c)
  <2>1. /\ pc[c] = "attach" /\ pc' = pc /\ req[c].n <= Len(Refs)
        /\ \E came \in BOOLEAN : Attach(c, came)
        /\ UNCHANGED <<kind, tableVars, histVars, heard, faults, crashes, reportVars>>
    BY <1>3 DEF FromCache, Attaching, budgetVars
  <2>2. req[c].n \in 1..Len(Refs)
    BY <1>0, <2>1, Constants
  <2>3. req'[c].item = req[c].item /\ req'[c].row = req[c].row /\ \A d \in Caller : d # c => req'[d] = req[d]
    BY <1>0, <2>1, <2>2, AttachIs
  <2>4. Elsewhere(c) /\ pc'[c] = "attach"
    BY <2>1, <2>3 DEF Elsewhere
  <2> QED BY <2>1, <2>3, <2>4, PrepareRows
<1> QED BY <1>1, <1>2, <1>3

LEMMA ComposeRows ==
  ASSUME TypeOK, RowsInv, LinksOwned, NEW c \in Caller, Compose(c), RowOf(c) \in Row
  PROVE  RowsInv'
<1>1. pc'[c] = "send" /\ Elsewhere(c) /\ SameJob(c)
  BY ComposeIs
<1>2. pc[c] = "attach" /\ UNCHANGED <<kind, tableVars, histVars, heard, faults, crashes, reportVars>>
  BY DEF Compose, budgetVars
<1> QED BY <1>1, <1>2, PrepareRows DEF SameJob

(* An insert: one row for what has a key.                                  *)
LEMMA AddRowKeeps ==
  ASSUME TypeOK, RowsInv, NEW c \in Caller, pc[c] = "insert", ~Refused(c), AddRow(c),
         UNCHANGED <<kind, histVars, reportVars>>
  PROVE  /\ Sorted' /\ Alone' /\ \A r \in Row : RowInv(r)'
         /\ made + 1 \in Row /\ handed[made + 1] = 0 /\ made + 1 \notin tracked'
         /\ made' \in Nat /\ made' = made + 1 /\ made' >= made
         /\ item'[made + 1] = ItemOf(c) /\ status'[made + 1] = FirstStatus(c) /\ attempts' = attempts
         /\ \A r \in 1..made : r \in Row /\ r # made + 1 /\ item'[r] = item[r] /\ status'[r] = status[r]
<1>1. /\ made + 1 \in Row /\ made' = made + 1 /\ made' \in 0..MaxRows
      /\ item'[made + 1] = ItemOf(c) /\ status'[made + 1] = FirstStatus(c)
      /\ \A r \in Row : r # made + 1 => item'[r] = item[r] /\ status'[r] = status[r]
      /\ attempts' = attempts
  BY AddRowIs
<1>2. made \in Nat /\ made' \in Nat /\ made' >= made
  BY <1>1 DEF TypeOK
<1>3. \A r \in 1..made : r \in Row /\ r # made + 1 /\ item'[r] = item[r] /\ status'[r] = status[r]
  <2> SUFFICES ASSUME NEW r \in 1..made
               PROVE  r \in Row /\ r # made + 1 /\ item'[r] = item[r] /\ status'[r] = status[r]
    OBVIOUS
  <2>1. r \in Row /\ r # made + 1
    BY <1>2, RowsExist
  <2> QED BY <1>1, <2>1
<1>4. /\ handed' = handed /\ unsure' = unsure /\ kind' = kind /\ ItemOf(c) \in Item
      /\ handed' \in [Row -> Nat] /\ unsure' \in [Item -> Nat] /\ \A i \in Item : unsure'[i] >= unsure[i]
  BY DEF histVars, TypeOK, ItemOf, Requests
<1>5. KindOf(c) \in Kinds /\ KindOf(c) # "notice"
  BY <1>4 DEF RowsInv, TableInv, CallerInv, KindOf, TypeOK
<1>6. RowInv(made + 1)
  BY <1>1 DEF RowsInv, TableInv
<1>7. /\ handed[made + 1] = 0 /\ attempts[made + 1] = 0
      /\ made + 1 \notin tracked' /\ reported'[made + 1] = {}
  <2>1. made + 1 > made /\ ~(made + 1 <= made)
    BY <1>2
  <2>2. made + 1 \notin tracked /\ reported[made + 1] = {}
    BY <1>6, <2>1 DEF RowInv
  <2> QED BY <1>6, <2>1, <2>2 DEF RowInv, reportVars
<1>8. ASSUME NEW r \in Row, r = made + 1
      PROVE  RowInv(r)'
  <2>1. /\ FirstStatus(c) \in {"delivered", "queued", "received"}
        /\ FirstStatus(c) = "queued" => KindOf(c) \in Dispatched
        /\ FirstStatus(c) = "delivered" => KindOf(c) = "inbox"
    BY DEF FirstStatus, Dispatched
  <2>2. kind'[item'[r]] = KindOf(c)
    BY <1>1, <1>4, <1>8 DEF KindOf
  <2>3. handed'[r] = 0 /\ attempts'[r] = 0 /\ unsure'[item'[r]] \in Nat
    BY <1>1, <1>4, <1>7, <1>8
  <2>4. ~(r > made') /\ r <= made' /\ r \notin tracked' /\ reported'[r] = {}
    BY <1>1, <1>2, <1>7, <1>8
  <2>5. status'[r] = FirstStatus(c)
    BY <1>1, <1>8
  <2>6. handed'[r] <= 1 + unsure'[item'[r]] /\ attempts'[r] <= 1 + unsure'[item'[r]]
    BY <2>3
  <2> QED BY <2>1, <2>2, <2>3, <2>4, <2>5, <2>6 DEF RowInv
<1>9. ASSUME NEW r \in Row, r # made + 1
      PROVE  RowInv(r)'
  <2>1. r <= made' <=> r <= made
    BY <1>1, <1>2, <1>9 DEF Row
  <2>2. RowInv(r) /\ tracked' = tracked /\ reported' = reported
    BY DEF RowsInv, TableInv, reportVars
  <2> QED BY <1>1, <1>2, <1>4, <1>9, <2>1, <2>2, RowKept
<1>10. Sorted'
  BY <1>4 DEF RowsInv, TableInv, Sorted
<1>11. ASSUME KindOf(c) # "direct", NEW r \in 1..made
       PROVE  item[r] # ItemOf(c)
  <2>1. Keyed(c)
    BY <1>5, <1>11 DEF Keyed, Kinds
  <2>2. RowsOf(ItemOf(c)) = {}
    BY <2>1 DEF Refused
  <2> QED BY <2>2 DEF RowsOf
<1>12. Alone'
  <2> SUFFICES ASSUME NEW r \in 1..made', NEW s \in 1..made', item'[r] = item'[s], kind[item'[r]] # "direct"
               PROVE  r = s
    BY <1>4 DEF Alone
  <2>1. (r \in 1..made \/ r = made + 1) /\ (s \in 1..made \/ s = made + 1)
    BY <1>1, <1>2
  <2>2. CASE r \in 1..made /\ s \in 1..made
    BY <1>3, <2>2 DEF RowsInv, TableInv, Alone
  <2>3. CASE r = made + 1 /\ s \in 1..made
    BY <1>1, <1>3, <1>11, <2>3 DEF KindOf
  <2>4. CASE r \in 1..made /\ s = made + 1
    BY <1>1, <1>3, <1>11, <2>4 DEF KindOf
  <2> QED BY <2>1, <2>2, <2>3, <2>4
<1> QED BY <1>1, <1>2, <1>3, <1>7, <1>8, <1>9, <1>10, <1>12

(* After the insert c holds the row, if it is to be dispatched, or has its *)
(* answer, or knows nothing of it: then a statement failed.                *)
LEMMA AddedKeeps ==
  ASSUME TypeOK, RowsInv, NEW c \in Caller, pc[c] = "insert", ~Refused(c), AddRow(c),
         UNCHANGED <<kind, histVars, crashes, reportVars>>, faults > 0 => faults' > 0, Elsewhere(c),
         \/ /\ pc'[c] \in {"attach", "send"} /\ KindOf(c) \in {"email", "sms"}
            /\ req'[c].item = ItemOf(c) /\ req'[c].row = made + 1
         \/ pc'[c] = "existing" /\ KindOf(c) = "forwarded" /\ req'[c].item = ItemOf(c) /\ req'[c].row = NoRow
         \/ pc'[c] = "idle",
         pc'[c] \in {"existing", "idle"} => faults' > 0 \/ KindOf(c) \notin {"email", "sms"},
         \A i \in Item :
           \/ heard'[i] = heard[i]
           \/ i = ItemOf(c) /\ heard'[i] = FirstStatus(c) /\ KindOf(c) \notin {"email", "sms"}
  PROVE  RowsInv'
<1>1. /\ Sorted' /\ Alone' /\ \A r \in Row : RowInv(r)'
      /\ made + 1 \in Row /\ handed[made + 1] = 0 /\ made + 1 \notin tracked'
      /\ made' \in Nat /\ made' = made + 1 /\ made' >= made
      /\ item'[made + 1] = ItemOf(c) /\ status'[made + 1] = FirstStatus(c) /\ attempts' = attempts
      /\ \A r \in 1..made : r \in Row /\ r # made + 1 /\ item'[r] = item[r] /\ status'[r] = status[r]
  BY AddRowKeeps
<1>2. /\ handed' = handed /\ unsure' = unsure /\ kind' = kind /\ ItemOf(c) \in Item
      /\ handed' \in [Row -> Nat] /\ unsure' \in [Item -> Nat] /\ \A i \in Item : unsure'[i] >= unsure[i]
      /\ tracked' = tracked /\ reported' = reported
  BY DEF histVars, reportVars, TypeOK, ItemOf, Requests
<1>3. made \in Nat /\ made + 1 \in 1..made' /\ unsure[ItemOf(c)] \in Nat
  BY <1>1, <1>2 DEF TypeOK
<1>4. CallerInv(c)'
  <2>1. CASE /\ pc'[c] \in {"attach", "send"} /\ KindOf(c) \in {"email", "sms"}
             /\ req'[c].item = ItemOf(c) /\ req'[c].row = made + 1
    <3>1. RowOf(c)' = made + 1 /\ ItemOf(c)' = ItemOf(c) /\ KindOf(c)' = KindOf(c)
      BY <1>2, <2>1 DEF RowOf, ItemOf, KindOf
    <3>2. FirstStatus(c) = "queued"
      BY <2>1 DEF FirstStatus
    <3>3. handed'[made + 1] = 0 /\ handed'[made + 1] <= unsure'[ItemOf(c)]
      BY <1>1, <1>2, <1>3
    <3>4. Carried(c)'
      BY <1>1, <1>3, <2>1, <3>1, <3>2, <3>3 DEF Carried, Dispatched
    <3> QED BY <2>1, <3>4 DEF CallerInv
  <2>2. CASE pc'[c] = "existing" /\ KindOf(c) = "forwarded" /\ req'[c].item = ItemOf(c) /\ req'[c].row = NoRow
    <3>1. KindOf(c)' = "forwarded" /\ RowOf(c)' = NoRow
      BY <1>2, <2>2 DEF RowOf, ItemOf, KindOf
    <3> QED BY <2>2, <3>1 DEF CallerInv, Carrying
  <2>3. CASE pc'[c] = "idle"
    BY <2>3 DEF CallerInv, Carrying
  <2> QED BY <2>1, <2>2, <2>3
<1>5. ASSUME NEW d \in Caller, pc[d] \in Carrying
      PROVE  RowOf(d) \in 1..made
  BY <1>5 DEF RowsInv, TableInv, CallerInv, Carried
<1>6. ASSUME NEW d \in Caller, d # c
      PROVE  CallerInv(d)'
  <2>1. pc[d] \in Carrying => RowOf(d) \in 1..made
    BY <1>5
  <2>2. pc'[d] = pc[d] /\ req'[d] = req[d] /\ CallerInv(d)
    BY <1>6 DEF Elsewhere, RowsInv, TableInv
  <2> QED BY <1>1, <1>2, <2>1, <2>2, CallerKept
<1>7. Exclusive'
  <2> SUFFICES ASSUME NEW d \in Caller, NEW e \in Caller, pc'[d] \in Carrying, pc'[e] \in Carrying,
                      req'[d].row = req'[e].row, d # e
               PROVE  FALSE
    BY DEF Exclusive, RowOf
  <2>1. ~(made + 1 \in 1..made)
    BY <1>3
  <2>2. pc'[c] \in Carrying => req'[c].row = made + 1
    BY DEF Carrying
  <2>3. CASE d = c
    BY <1>5, <2>1, <2>2, <2>3 DEF Elsewhere, RowOf
  <2>4. CASE e = c
    BY <1>5, <2>1, <2>2, <2>4 DEF Elsewhere, RowOf
  <2>5. CASE d # c /\ e # c
    BY <2>5 DEF Elsewhere, RowOf, RowsInv, TableInv, Exclusive
  <2> QED BY <2>3, <2>4, <2>5
<1>8. ASSUME NEW i \in Item
      PROVE  HeardInv(i)'
  <2>1. CASE heard'[i] = heard[i]
    <3>1. \A r \in 1..made : handed'[r] >= handed[r] /\ (GivenUp(r) => GivenUp(r)')
      BY <1>1, <1>2 DEF TypeOK, GivenUp
    <3> QED BY <1>1, <1>2, <2>1, <3>1, HeardKept DEF RowsInv
  <2>2. CASE i = ItemOf(c) /\ heard'[i] = FirstStatus(c) /\ KindOf(c) \notin {"email", "sms"}
    <3>1. heard'[i] \in {"delivered", "received"} /\ (heard'[i] = "delivered" => kind'[i] = "inbox")
      BY <1>2, <2>2 DEF FirstStatus, KindOf
    <3>2. made + 1 \in {r \in 1..made' : item'[r] = i}
      BY <1>1, <1>3, <2>2
    <3>3. (RowsOf(i) # {})'
      BY <3>2 DEF RowsOf
    <3> QED BY <3>1, <3>3 DEF HeardInv
  <2> QED BY <2>1, <2>2
<1>9. QueuedIsHeld'
  <2>1. ASSUME NEW r \in Row, status'[r] = "queued", item'[r] \in Send
        PROVE  \/ faults' > 0
               \/ pc'[c] # "idle" /\ req'[c].row = r
               \/ status[r] = "queued" /\ item'[r] = item[r] /\ (pc[c] = "idle" \/ req[c].row # r)
    <3>1. CASE r = made + 1
      <4>1. FirstStatus(c) = "queued"
        BY <1>1, <2>1, <3>1
      <4>2. KindOf(c) \in {"email", "sms"}
        BY <4>1 DEF FirstStatus
      <4> QED BY <3>1, <4>2
    <3>2. CASE r # made + 1
      <4>1. status'[r] = status[r] /\ item'[r] = item[r]
        BY <3>2, AddRowIs
      <4>2. req[c].row = NoRow
        BY DEF RowsInv, TableInv, CallerInv, RowOf
      <4>3. r # NoRow
        BY DEF Row, NoRow
      <4> QED BY <2>1, <4>1, <4>2, <4>3
    <3> QED BY <3>1, <3>2
  <2> QED BY <1>2, <2>1, QueuedKept DEF RowsInv
<1> QED BY <1>1, <1>4, <1>6, <1>7, <1>8, <1>9 DEF RowsInv, TableInv

LEMMA InsertRows ==
  ASSUME TypeOK, RowsInv, NEW c \in Caller, Insert(c)
  PROVE  RowsInv'
<1>1. /\ pc[c] = "insert" /\ UNCHANGED <<kind, histVars, crashes, reportVars>> /\ RowOf(c) = NoRow
      /\ KindOf(c) # "notice"
  BY DEF Insert, histVars, RowsInv, TableInv, CallerInv
<1>2. faults > 0 => faults' > 0
  BY FaultIs DEF Insert
<1>3. CASE ~Refused(c) /\ AddRow(c) /\ Inserted(c)
  <2>1. made + 1 \in Row /\ FirstStatus(c) \in {"delivered", "queued", "received"}
    BY <1>3, AddRowIs
  <2>2. /\ Elsewhere(c)
        /\ \/ /\ KindOf(c) \in {"email", "sms"}
              /\ pc'[c] \in {"attach", "send"}
              /\ req'[c].item = ItemOf(c) /\ req'[c].row = made + 1
              /\ heard' = heard
           \/ /\ KindOf(c) \notin {"email", "sms"}
              /\ pc'[c] = "idle" /\ req'[c] = NoRequest
              /\ \A i \in Item : heard'[i] = heard[i] \/ (i = ItemOf(c) /\ heard'[i] = FirstStatus(c))
    BY <1>3, <2>1, InsertedIs
  <2> QED BY <1>1, <1>2, <1>3, <2>2, AddedKeeps
<1>4. CASE ~Refused(c) /\ AddRow(c) /\ InsertThrew(c) /\ Fault
  <2>1. faults' > 0
    BY <1>4, FaultIs
  <2>2. /\ Elsewhere(c) /\ heard' = heard
        /\ \/ pc'[c] = "existing" /\ KindOf(c) = "forwarded" /\ req'[c].item = ItemOf(c) /\ req'[c].row = NoRow
           \/ pc'[c] = "idle"
    BY <1>1, <1>4, InsertThrewIs
  <2> QED BY <1>1, <1>2, <1>4, <2>1, <2>2, AddedKeeps
<1>5. CASE InsertThrew(c) /\ UNCHANGED tableVars
  <2>1. /\ Elsewhere(c) /\ heard' = heard
        /\ \/ pc'[c] = "existing" /\ KindOf(c) = "forwarded" /\ req'[c].item = ItemOf(c) /\ req'[c].row = NoRow
           \/ pc'[c] = "idle"
    BY <1>1, <1>5, InsertThrewIs
  <2>2. CallerInv(c)' /\ pc'[c] \notin Carrying
    <3>1. CASE pc'[c] = "idle"
      BY <3>1 DEF CallerInv, Carrying
    <3>2. CASE pc'[c] = "existing" /\ KindOf(c) = "forwarded" /\ req'[c].item = ItemOf(c) /\ req'[c].row = NoRow
      <4>1. KindOf(c)' = "forwarded" /\ RowOf(c)' = NoRow
        BY <1>1, <3>2 DEF RowOf, ItemOf, KindOf
      <4> QED BY <3>2, <4>1 DEF CallerInv, Carrying
    <3> QED BY <2>1, <3>1, <3>2
  <2>3. \A i \in Item : HeardInv(i)'
    BY <1>1, <1>5, <2>1, HeardKept, TablesSame, RowsExist DEF RowsInv
  <2>4. \A r \in Row : req[c].row # r
    BY <1>1 DEF RowOf, Row, NoRow
  <2> QED BY <1>1, <1>2, <1>5, <2>1, <2>2, <2>3, <2>4, MoveKeeps
<1> QED BY <1>3, <1>4, <1>5 DEF Insert

(* A dispatch changes its own row only.                                    *)
LEMMA DispatchKeeps ==
  ASSUME TypeOK, RowsInv, NEW c \in Caller, pc[c] \in Carrying, Elsewhere(c), NEW R \in Row, R = RowOf(c),
         UNCHANGED <<kind, made, item, crashes, reported>>, tracked' \in {tracked, tracked \cup {R}}, faults > 0 => faults' > 0,
         handed' \in [Row -> Nat], unsure' \in [Item -> Nat], \A i \in Item : unsure'[i] >= unsure[i],
         \A r \in Row : r # R => status'[r] = status[r] /\ attempts'[r] = attempts[r] /\ handed'[r] = handed[r],
         handed'[R] >= handed[R],
         (SameJob(c) /\ pc'[c] \in Carrying) \/ pc'[c] = "idle",
         CallerInv(c)', RowInv(R)',
         status'[R] = "queued" /\ pc'[c] = "idle" => faults' > 0,
         \A i \in Item : heard'[i] = heard[i] \/ HeardInv(i)'
  PROVE  RowsInv'
<1>1. made' \in Nat /\ made' >= made /\ made' = made
  BY DEF TypeOK
<1>2. R \in 1..made /\ ~GivenUp(R)
  BY DEF RowsInv, TableInv, CallerInv, Carried, GivenUp
<1>3. ASSUME NEW r \in Row
      PROVE  RowInv(r)'
  <2>1. CASE r # R
    BY <1>1, <2>1, RowKept DEF RowsInv, TableInv
  <2> QED BY <2>1
<1>4. ASSUME NEW d \in Caller, d # c, pc[d] \in Carrying
      PROVE  RowOf(d) # R /\ RowOf(d) \in Row
  <2>1. RowOf(d) # R
    BY <1>4 DEF RowsInv, TableInv, Exclusive
  <2>2. RowOf(d) \in 1..made
    BY <1>4 DEF RowsInv, TableInv, CallerInv, Carried
  <2> QED BY <2>1, <2>2, RowsExist
<1>5. ASSUME NEW d \in Caller
      PROVE  CallerInv(d)'
  <2>1. CASE d # c
    BY <1>1, <1>4, <2>1, CallerKept DEF RowsInv, TableInv, Elsewhere
  <2> QED BY <2>1
<1>6. Exclusive'
  <2> SUFFICES ASSUME NEW d \in Caller, NEW e \in Caller, pc'[d] \in Carrying, pc'[e] \in Carrying,
                      req'[d].row = req'[e].row, d # e
               PROVE  FALSE
    BY DEF Exclusive, RowOf
  <2>1. pc'[c] \in Carrying => req'[c].row = R
    BY DEF SameJob, RowOf, Carrying
  <2>2. CASE d = c
    BY <1>4, <2>1, <2>2 DEF Elsewhere, RowOf
  <2>3. CASE e = c
    BY <1>4, <2>1, <2>3 DEF Elsewhere, RowOf
  <2>4. CASE d # c /\ e # c
    BY <2>4 DEF Elsewhere, RowOf, RowsInv, TableInv, Exclusive
  <2> QED BY <2>2, <2>3, <2>4
<1>7. Sorted' /\ Alone'
  BY DEF RowsInv, TableInv, Sorted, Alone
<1>8. ASSUME NEW i \in Item
      PROVE  HeardInv(i)'
  <2>1. CASE heard'[i] = heard[i]
    <3>1. ASSUME NEW r \in 1..made
          PROVE  /\ item'[r] = item[r] /\ handed'[r] >= handed[r]
                 /\ GivenUp(r) => GivenUp(r)'
      <4>1. r \in Row /\ handed'[r] >= handed[r]
        BY RowsExist DEF TypeOK
      <4> QED BY <1>2, <4>1 DEF GivenUp
    <3> QED BY <1>1, <2>1, <3>1, HeardKept DEF RowsInv
  <2> QED BY <2>1
<1>9. QueuedIsHeld'
  <2>1. ASSUME NEW r \in Row, status'[r] = "queued", item'[r] \in Send
        PROVE  \/ faults' > 0
               \/ pc'[c] # "idle" /\ req'[c].row = r
               \/ status[r] = "queued" /\ item'[r] = item[r] /\ (pc[c] = "idle" \/ req[c].row # r)
    <3>1. CASE r = R
      BY <2>1, <3>1 DEF SameJob, RowOf, Carrying
    <3>2. CASE r # R
      BY <2>1, <3>2 DEF RowOf
    <3> QED BY <3>1, <3>2
  <2>2. \A r \in Row : handed[r] > 0 => handed'[r] > 0
    BY DEF TypeOK
  <2> QED BY <2>1, <2>2, QueuedKept DEF RowsInv
<1> QED BY <1>3, <1>5, <1>6, <1>7, <1>8, <1>9 DEF RowsInv, TableInv

LEMMA HandOverRows ==
  ASSUME TypeOK, RowsInv, NEW c \in Caller, HandOver(c)
  PROVE  RowsInv'
<1> DEFINE R == RowOf(c)
<1>0. pc[c] = "send" /\ UNCHANGED <<kind, tableVars, heard, crashes, reportVars>>
  BY DEF HandOver
<1>1. Carried(c) /\ R \in 1..made /\ R \in Row /\ ItemOf(c) \in Item
  <2>1. Carried(c)
    BY <1>0 DEF RowsInv, TableInv, CallerInv, Carrying
  <2>2. ItemOf(c) \in Item
    BY DEF TypeOK, ItemOf, Requests
  <2> QED BY <2>1, <2>2, RowsExist DEF Carried
<1>2. /\ Elsewhere(c) /\ SameJob(c) /\ pc'[c] \in {"send", "record", "refused"}
      /\ handed' \in [Row -> Nat] /\ unsure' \in [Item -> Nat]
      /\ \A r \in Row : r # R => handed'[r] = handed[r]
      /\ \A i \in Item : unsure'[i] >= unsure[i]
      /\ handed'[R] \in {handed[R], handed[R] + 1}
      /\ pc'[c] = "record" => handed'[R] = handed[R] + 1 /\ unsure' = unsure
      /\ pc'[c] # "record" => handed'[R] = handed[R] \/ unsure'[ItemOf(c)] = unsure[ItemOf(c)] + 1
  BY <1>1, HandOverIs
<1>3. /\ item[R] = ItemOf(c) /\ status[R] = "queued" /\ KindOf(c) \in Dispatched /\ R \notin tracked
      /\ handed[R] <= unsure[ItemOf(c)]
  BY <1>0, <1>1 DEF Carried
<1>4. /\ handed[R] \in Nat /\ handed'[R] \in Nat /\ unsure[ItemOf(c)] \in Nat /\ unsure'[ItemOf(c)] \in Nat
      /\ unsure'[ItemOf(c)] >= unsure[ItemOf(c)]
  BY <1>1, <1>2 DEF TypeOK
<1>5. attempts[R] = 0 /\ R <= made /\ reported[R] = {}
  <2>1. RowInv(R)
    BY <1>1 DEF RowsInv, TableInv
  <2>2. attempts[R] = 0 /\ reported[R] = {}
    BY <1>3, <2>1 DEF RowInv
  <2>3. R <= made
    BY <1>1 DEF TypeOK
  <2> QED BY <2>2, <2>3
<1>6. /\ handed'[R] >= handed[R] /\ handed'[R] <= 1 + unsure'[ItemOf(c)]
      /\ pc'[c] = "record" => handed'[R] > 0
      /\ pc'[c] # "record" => handed'[R] <= unsure'[ItemOf(c)]
  BY <1>2, <1>3, <1>4
<1>7. /\ made' = made /\ item' = item /\ status' = status /\ attempts' = attempts
      /\ kind' = kind /\ heard' = heard /\ crashes' = crashes /\ tracked' = tracked /\ reported' = reported
  BY <1>0 DEF tableVars, reportVars
<1>8. faults > 0 => faults' > 0
  BY FaultIs DEF HandOver
<1> HIDE DEF R
<1>9. ASSUME NEW r \in Row, r = R
      PROVE  RowInv(r)'
  <2>1. unsure'[item'[r]] = unsure'[ItemOf(c)] /\ kind'[item'[r]] = KindOf(c)
    BY <1>3, <1>7, <1>9 DEF KindOf
  <2>2. attempts'[r] <= 1 + unsure'[item'[r]] /\ handed'[r] <= 1 + unsure'[item'[r]]
    BY <1>4, <1>5, <1>6, <1>7, <1>9, <2>1
  <2>3. ~(r > made') /\ status'[r] = "queued" /\ attempts'[r] = 0 /\ r \notin tracked' /\ reported'[r] = {}
    BY <1>1, <1>3, <1>5, <1>7, <1>9 DEF TypeOK
  <2> QED BY <1>3, <2>1, <2>2, <2>3 DEF RowInv
<1>10. CallerInv(c)'
  <2>1. RowOf(c)' = R /\ ItemOf(c)' = ItemOf(c) /\ KindOf(c)' = KindOf(c)
    BY <1>2, <1>7 DEF SameJob, RowOf, ItemOf, KindOf, R
  <2>2. attempts'[R] <= unsure'[ItemOf(c)]
    BY <1>4, <1>5, <1>7
  <2>3. Carried(c)'
    BY <1>1, <1>2, <1>3, <1>6, <1>7, <2>1, <2>2 DEF Carried
  <2> QED BY <1>2, <2>3 DEF CallerInv
<1>11. R \in Row /\ R = RowOf(c)
  BY <1>1 DEF R
<1>12. pc[c] \in Carrying /\ pc'[c] \in Carrying
  BY <1>0, <1>2 DEF Carrying
<1> QED
  <2>1. PICK r \in Row : r = R
    BY <1>11
  <2>2. RowInv(r)'
    BY <1>9, <2>1
  <2> QED BY <1>2, <1>6, <1>7, <1>8, <1>10, <1>11, <1>12, <2>1, <2>2, DispatchKeeps DEF Carrying

LEMMA RecordRows ==
  ASSUME TypeOK, RowsInv, NEW c \in Caller, Record(c)
  PROVE  RowsInv'
<1>0. pc[c] = "record" /\ UNCHANGED <<kind, handed, crashes, reported>>
  BY DEF Record
<1>1. PICK R \in Row : R = RowOf(c) /\ R \in 1..made
  <2>1. Carried(c)
    BY <1>0 DEF RowsInv, TableInv, CallerInv, Carrying
  <2> QED BY <2>1, RowsExist DEF Carried
<1>2. /\ Carried(c) /\ ItemOf(c) \in Item /\ RowInv(R)
      /\ pc[c] \in Carrying
  BY <1>0 DEF RowsInv, TableInv, CallerInv, Carrying, TypeOK, ItemOf, Requests
<1>3. /\ item[R] = ItemOf(c) /\ KindOf(c) \in Dispatched /\ (R \in tracked \/ status[R] = "queued")
      /\ handed[R] > 0 /\ attempts[R] <= unsure[ItemOf(c)]
      /\ handed[R] <= 1 + unsure[ItemOf(c)]
  BY <1>0, <1>1, <1>2 DEF Carried, RowInv
<1>4. /\ Elsewhere(c)
      /\ unsure' \in [Item -> Nat] /\ attempts' \in [Row -> Nat]
      /\ made' = made /\ item' = item
      /\ \A r \in Row : r # R => status'[r] = status[r] /\ attempts'[r] = attempts[r]
      /\ \A i \in Item : unsure'[i] >= unsure[i]
      /\ \A i \in Item : heard'[i] = heard[i] \/ (i = ItemOf(c) /\ heard'[i] = "sent")
      /\ \/ status'[R] = status[R] /\ attempts'[R] = attempts[R] /\ faults' > 0 /\ tracked' = tracked
         \/ /\ status'[R] = "sent" /\ attempts'[R] = attempts[R] + 1 /\ tracked' = tracked \cup {R}
            /\ pc'[c] = "idle" \/ unsure'[ItemOf(c)] = unsure[ItemOf(c)] + 1
      /\ (pc'[c] = "record" /\ SameJob(c)) \/ (pc'[c] = "idle" /\ req'[c] = NoRequest)
  BY <1>1, RecordIs
<1>5. faults > 0 => faults' > 0
  BY FaultIs DEF Record
<1>6. /\ handed[R] \in Nat /\ attempts[R] \in Nat /\ attempts'[R] \in Nat
      /\ unsure[ItemOf(c)] \in Nat /\ unsure'[ItemOf(c)] \in Nat
      /\ unsure'[ItemOf(c)] >= unsure[ItemOf(c)] /\ handed' \in [Row -> Nat] /\ handed'[R] >= handed[R]
  BY <1>0, <1>2, <1>4 DEF TypeOK
<1>7. RowInv(R)'
  <2>0. R <= made' /\ ~(R > made') /\ made' \in Nat
    BY <1>1, <1>4 DEF TypeOK
  <2>1. unsure'[item'[R]] = unsure'[ItemOf(c)] /\ kind'[item'[R]] = KindOf(c)
    BY <1>0, <1>3, <1>4 DEF KindOf
  <2>2. attempts'[R] <= 1 + unsure'[ItemOf(c)] /\ handed'[R] <= 1 + unsure'[ItemOf(c)]
    <3>1. handed'[R] = handed[R]
      BY <1>0
    <3>2. attempts'[R] <= attempts[R] + 1
      BY <1>4, <1>6
    <3> QED BY <1>3, <1>6, <3>1, <3>2
  <2>3. handed'[R] > 0
    BY <1>0, <1>3
  <2>4. CASE status'[R] = status[R] /\ attempts'[R] = attempts[R] /\ tracked' = tracked
    BY <1>0, <1>2, <1>4, <2>0, <2>4, RowKept
  <2>5. CASE status'[R] = "sent" /\ tracked' = tracked \cup {R}
    BY <1>3, <2>0, <2>1, <2>2, <2>3, <2>5 DEF RowInv
  <2> QED BY <1>4, <2>4, <2>5
<1>8. CallerInv(c)'
  <2>1. CASE pc'[c] = "idle"
    BY <2>1 DEF CallerInv, Carrying
  <2>2. CASE pc'[c] = "record" /\ SameJob(c)
    <3>1. RowOf(c)' = R /\ ItemOf(c)' = ItemOf(c) /\ KindOf(c)' = KindOf(c)
      BY <1>0, <1>1, <2>2 DEF SameJob, RowOf, ItemOf, KindOf
    <3>2. attempts'[R] <= unsure'[ItemOf(c)]
      BY <1>3, <1>4, <1>6, <2>2
    <3>3. handed'[R] > 0 /\ (R \in tracked' \/ status'[R] = "queued")
      BY <1>0, <1>3, <1>4
    <3>4. Carried(c)'
      BY <1>1, <1>3, <1>4, <2>2, <3>1, <3>2, <3>3 DEF Carried
    <3> QED BY <2>2, <3>4 DEF CallerInv
  <2> QED BY <1>4, <2>1, <2>2
<1>9. ASSUME NEW i \in Item
      PROVE  heard'[i] = heard[i] \/ HeardInv(i)'
  <2>1. CASE heard'[i] = heard[i]
    BY <2>1
  <2>2. CASE i = ItemOf(c) /\ heard'[i] = "sent"
    <3>1. R \in {r \in 1..made' : item'[r] = i} /\ handed'[R] > 0
      BY <1>0, <1>1, <1>3, <1>4, <2>2
    <3>2. Accepted(i)'
      BY <3>1 DEF Accepted, RowsOf
    <3> QED BY <2>2, <3>2 DEF HeardInv
  <2> QED BY <1>4, <2>1, <2>2
<1>10. status'[R] = "queued" /\ pc'[c] = "idle" => faults' > 0
  BY <1>4
<1>11. (SameJob(c) /\ pc'[c] \in Carrying) \/ pc'[c] = "idle"
  BY <1>4 DEF Carrying
<1> QED BY <1>0, <1>1, <1>2, <1>4, <1>5, <1>6, <1>7, <1>8, <1>9, <1>10, <1>11, DispatchKeeps

LEMMA RecordRefusedRows ==
  ASSUME TypeOK, RowsInv, NEW c \in Caller, RecordRefused(c)
  PROVE  RowsInv'
<1>0. pc[c] = "refused" /\ UNCHANGED <<kind, handed, unsure, crashes, tracked, reported>>
  BY DEF RecordRefused, histVars, reportVars
<1>1. PICK R \in Row : R = RowOf(c) /\ R \in 1..made
  <2>1. Carried(c)
    BY <1>0 DEF RowsInv, TableInv, CallerInv, Carrying
  <2> QED BY <2>1, RowsExist DEF Carried
<1>2. /\ Carried(c) /\ ItemOf(c) \in Item /\ RowInv(R)
      /\ pc[c] \in Carrying
  BY <1>0 DEF RowsInv, TableInv, CallerInv, Carrying, TypeOK, ItemOf, Requests
<1>3. /\ item[R] = ItemOf(c) /\ status[R] = "queued" /\ KindOf(c) \in Dispatched
      /\ handed[R] <= unsure[ItemOf(c)] /\ attempts[R] = 0 /\ R \notin tracked /\ reported[R] = {}
  BY <1>0, <1>1, <1>2 DEF Carried, RowInv
<1>4. /\ Elsewhere(c) /\ pc'[c] = "idle"
      /\ made' = made /\ item' = item
      /\ \A r \in Row : r # R => status'[r] = status[r] /\ attempts'[r] = attempts[r]
      /\ \A i \in Item :
           heard'[i] = heard[i] \/ (i = ItemOf(c) /\ heard'[i] = "failed" /\ status'[R] = "failed")
      /\ \/ status'[R] = status[R] /\ attempts'[R] = attempts[R] /\ faults' > 0
         \/ status'[R] = "failed" /\ attempts'[R] = attempts[R] + 1
  BY <1>1, RecordRefusedIs
<1>5. faults > 0 => faults' > 0
  BY FaultIs DEF RecordRefused
<1>6. /\ handed[R] \in Nat /\ unsure[ItemOf(c)] \in Nat
      /\ unsure' \in [Item -> Nat] /\ \A i \in Item : unsure'[i] >= unsure[i]
      /\ handed' \in [Row -> Nat] /\ handed'[R] >= handed[R]
  BY <1>0, <1>2 DEF TypeOK
<1>7. RowInv(R)'
  <2>1. unsure'[item'[R]] = unsure[ItemOf(c)] /\ kind'[item'[R]] = KindOf(c)
    BY <1>0, <1>3, <1>4 DEF KindOf
  <2>2. handed'[R] <= unsure[ItemOf(c)] /\ attempts'[R] \in {0, 1}
    BY <1>0, <1>3, <1>4
  <2>3. handed'[R] <= 1 + unsure[ItemOf(c)] /\ attempts'[R] <= 1 + unsure[ItemOf(c)]
    BY <1>0, <1>6, <2>2
  <2>4. R <= made' /\ ~(R > made')
    BY <1>1, <1>4 DEF TypeOK
  <2>5. /\ status'[R] \in {"queued", "failed"}
        /\ status'[R] = "queued" => attempts'[R] = 0
    BY <1>3, <1>4
  <2>6. R \notin tracked' /\ reported'[R] = {}
    BY <1>0, <1>3
  <2> QED BY <1>3, <2>1, <2>2, <2>3, <2>4, <2>5, <2>6 DEF RowInv
<1>8. CallerInv(c)'
  BY <1>4 DEF CallerInv, Carrying
<1>9. ASSUME NEW i \in Item
      PROVE  heard'[i] = heard[i] \/ HeardInv(i)'
  <2>1. CASE heard'[i] = heard[i]
    BY <2>1
  <2>2. CASE i = ItemOf(c) /\ heard'[i] = "failed" /\ status'[R] = "failed"
    <3>1. R \in {r \in 1..made' : item'[r] = i}
      BY <1>1, <1>3, <1>4, <2>2
    <3>2. R \in RowsOf(i)' /\ GivenUp(R)'
      BY <1>0, <1>3, <2>2, <3>1 DEF RowsOf, GivenUp
    <3> QED BY <2>2, <3>2 DEF HeardInv
  <2> QED BY <1>4, <2>1, <2>2
<1>10. status'[R] = "queued" /\ pc'[c] = "idle" => faults' > 0
  BY <1>3, <1>4
<1> QED BY <1>0, <1>1, <1>2, <1>4, <1>5, <1>6, <1>7, <1>8, <1>9, <1>10, DispatchKeeps

LEMMA OtherRows ==
  ASSUME TypeOK, RowsInv, NextPass \/ Crash \/ \E r \in Row : Tap(r)
  PROVE  RowsInv'
<1>1. UNCHANGED <<kind, tableVars, histVars, heard, reportVars>>
  BY DEF NextPass, Crash, Tap
<1>2. /\ made' \in Nat /\ made' >= made /\ handed' \in [Row -> Nat] /\ unsure' \in [Item -> Nat]
      /\ \A i \in Item : unsure'[i] >= unsure[i]
      /\ kind' = kind /\ made' = made /\ item' = item /\ status' = status
      /\ attempts' = attempts /\ handed' = handed /\ tracked' = tracked /\ reported' = reported
  BY <1>1, TablesSame
<1>3. ASSUME NEW r \in Row
      PROVE  RowInv(r)'
  BY <1>2, RowKept DEF RowsInv, TableInv
<1>4. \A i \in Item : HeardInv(i)'
  BY <1>1, HeardKept, TablesSame, RowsExist DEF RowsInv
<1>5. Sorted' /\ Alone'
  BY <1>2 DEF RowsInv, TableInv, Sorted, Alone
<1>6. (\A c \in Caller : CallerInv(c)') /\ Exclusive' /\ QueuedIsHeld'
  <2>1. CASE Crash
    <3>1. (\A c \in Caller : pc'[c] = "idle") /\ crashes' > 0
      BY <2>1 DEF Crash, TypeOK
    <3> QED BY <3>1 DEF CallerInv, Carrying, Exclusive, QueuedIsHeld
  <2>2. CASE UNCHANGED <<pc, req, faults, crashes>>
    <3>1. \A c \in Caller : CallerInv(c)'
      BY <1>2, <2>2, CallerKept DEF RowsInv, TableInv
    <3>2. Exclusive'
      BY <2>2 DEF RowsInv, TableInv, Exclusive, RowOf
    <3>3. QueuedIsHeld'
      BY <1>2, <2>2 DEF RowsInv, QueuedIsHeld
    <3> QED BY <3>1, <3>2, <3>3
  <2> QED BY <2>1, <2>2 DEF NextPass, Tap, budgetVars
<1> QED BY <1>3, <1>4, <1>5, <1>6 DEF RowsInv, TableInv

(* A report is of a row the provider took, and says of it what it then     *)
(* reads; the dispatch that may still record it does not care what it read.*)
LEMMA ReportRows ==
  ASSUME TypeOK, RowsInv, NEW r \in Row, NEW s \in Answers, DeliveryReport(r, s)
  PROVE  RowsInv'
<1>1. /\ r \in tracked /\ s \in {"queued", "sent", "delivered", "undelivered", "failed"}
      /\ status' = [status EXCEPT ![r] = s] /\ reported' = [reported EXCEPT ![r] = @ \cup {s}]
      /\ UNCHANGED <<kind, made, item, attempts, tracked, pc, req, heard, handed, unsure, faults, crashes>>
  BY DEF DeliveryReport, Reportable, histVars, budgetVars
<1>2. /\ status'[r] = s /\ reported'[r] = reported[r] \cup {s}
      /\ \A q \in Row : q # r => status'[q] = status[q] /\ reported'[q] = reported[q]
      /\ \A q \in Row : reported[q] \subseteq reported'[q]
  BY <1>1 DEF TypeOK
<1>3. /\ made' \in Nat /\ made' >= made /\ handed' \in [Row -> Nat] /\ unsure' \in [Item -> Nat]
      /\ \A i \in Item : unsure'[i] >= unsure[i]
      /\ \A q \in Row : handed'[q] >= handed[q]
  BY <1>1 DEF TypeOK
<1>4. ASSUME NEW q \in Row
      PROVE  RowInv(q)'
  <2>1. CASE q # r
    BY <1>1, <1>2, <1>3, <2>1, RowKept DEF RowsInv, TableInv
  <2>2. CASE q = r
    <3>1. RowInv(r)
      BY DEF RowsInv, TableInv
    <3>2. r <= made /\ kind[item[r]] \in Dispatched /\ handed[r] > 0 /\ ~(r > made)
      BY <1>1, <3>1 DEF RowInv, TypeOK, Row
    <3> QED BY <1>1, <1>2, <2>2, <3>1, <3>2 DEF RowInv
  <2> QED BY <2>1, <2>2
<1>5. ASSUME NEW d \in Caller
      PROVE  CallerInv(d)'
  <2>1. pc[d] \in Carrying => RowOf(d) \in Row
    BY RowsExist DEF RowsInv, TableInv, CallerInv, Carried
  <2> QED BY <1>1, <1>2, <1>3, <2>1, CallerKept DEF RowsInv, TableInv
<1>6. Sorted' /\ Alone' /\ Exclusive'
  BY <1>1 DEF RowsInv, TableInv, Sorted, Alone, Exclusive, RowOf
<1>7. ASSUME NEW i \in Item
      PROVE  HeardInv(i)'
  <2>1. ASSUME NEW q \in 1..made
        PROVE  q \in Row /\ (GivenUp(q) => GivenUp(q)')
    <3>1. q \in Row
      BY RowsExist
    <3> QED BY <1>1, <1>2, <3>1 DEF GivenUp
  <2> QED BY <1>1, <1>2, <1>3, <2>1, HeardKept DEF RowsInv
<1>8. QueuedIsHeld'
  <2> SUFFICES ASSUME NEW i \in Send, NEW q \in Row, item[q] = i, status'[q] = "queued",
                      ~(crashes > 0), ~(faults > 0)
               PROVE  \/ \E c \in Caller : pc[c] # "idle" /\ req[c].row = q
                      \/ handed[q] > 0 /\ "queued" \in reported'[q]
    BY <1>1 DEF QueuedIsHeld
  <2>1. CASE q = r
    <3>1. handed[r] > 0
      BY <1>1 DEF RowsInv, TableInv, RowInv
    <3> QED BY <1>2, <2>1, <3>1
  <2>2. CASE q # r
    BY <1>2, <2>2 DEF RowsInv, QueuedIsHeld
  <2> QED BY <2>1, <2>2
<1> QED BY <1>4, <1>5, <1>6, <1>7, <1>8 DEF RowsInv, TableInv

-----------------------------------------------------------------------------
(* The recipients' rows are as many as the recipients, so each has one.    *)
LEMMA InitialRows ==
  ASSUME Init
  PROVE  \A r, s \in 1..made : item[r] = item[s] => r = s
<1>1. made \in Nat /\ Cardinality(Notice) = made /\ IsFiniteSet(Notice)
  BY Constants, ItemsAssumption DEF Init
<1>2. {item[r] : r \in 1..made} = Notice
  BY <1>1 DEF Init
<1> DEFINE g == [r \in 1..made |-> item[r]]
<1>3. g \in Surjection(1..made, Notice)
  BY <1>2 DEF Surjection
<1>4. IsFiniteSet(1..made) /\ Cardinality(1..made) = made
  <2>1. 1 \in Int /\ made \in Int
    BY <1>1
  <2> QED BY <1>1, <2>1, FS_Interval
<1>5. Cardinality(1..made) = Cardinality(Notice)
  BY <1>1, <1>4
<1> HIDE DEF g
<1>6. g \in Injection(1..made, Notice)
  BY <1>3, <1>4, <1>5, FS_SurjSameCardinalityImpliesInj
<1>7. \A r, s \in 1..made : g[r] = g[s] => r = s
  BY <1>6 DEF Injection, IsInjective
<1> QED BY <1>7 DEF g

LEMMA Initially ==
  ASSUME Init
  PROVE  IInv
<1>0. /\ made = Cardinality(Notice) /\ made \in 0..MaxRows /\ made \in Nat
      /\ status = [r \in Row |-> IF r <= made THEN "queued" ELSE "none"]
      /\ attempts = [r \in Row |-> 0] /\ handed = [r \in Row |-> 0] /\ unsure = [i \in Item |-> 0]
      /\ tracked = {} /\ reported = [r \in Row |-> {}]
  BY Constants DEF Init
<1>1. TypeOK
  <2>1. /\ kind \in [Item -> Kinds] /\ item \in [Row -> Item] /\ body \in Links
        /\ status \in [Row -> Answers]
    BY <1>0 DEF Init, Authored, Links, Answers
  <2>2. NoRequest \in Requests /\ NoLink \in Links
    BY NoRequestType DEF NoLink, Links
  <2>3. /\ pc \in [Caller -> Steps] /\ req \in [Caller -> Requests] /\ link \in [Row -> Links]
        /\ cache \in [Ref -> {"none", "pending", "got", "dropped"}]
        /\ heard \in [Item -> Answers]
    BY <2>2 DEF Init, Steps, Answers
  <2>4. /\ attempts \in [Row -> Nat] /\ handed \in [Row -> Nat] /\ unsure \in [Item -> Nat]
        /\ tracked \in SUBSET Row /\ reported \in [Row -> SUBSET Answers]
    BY <1>0
  <2>5. clicked = {} /\ taps = {} /\ mailed = {} /\ calls = 0 /\ faults = 0 /\ crashes = 0
    BY DEF Init
  <2> QED BY <1>0, <2>1, <2>3, <2>4, <2>5 DEF TypeOK
<1>2. Sorted
  BY DEF Init, Sorted
<1>3. \A c \in Caller : pc[c] = "idle"
  BY DEF Init
<1>4. ASSUME NEW r \in Row
      PROVE  /\ r <= made => r \in 1..made /\ item[r] \in Notice /\ kind[item[r]] = "notice"
             /\ RowInv(r)
  <2>1. ASSUME r <= made
        PROVE  r \in 1..made /\ item[r] \in Notice /\ kind[item[r]] = "notice"
    <3>1. r \in 1..made
      BY <1>0, <2>1 DEF Row
    <3>2. {item[q] : q \in 1..made} = Notice
      BY <1>0 DEF Init
    <3> QED BY <1>2, <3>1, <3>2 DEF Sorted
  <2>2. /\ handed[r] = 0 /\ attempts[r] = 0 /\ unsure[item[r]] = 0
        /\ r \notin tracked /\ reported[r] = {}
    BY <1>0, <1>1 DEF TypeOK
  <2>3. status[r] = (IF r <= made THEN "queued" ELSE "none")
    BY <1>0
  <2>4. r > made => ~(r <= made)
    BY <1>0 DEF Row
  <2>5. handed[r] <= 1 + unsure[item[r]] /\ attempts[r] <= 1 + unsure[item[r]]
    BY <2>2
  <2>6. RowInv(r)
    BY <2>1, <2>2, <2>3, <2>4, <2>5 DEF RowInv, Dispatched
  <2> QED BY <2>1, <2>6
<1>5. TableInv
  <2>1. Alone
    BY InitialRows DEF Alone
  <2>2. Exclusive /\ \A c \in Caller : CallerInv(c)
    BY <1>3 DEF Exclusive, CallerInv, Carrying
  <2> QED BY <1>2, <1>4, <2>1, <2>2 DEF TableInv
<1>6. \A i \in Item : HeardInv(i)
  BY DEF Init, HeardInv
<1>7. QueuedIsHeld
  <2> SUFFICES ASSUME NEW i \in Send, NEW r \in Row, item[r] = i, status[r] = "queued" PROVE FALSE
    BY DEF QueuedIsHeld
  <2>1. r <= made
    BY <1>0
  <2>2. kind[i] = "notice"
    BY <1>4, <2>1
  <2> QED BY <1>2, <2>2 DEF Sorted
<1>8. LinkInv
  BY DEF Init, LinkInv, LinksOwned, TapsOwned, NoLink
<1>9. PassInv
  BY <1>3 DEF Init, PassInv, Following, Fetching, FetchedOnce, MailedAlike, InNotice, Carrying
<1> QED BY <1>1, <1>5, <1>6, <1>7, <1>8, <1>9 DEF IInv, RowsInv

LEMMA StepKeeps ==
  ASSUME IInv, Next
  PROVE  IInv'
<1>0. TypeOK /\ RowsInv /\ LinkInv /\ LinksOwned /\ PassInv /\ Sorted
  BY DEF IInv, LinkInv, RowsInv, TableInv
<1>1. ASSUME UNCHANGED trackVars, handed' = handed
      PROVE  LinkInv'
  <2>1. handed' \in [Row -> Nat] /\ \A r \in Row : handed'[r] >= handed[r]
    BY <1>0, <1>1 DEF TypeOK
  <2> QED BY <1>0, <1>1, <2>1, LinksKept
<1>2. ASSUME NEW c \in Caller,
             (\E i \in Item : BeginSend(c, i) \/ BeginForwarded(c, i) \/ BeginText(c, i) \/ BeginMail(c, i))
             \/ (\E r \in Row : BeginNotice(c, r))
      PROVE  IInv'
  <2>1. UNCHANGED <<trackVars, handed>>
    BY <1>2 DEF BeginSend, BeginForwarded, BeginText, BeginMail, BeginNotice, Begin, histVars
  <2> QED BY <1>0, <1>1, <1>2, <2>1, BeginTypes, BeginRows, BeginPass DEF IInv
<1>3. ASSUME NEW c \in Caller, Lookup(c) \/ Insert(c) \/ Existing(c)
      PROVE  IInv'
  <2>1. UNCHANGED <<trackVars, handed>>
    BY <1>3 DEF Lookup, Insert, Existing, histVars
  <2>2. TypeOK' /\ RowsInv' /\ PassInv'
    BY <1>0, <1>3, LookupTypes, InsertTypes, ExistingTypes, LookupRows, InsertRows, ExistingRows, RequestPass
  <2> QED BY <1>1, <2>1, <2>2 DEF IInv
<1>4. ASSUME NEW c \in Caller, Fetch(c) \/ Fetched(c) \/ FromCache(c)
      PROVE  IInv'
  <2>1. UNCHANGED <<trackVars, handed>>
    BY <1>4 DEF Fetch, Fetched, FromCache, histVars
  <2>2. TypeOK' /\ RowsInv' /\ PassInv'
    BY <1>0, <1>4, AttachTypes, AttachRows, FetchPass, FetchedPass, FromCachePass DEF PassInv
  <2> QED BY <1>1, <2>1, <2>2 DEF IInv
<1>5. ASSUME NEW c \in Caller, Compose(c) \/ HandOver(c) \/ Record(c) \/ RecordRefused(c)
      PROVE  IInv'
  <2>1. RowOf(c) \in Row /\ CallerInv(c)
    <3>1. pc[c] \in Carrying /\ CallerInv(c)
      BY <1>0, <1>5 DEF Compose, HandOver, Record, RecordRefused, Carrying, RowsInv, TableInv
    <3> QED BY <1>0, <3>1, RowsExist DEF CallerInv, Carried
  <2>2. TypeOK' /\ PassInv'
    BY <1>0, <1>5, <2>1, DispatchTypes, DispatchPass
  <2>3. RowsInv'
    BY <1>0, <1>5, <2>1, ComposeRows, HandOverRows, RecordRows, RecordRefusedRows
  <2>4. LinkInv'
    <3>1. CASE Compose(c)
      BY <1>0, <2>1, <3>1, ComposeLinks
    <3>2. CASE HandOver(c)
      <4>1. UNCHANGED trackVars
        BY <3>2 DEF HandOver
      <4>2. handed' \in [Row -> Nat] /\ \A r \in Row : handed'[r] >= handed[r]
        <5>1. /\ handed' \in [Row -> Nat] /\ \A r \in Row : r # RowOf(c) => handed'[r] = handed[r]
              /\ handed'[RowOf(c)] \in {handed[RowOf(c)], handed[RowOf(c)] + 1}
          BY <1>0, <2>1, <3>2, HandOverIs
        <5> QED BY <1>0, <2>1, <5>1 DEF TypeOK
      <4> QED BY <1>0, <4>1, <4>2, LinksKept
    <3>3. CASE Record(c) \/ RecordRefused(c)
      BY <1>1, <3>3 DEF Record, RecordRefused, histVars
    <3> QED BY <1>5, <3>1, <3>2, <3>3
  <2> QED BY <2>2, <2>3, <2>4 DEF IInv
<1>6. ASSUME NextPass \/ Crash \/ (\E r \in Row : Tap(r)) \/ \E r \in Row, s \in Answers : DeliveryReport(r, s)
      PROVE  IInv'
  <2>1. TypeOK' /\ RowsInv' /\ PassInv'
    BY <1>0, <1>6, OtherTypes, OtherRows, ReportRows, OtherPass
  <2>2. LinkInv'
    <3>1. CASE NextPass \/ Crash
      BY <1>1, <3>1 DEF NextPass, Crash, histVars
    <3>2. CASE \E r \in Row : Tap(r)
      BY <1>0, <3>2, TapLinks
    <3>3. CASE \E r \in Row, s \in Answers : DeliveryReport(r, s)
      BY <1>1, <3>3 DEF DeliveryReport, histVars
    <3> QED BY <1>6, <3>1, <3>2, <3>3
  <2> QED BY <2>1, <2>2 DEF IInv
<1> QED BY <1>2, <1>3, <1>4, <1>5, <1>6 DEF Next, Work

(* The inductive invariant, the types included, holds throughout.          *)
THEOREM Inductive == Spec => []IInv
<1>1. ASSUME IInv, UNCHANGED vars
      PROVE  IInv'
  <2>1. /\ UNCHANGED <<kind, made, item, status, attempts, clicked, link, taps, body>>
        /\ UNCHANGED <<pc, req, cache, mailed, heard, handed, unsure, calls, faults, crashes>>
        /\ UNCHANGED <<tracked, reported>>
    BY <1>1 DEF vars, tableVars, trackVars, passVars, histVars, budgetVars, reportVars
  <2>2. TypeOK /\ RowsInv /\ LinkInv /\ PassInv
    BY <1>1 DEF IInv
  <2>3. TypeOK'
    BY <2>1, <2>2 DEF TypeOK
  <2>4. LinkInv'
    BY <2>1, <2>2 DEF LinkInv, LinksOwned, TapsOwned
  <2>5. PassInv'
    BY <2>1, <2>2 DEF PassInv, Following, Fetching, FetchedOnce, MailedAlike, InNotice, KindOf, ItemOf
  <2>6. TableInv'
    BY <2>1, <2>2 DEF RowsInv, TableInv, Sorted, Alone, Exclusive, RowInv, CallerInv, Carried, RowOf, KindOf, ItemOf
  <2>7. RowsInv'
    BY <2>1, <2>2, <2>6 DEF RowsInv, HeardInv, GivenUp, Accepted, RowsOf, QueuedIsHeld
  <2> QED BY <2>3, <2>4, <2>5, <2>7 DEF IInv
<1>2. ASSUME IInv, [Next]_vars
      PROVE  IInv'
  BY <1>1, <1>2, StepKeeps
<1> QED BY <1>2, Initially, PTL DEF Spec

(* However often reside repeats a send, and however its requests overlap   *)
(* or die, the provider is given it once, and once more for each failure   *)
(* that hid what had become of it; and so are the attempts counted.        *)
THEOREM GivenOnce == Spec => []SentOnce
<1>1. ASSUME IInv
      PROVE  SentOnce
  <2>0. TypeOK /\ Sorted /\ Alone /\ \A r \in Row : RowInv(r)
    BY <1>1 DEF IInv, RowsInv, TableInv
  <2> SUFFICES ASSUME NEW i \in Send
               PROVE  /\ Cardinality({r \in RowsOf(i) : handed[r] > 0}) <= 1
                      /\ \A r \in RowsOf(i) : handed[r] <= 1 + unsure[i] /\ attempts[r] <= 1 + unsure[i]
    BY DEF SentOnce
  <2>1. \A r \in RowsOf(i) : r \in Row /\ r \in 1..made /\ item[r] = i
    BY <2>0, RowsExist DEF RowsOf
  <2>2. \A r \in RowsOf(i) : handed[r] <= 1 + unsure[i] /\ attempts[r] <= 1 + unsure[i]
    BY <2>0, <2>1 DEF RowInv
  <2>3. kind[i] # "direct"
    BY <2>0 DEF Sorted
  <2>4. \A r, s \in RowsOf(i) : r = s
    BY <2>0, <2>1, <2>3 DEF Alone
  <2> DEFINE S == {r \in RowsOf(i) : handed[r] > 0}
  <2>5. Cardinality(S) <= 1
    <3>1. CASE S = {}
      BY <3>1, FS_EmptySet
    <3>2. ASSUME NEW x \in S
          PROVE  Cardinality(S) <= 1
      <4>1. S = {x}
        BY <2>4
      <4> QED BY <4>1, FS_Singleton
    <3> QED BY <3>1, <3>2
  <2> QED BY <2>2, <2>5
<1> QED BY <1>1, Inductive, PTL

(* A message of reside that waits is in somebody's hands, unless the       *)
(* process died or a statement failed; one that nobody has and that says   *)
(* queued all the same went out, and its provider reported so.             *)
THEOREM WaitingIsHeld == Spec => []QueuedIsHeld
<1>1. IInv => QueuedIsHeld
  BY DEF IInv, RowsInv
<1> QED BY <1>1, Inductive, PTL

(* Reside hears "sent" of what the provider has and "failed" of what it    *)
(* has not, unless a failure hid that or the provider reported it; a       *)
(* delivery is one the provider reported, and a text reported landed is    *)
(* there.                                                                  *)
THEOREM HeardIsTrue == Spec => []AnswersAreTrue
<1>1. ASSUME IInv
      PROVE  AnswersAreTrue
  <2>0. TypeOK /\ Alone /\ (\A r \in Row : RowInv(r)) /\ \A i \in Item : HeardInv(i)
    BY <1>1 DEF IInv, RowsInv, TableInv
  <2>1. ASSUME NEW i \in Item, Accepted(i), NEW r \in RowsOf(i), GivenUp(r)
        PROVE  unsure[i] > 0
    <3>1. PICK s \in RowsOf(i) : handed[s] > 0
      BY <2>1 DEF Accepted
    <3>2. /\ r \in 1..made /\ s \in 1..made /\ item[r] = i /\ item[s] = i /\ r \in Row
      BY <2>0, RowsExist DEF RowsOf
    <3>3. kind[i] \in Dispatched /\ handed[r] <= unsure[i]
      BY <2>0, <2>1, <3>2 DEF RowInv, GivenUp
    <3>4. r = s
      BY <2>0, <3>2, <3>3 DEF Alone, Dispatched
    <3>5. handed[r] \in Nat /\ unsure[i] \in Nat
      BY <2>0, <3>2 DEF TypeOK
    <3> QED BY <3>1, <3>3, <3>4, <3>5
  <2>2. ASSUME NEW i \in Item, heard[i] \in {"failed", "undelivered"}
        PROVE  ~Accepted(i) \/ unsure[i] > 0 \/ \E r \in RowsOf(i) : heard[i] \in reported[r]
    <3>1. PICK r \in RowsOf(i) : heard[i] \in reported[r] \/ (heard[i] = "failed" /\ GivenUp(r))
      BY <2>0, <2>2 DEF HeardInv
    <3> QED BY <2>1, <3>1
  <2>3. \A i \in Item :
          /\ heard[i] = "sent" => Accepted(i)
          /\ heard[i] = "delivered" => kind[i] = "inbox" \/ \E r \in RowsOf(i) : "delivered" \in reported[r]
          /\ heard[i] = "received" => RowsOf(i) # {}
    BY <2>0 DEF HeardInv
  <2> QED BY <2>2, <2>3 DEF AnswersAreTrue
<1> QED BY <1>1, Inductive, PTL

(* The recipients of a notice drained in one pass all get the same         *)
(* attachments, however their fetches interleave.                          *)
THEOREM AllAlike == Spec => []SameForAll
<1>1. ASSUME IInv
      PROVE  SameForAll
  <2>1. ASSUME NEW g \in mailed, NEW h \in mailed
        PROVE  g = h
    <3>1. MailedAlike /\ Len(Refs) + 1 \in 1..(Len(Refs) + 1)
      BY <1>1, Constants DEF IInv, PassInv
    <3>2. PICK t \in 0..Budget : Stands(cache, Len(Refs) + 1, [got |-> g, total |-> t])
      BY <3>1 DEF MailedAlike
    <3>3. PICK v \in 0..Budget : Stands(cache, Len(Refs) + 1, [got |-> h, total |-> v])
      BY <3>1 DEF MailedAlike
    <3>4. [got |-> g, total |-> t] = [got |-> h, total |-> v]
      BY <3>1, <3>2, <3>3, OneEnd
    <3>5. [got |-> g, total |-> t].got = [got |-> h, total |-> v].got
      BY <3>4
    <3> QED BY <3>5
  <2>2. CASE mailed = {}
    BY <2>2, FS_EmptySet DEF SameForAll
  <2>3. ASSUME NEW g \in mailed
        PROVE  SameForAll
    <3>1. mailed = {g}
      BY <2>1
    <3>2. Cardinality({g}) = 1
      BY FS_Singleton
    <3> QED BY <3>1, <3>2 DEF SameForAll
  <2> QED BY <2>2, <2>3
<1> QED BY <1>1, Inductive, PTL

(* A click is put down to the message whose email held the link, or to one *)
(* whose link, through the recorder, was pasted into that email.           *)
THEOREM ClicksAreOwned == Spec => []ClicksAttributed
<1>1. ASSUME IInv
      PROVE  ClicksAttributed
  <2> SUFFICES ASSUME NEW r \in clicked
               PROVE  \/ <<r, r>> \in taps
                      \/ \E q \in Row : <<r, q>> \in taps /\ link[q].form = "wrapped"
    BY DEF ClicksAttributed
  <2>1. PICK q \in Row : <<r, q>> \in taps
    BY <1>1 DEF IInv, LinkInv, TapsOwned
  <2>2. r = q \/ link[q].form = "wrapped"
    BY <1>1, <2>1 DEF IInv, LinkInv, TapsOwned
  <2> QED BY <2>1, <2>2
<1> QED BY <1>1, Inductive, PTL
=============================================================================
