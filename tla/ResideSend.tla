----------------------------- MODULE ResideSend -----------------------------
(***************************************************************************)
(* Messages that reside sends through one tenant, and what residents send: *)
(* each a request that may be repeated because its answer was lost.  A     *)
(* send is looked up by its idempotency key, inserted, and dispatched: the *)
(* links of an email are made measurable, the message is handed to the     *)
(* provider and the outcome recorded; what the provider reports later of a *)
(* message it took is written over that.  The recipients of a bulk notice  *)
(* are dispatched by the same code (their queue is OutboundBatch) and      *)
(* share the attachments fetched in one pass of the worker.                *)
(*                                                                         *)
(* Who a message is from and which conversation it lands in are the        *)
(* business of Identities and Conversations.  A statement may fail, with   *)
(* or without having been committed, and the process may die.  One action  *)
(* is one statement or one call.                                           *)
(***************************************************************************)
EXTENDS Integers, FiniteSets, Sequences

CONSTANTS
  Caller,     \* requests and workers in flight at once
  Send,       \* messages of reside, each with its idempotency key
  Text,       \* texts and emails of residents
  Notice,     \* recipients of one bulk notice, whose rows are made
  Refs,       \* attachment references of an email, in order
  SizeOf,     \* reference -> size
  Budget,     \* MAX_TOTAL_ATTACHMENT_BYTES
  Retries,    \* retries of a provider call, and of the record of a send
  MaxRows,    \* bound: messages
  MaxCalls,   \* bound: requests, and recipients begun
  MaxTaps,    \* bound: links followed
  MaxFaults,  \* bound: statements and calls that fail, and process deaths
  MaxReports  \* bound: different statuses the provider reports of one message

Item == Send \cup Text \cup Notice
Ref == {Refs[n] : n \in DOMAIN Refs}
Row == 1..MaxRows
NoRow == 0

ASSUME BoundsAssumption ==
  /\ Retries \in Nat /\ MaxRows \in Nat /\ MaxCalls \in Nat /\ MaxTaps \in Nat
  /\ MaxFaults \in Nat /\ MaxReports \in Nat /\ Budget \in Nat
  /\ Refs \in Seq(Ref) /\ SizeOf \in [Ref -> Nat]

ASSUME ItemsAssumption ==
  /\ Send # {}
  /\ IsFiniteSet(Notice) /\ Cardinality(Notice) <= MaxRows
  /\ \A X, Y \in {Send, Text, Notice} : X = Y \/ X \cap Y = {}

VARIABLES
  kind,      \* item -> what it is
  \* the messages table
  made,      \* rows 1..made exist
  item,      \* row -> item
  status,    \* delivery_status
  attempts,  \* delivery_attempts
  tracked,   \* rows with a provider_message_id
  clicked,   \* rows with clicked_at set
  \* the emails that are out
  link,      \* row -> its link, and the row the token in it names
  \* requests
  pc, req,
  cache,     \* attachments of this pass: the promise of each fetch
  heard,     \* item -> the answer reside has had
  \* history and budgets
  handed,    \* row -> times the provider took it
  unsure,    \* item -> failures after which nobody knows whether it took effect
  reported,  \* row -> the statuses its provider has reported
  taps,      \* links followed: the row a token named, the row whose email held it
  body,      \* the link the notice was written with
  mailed,    \* sets of attachments the notices of this pass went out with
  calls, faults, crashes

tableVars == <<made, item, status, attempts>>
trackVars == <<clicked, link, taps, body>>
passVars == <<cache, mailed>>
histVars == <<handed, unsure>>
reportVars == <<tracked, reported>>
budgetVars == <<calls, faults, crashes>>
vars == <<kind, tableVars, trackVars, pc, req, passVars, heard, histVars, reportVars, budgetVars>>

Kinds == {"email", "sms", "inbox", "forwarded", "direct", "notice"}
Steps == {"idle", "lookup", "insert", "existing", "attach", "fetching", "send", "record", "refused"}
Answers == {"none", "queued", "sent", "failed", "delivered", "undelivered", "received"}
Links == [form: {"none", "param", "wrapped"}, row: Row \cup {NoRow}]

(* n is the next attachment; got those that came and fit, of total size;   *)
(* tries what is left of a retried call.                                   *)
Requests == [item: Item, row: Row \cup {NoRow}, n: 1..(Len(Refs) + 1), got: SUBSET Ref,
             total: 0..Budget, tries: 0..Retries]

AnyItem == CHOOSE i \in Send : TRUE
NoRequest == [item |-> AnyItem, row |-> NoRow, n |-> 1, got |-> {}, total |-> 0, tries |-> Retries]
NoLink == [form |-> "none", row |-> NoRow]
Authored == {[form |-> f, row |-> NoRow] : f \in {"param", "wrapped"}}

TypeOK ==
  /\ kind \in [Item -> Kinds]
  /\ made \in 0..MaxRows
  /\ item \in [Row -> Item]
  /\ status \in [Row -> Answers]
  /\ attempts \in [Row -> Nat]
  /\ tracked \in SUBSET Row
  /\ reported \in [Row -> SUBSET Answers]
  /\ clicked \in SUBSET Row
  /\ taps \in SUBSET (Row \X Row)
  /\ body \in Links
  /\ link \in [Row -> Links]
  /\ pc \in [Caller -> Steps]
  /\ req \in [Caller -> Requests]
  /\ cache \in [Ref -> {"none", "pending", "got", "dropped"}]
  /\ mailed \in SUBSET SUBSET Ref
  /\ heard \in [Item -> Answers]
  /\ handed \in [Row -> Nat]
  /\ unsure \in [Item -> Nat]
  /\ calls \in Nat /\ faults \in Nat /\ crashes \in Nat

(* The rows of the notice's recipients come first. *)
Init ==
  /\ kind \in {k \in [Item -> Kinds] :
                 /\ \A i \in Send : k[i] \in {"email", "sms", "inbox"}
                 /\ \A i \in Text : k[i] \in {"forwarded", "direct"}
                 /\ \A i \in Notice : k[i] = "notice"}
  /\ made = Cardinality(Notice)
  /\ item \in {f \in [Row -> Item] :
                 /\ {f[r] : r \in 1..Cardinality(Notice)} = Notice
                 /\ \A r \in Row : r > Cardinality(Notice) => f[r] = AnyItem}
  /\ status = [r \in Row |-> IF r <= made THEN "queued" ELSE "none"]
  /\ attempts = [r \in Row |-> 0]
  /\ tracked = {}
  /\ reported = [r \in Row |-> {}]
  /\ clicked = {}
  /\ taps = {}
  /\ body \in Authored
  /\ link = [r \in Row |-> NoLink]
  /\ pc = [c \in Caller |-> "idle"]
  /\ req = [c \in Caller |-> NoRequest]
  /\ cache = [u \in Ref |-> "none"]
  /\ mailed = {}
  /\ heard = [i \in Item |-> "none"]
  /\ handed = [r \in Row |-> 0]
  /\ unsure = [i \in Item |-> 0]
  /\ calls = 0 /\ faults = 0 /\ crashes = 0

-----------------------------------------------------------------------------
(* Requests.                                                               *)

ItemOf(c) == req[c].item
KindOf(c) == kind[ItemOf(c)]
RowsOf(i) == {r \in 1..made : item[r] = i}
Keyed(c) == KindOf(c) \in {"email", "sms", "inbox", "forwarded"}

Goto(c, s) == pc' = [pc EXCEPT ![c] = s] /\ req' = [req EXCEPT ![c].tries = Retries]

(* The request ends; its answer arrives, or is lost. *)
Leave(c) == pc' = [pc EXCEPT ![c] = "idle"] /\ req' = [req EXCEPT ![c] = NoRequest]

Respond(c, a) ==
  /\ Leave(c)
  /\ \/ heard' = [heard EXCEPT ![ItemOf(c)] = a]
     \/ UNCHANGED heard

(* An internal error; nobody takes it for an answer. *)
Throw(c) == Leave(c) /\ UNCHANGED heard

Fault == faults + crashes < MaxFaults /\ faults' = faults + 1

(* Reside, Twilio or Postmark calls until it has had an answer; a          *)
(* recipient of the notice is worked on once.                              *)
Begin(c, i, s) ==
  /\ pc[c] = "idle"
  /\ heard[i] = "none"
  /\ calls < MaxCalls
  /\ calls' = calls + 1
  /\ pc' = [pc EXCEPT ![c] = s]
  /\ req' = [req EXCEPT ![c] = [NoRequest EXCEPT !.item = i]]
  /\ UNCHANGED <<kind, tableVars, trackVars, passVars, heard, histVars, faults, crashes, reportVars>>

BeginSend(c, i) == i \in Send /\ Begin(c, i, "lookup")

BeginForwarded(c, i) == kind[i] = "forwarded" /\ Begin(c, i, "lookup")

(* A text from Twilio itself or an email from Postmark has no key. *)
BeginText(c, i) == kind[i] = "direct" /\ Begin(c, i, "insert")

BeginMail(c, i) == kind[i] = "direct" /\ Begin(c, i, "insert")

InPass == {c \in Caller : pc[c] # "idle" /\ KindOf(c) = "notice"}

BeginNotice(c, r) ==
  /\ pc[c] = "idle"
  /\ r <= made /\ kind[item[r]] = "notice"
  /\ status[r] = "queued" /\ \A d \in InPass : req[d].row # r
  /\ handed[r] = 0 /\ unsure[item[r]] = 0
  /\ calls < MaxCalls
  /\ calls' = calls + 1
  /\ pc' = [pc EXCEPT ![c] = "attach"]
  /\ req' = [req EXCEPT ![c] = [NoRequest EXCEPT !.item = item[r], !.row = r]]
  /\ UNCHANGED <<kind, tableVars, trackVars, passVars, heard, histVars, faults, crashes, reportVars>>

(* A drain pass ends with its recipients, and its cache with it. *)
NextPass ==
  /\ InPass = {} /\ mailed # {}
  /\ cache' = [u \in Ref |-> "none"]
  /\ mailed' = {}
  /\ UNCHANGED <<kind, tableVars, trackVars, pc, req, heard, histVars, budgetVars, reportVars>>

(* getMessageByIdempotencyKey: the row is answered as it stands. *)
Lookup(c) ==
  /\ pc[c] = "lookup"
  /\ \/ \E r \in RowsOf(ItemOf(c)) : Respond(c, status[r]) /\ UNCHANGED faults
     \/ RowsOf(ItemOf(c)) = {} /\ Goto(c, "insert") /\ UNCHANGED <<heard, faults>>
     \/ Fault /\ Throw(c)
  /\ UNCHANGED <<kind, tableVars, trackVars, passVars, histVars, calls, crashes, reportVars>>

(* appendMessage, with the partial unique index on the key.  The mutant is *)
(* an index that is not unique.                                            *)
RefusedNever(c) == FALSE

Refused(c) == Keyed(c) /\ RowsOf(ItemOf(c)) # {}

(* The mutant queues what is delivered by being there. *)
FirstStatusQueued(c) == IF KindOf(c) \in {"email", "sms", "inbox"} THEN "queued" ELSE "received"

FirstStatus(c) ==
  CASE KindOf(c) = "inbox" -> "delivered" [] KindOf(c) \in {"email", "sms"} -> "queued"
    [] OTHER -> "received"

AddRow(c) ==
  /\ made < MaxRows
  /\ made' = made + 1
  /\ item' = [item EXCEPT ![made + 1] = ItemOf(c)]
  /\ status' = [status EXCEPT ![made + 1] = FirstStatus(c)]
  /\ UNCHANGED attempts

Inserted(c) ==
  IF KindOf(c) \in {"email", "sms"}
  THEN /\ pc' = [pc EXCEPT ![c] = IF KindOf(c) = "email" THEN "attach" ELSE "send"]
       /\ req' = [req EXCEPT ![c].row = made + 1]
       /\ UNCHANGED heard
  ELSE Respond(c, FirstStatus(c))

InsertThrew(c) ==
  IF KindOf(c) = "forwarded" THEN Goto(c, "existing") /\ UNCHANGED heard ELSE Throw(c)

Insert(c) ==
  /\ pc[c] = "insert"
  /\ \/ ~Refused(c) /\ AddRow(c) /\ Inserted(c) /\ UNCHANGED faults
     \/ ~Refused(c) /\ AddRow(c) /\ InsertThrew(c) /\ Fault
     \/ ~Refused(c) /\ InsertThrew(c) /\ Fault /\ UNCHANGED tableVars
     \/ Refused(c) /\ InsertThrew(c) /\ UNCHANGED <<tableVars, faults>>
  /\ UNCHANGED <<kind, trackVars, passVars, handed, unsure, calls, crashes, reportVars>>

(* A forwarded text whose insert threw: if the row is there, it was a      *)
(* duplicate.                                                              *)
Existing(c) ==
  /\ pc[c] = "existing"
  /\ IF RowsOf(ItemOf(c)) = {} THEN Throw(c) ELSE Respond(c, "received")
  /\ UNCHANGED <<kind, tableVars, trackVars, passVars, histVars, budgetVars, reportVars>>

-----------------------------------------------------------------------------
(* fetchEmailAttachments, for a recipient of the notice: one reference     *)
(* after the other.  What is dropped, for whatever reason, is passed over. *)
(* A single send fetches for itself alone, and no property is about what   *)
(* it carries: its attachments are left out.                               *)

Attaching(c) == pc[c] = "attach" /\ KindOf(c) = "notice" /\ req[c].n <= Len(Refs)

(* The next reference is done with: it came, or it was dropped. *)
Attach(c, came) ==
  LET u == Refs[req[c].n]
      fits == came /\ req[c].total + SizeOf[u] <= Budget
  IN req' = [req EXCEPT ![c].n = @ + 1,
                        ![c].got = IF fits THEN @ \cup {u} ELSE @,
                        ![c].total = IF fits THEN @ + SizeOf[u] ELSE @]

(* The promise of a fetch is put in the pass's cache before it settles;    *)
(* the mutant caches what came of it.                                      *)
PromisedLate(u) == cache

Promised(u) == [cache EXCEPT ![u] = "pending"]

Fetch(c) ==
  /\ Attaching(c)
  /\ LET u == Refs[req[c].n] IN
     /\ cache[u] = "none"
     /\ cache' = Promised(u)
  /\ pc' = [pc EXCEPT ![c] = "fetching"]
  /\ UNCHANGED <<kind, tableVars, trackVars, req, mailed, heard, histVars, budgetVars, reportVars>>

Fetched(c) ==
  /\ pc[c] = "fetching"
  /\ \E came \in BOOLEAN :
       /\ cache' = [cache EXCEPT ![Refs[req[c].n]] = IF came THEN "got" ELSE "dropped"]
       /\ Attach(c, came)
  /\ pc' = [pc EXCEPT ![c] = "attach"]
  /\ UNCHANGED <<kind, tableVars, trackVars, mailed, heard, histVars, budgetVars, reportVars>>

(* A reference another recipient has fetched, once its promise settles. *)
FromCache(c) ==
  /\ Attaching(c)
  /\ LET u == Refs[req[c].n] IN
     /\ cache[u] \in {"got", "dropped"}
     /\ Attach(c, cache[u] = "got")
  /\ UNCHANGED <<kind, tableVars, trackVars, pc, passVars, heard, histVars, budgetVars, reportVars>>

-----------------------------------------------------------------------------
(* withClickTracking.  An author writes a link to the building's own site, *)
(* or to another, or pastes one from an email.                             *)

Written ==
  Authored \cup {link[q] : q \in {q \in Row : handed[q] > 0 /\ link[q].form # "none"}}

(* A link to the own site loses the token it came with and is given one; a *)
(* link that already leads to the recorder is left as it is.  The mutant   *)
(* does not strip the old token.                                           *)
TokenedTwice(w, r) == IF w.row # NoRow THEN w ELSE [w EXCEPT !.row = r]

Tokened(w, r) ==
  IF w.form = "wrapped" /\ w.row # NoRow THEN w ELSE [w EXCEPT !.row = r]

(* The email is put together when its attachments are. *)
Compose(c) ==
  /\ pc[c] = "attach"
  /\ ~Attaching(c)
  /\ \E w \in IF KindOf(c) = "notice" THEN {body} ELSE Written :
       link' = [link EXCEPT ![req[c].row] = Tokened(w, req[c].row)]
  /\ Goto(c, "send")
  /\ UNCHANGED <<kind, tableVars, clicked, taps, body, passVars, heard, histVars, budgetVars, reportVars>>

(* The provider takes the message, refuses it for good, or fails in a way  *)
(* that is worth another try, or that is not; a failure may hide that the  *)
(* message was taken.                                                      *)
Taken(c) ==
  /\ handed' = [handed EXCEPT ![req[c].row] = @ + 1]
  /\ mailed' = IF KindOf(c) = "notice" THEN mailed \cup {req[c].got} ELSE mailed

HandOver(c) ==
  /\ pc[c] = "send"
  /\ \/ Taken(c) /\ Goto(c, "record") /\ UNCHANGED <<unsure, faults>>
     \/ /\ Goto(c, "refused")
        /\ UNCHANGED <<handed, mailed, unsure, faults>>
     \/ /\ Fault
        /\ unsure' = [unsure EXCEPT ![ItemOf(c)] = @ + 1]
        /\ Taken(c) \/ UNCHANGED <<handed, mailed>>
        /\ \/ req[c].tries > 0 /\ req' = [req EXCEPT ![c].tries = @ - 1] /\ UNCHANGED pc
           \/ Goto(c, "refused")
  /\ UNCHANGED <<kind, tableVars, trackVars, cache, heard, calls, crashes, reportVars>>

(* recordWithRetry: once the provider has it, the row is to say sent.  The *)
(* row gets an attempt more each time the write commits.  When every write *)
(* fails the caller is told "sent" all the same; the mutant reports the    *)
(* failure.                                                                *)
UnrecordedFails(c) == "failed"

Unrecorded(c) == "sent"

SetStatus(c, s) ==
  /\ status' = [status EXCEPT ![req[c].row] = s]
  /\ attempts' = [attempts EXCEPT ![req[c].row] = @ + 1]
  /\ UNCHANGED <<made, item>>

(* With the status the row takes the provider's message id. *)
SetSent(c) == SetStatus(c, "sent") /\ tracked' = tracked \cup {req[c].row}

Record(c) ==
  /\ pc[c] = "record"
  /\ \/ SetSent(c) /\ Respond(c, "sent") /\ UNCHANGED <<unsure, faults>>
     \/ /\ Fault
        /\ \/ SetSent(c) /\ unsure' = [unsure EXCEPT ![ItemOf(c)] = @ + 1]
           \/ UNCHANGED <<tableVars, tracked, unsure>>
        /\ \/ req[c].tries > 0 /\ req' = [req EXCEPT ![c].tries = @ - 1] /\ UNCHANGED <<pc, heard>>
           \/ req[c].tries = 0 /\ Respond(c, Unrecorded(c))
  /\ UNCHANGED <<kind, trackVars, passVars, handed, calls, crashes, reported>>

RecordRefused(c) ==
  /\ pc[c] = "refused"
  /\ \/ SetStatus(c, "failed") /\ Respond(c, "failed") /\ UNCHANGED faults
     \/ Fault /\ Throw(c) /\ (SetStatus(c, "failed") \/ UNCHANGED tableVars)
  /\ UNCHANGED <<kind, trackVars, passVars, histVars, calls, crashes, reportVars>>

-----------------------------------------------------------------------------
(* Delivery reports.                                                       *)

(* mapTwilioStatus, and the SES events Delivery, Bounce and Complaint.     *)
Reportable(k) ==
  CASE k = "sms" -> {"queued", "sent", "delivered", "undelivered", "failed"}
    [] k \in {"email", "notice"} -> {"delivered", "failed"}
    [] OTHER -> {}

(* The webhook finds the row by its provider_message_id and writes what it *)
(* was told over whatever the row says: at any time, in any order and as   *)
(* often as the provider calls.                                            *)
DeliveryReport(r, s) ==
  /\ r \in tracked
  /\ s \in Reportable(kind[item[r]])
  /\ Cardinality(reported[r] \cup {s}) <= MaxReports
  /\ status' = [status EXCEPT ![r] = s]
  /\ reported' = [reported EXCEPT ![r] = @ \cup {s}]
  /\ UNCHANGED <<kind, made, item, attempts, tracked, trackVars, pc, req, passVars, heard,
                 histVars, budgetVars>>

-----------------------------------------------------------------------------
(* The link of an email is followed.  The click is recorded against the    *)
(* row its token names, while the token is current; an old one still leads *)
(* where it should.                                                        *)
Tap(r) ==
  /\ handed[r] > 0 /\ link[r].row # NoRow
  /\ Cardinality(taps) < MaxTaps
  /\ taps' = taps \cup {<<link[r].row, r>>}
  /\ clicked' = clicked \cup {link[r].row}
  /\ UNCHANGED <<kind, tableVars, link, body, pc, req, passVars, heard, histVars, budgetVars, reportVars>>

Crash ==
  /\ faults + crashes < MaxFaults
  /\ crashes' = crashes + 1
  /\ pc' = [c \in Caller |-> "idle"]
  /\ req' = [c \in Caller |-> NoRequest]
  /\ cache' = [u \in Ref |-> "none"]
  /\ mailed' = {}
  /\ UNCHANGED <<kind, tableVars, trackVars, heard, histVars, calls, faults, reportVars>>

-----------------------------------------------------------------------------
Work(c) ==
  \/ Lookup(c) \/ Insert(c) \/ Existing(c)
  \/ Fetch(c) \/ Fetched(c) \/ FromCache(c) \/ Compose(c)
  \/ HandOver(c) \/ Record(c) \/ RecordRefused(c)

Next ==
  \/ \E c \in Caller :
       \/ Work(c)
       \/ \E i \in Item : BeginSend(c, i) \/ BeginForwarded(c, i) \/ BeginText(c, i) \/ BeginMail(c, i)
       \/ \E r \in Row : BeginNotice(c, r)
  \/ NextPass \/ Crash
  \/ \E r \in Row : Tap(r)
  \/ \E r \in Row, s \in Answers : DeliveryReport(r, s)

Spec == Init /\ [][Next]_vars

-----------------------------------------------------------------------------
Accepted(i) == \E r \in RowsOf(i) : handed[r] > 0

(* However often reside repeats a send, and however its requests overlap   *)
(* or die, the provider is given the message once, and once more only for  *)
(* each failure that hid what had become of it; the same goes for the      *)
(* attempts its row counts (schemas/index.ts:197).                         *)
SentOnce ==
  \A i \in Send :
    /\ Cardinality({r \in RowsOf(i) : handed[r] > 0}) <= 1
    /\ \A r \in RowsOf(i) : handed[r] <= 1 + unsure[i] /\ attempts[r] <= 1 + unsure[i]

(* What reside is told is true: "sent" only of what the provider has taken,*)
(* "failed" only of what it has not, unless a failure hid that it had or   *)
(* the provider has since reported just that, which a repeat is then       *)
(* answered with; "delivered" by mail or text only as the provider         *)
(* reported it; and a text is reported landed only when it is there        *)
(* (dispatch-message.ts:107, sms.ts:52).                                   *)
AnswersAreTrue ==
  \A i \in Item :
    LET says(s) == \E r \in RowsOf(i) : s \in reported[r] IN
    /\ heard[i] = "sent" => Accepted(i)
    /\ heard[i] \in {"failed", "undelivered"} =>
         ~Accepted(i) \/ unsure[i] > 0 \/ says(heard[i])
    /\ heard[i] = "delivered" => kind[i] = "inbox" \/ says("delivered")
    /\ heard[i] = "received" => RowsOf(i) # {}

(* A message of reside that waits for its dispatch is in somebody's hands, *)
(* unless the process died or a statement failed: then its key is taken,   *)
(* every retry is answered with the row, and nothing ever sends it         *)
(* (send/route.ts:96).  A text that says queued in nobody's hands has      *)
(* otherwise gone out, and the provider reported so late that it was       *)
(* queued (twilio/status/route.ts:21).                                     *)
QueuedIsHeld ==
  \A i \in Send, r \in Row :
    item[r] = i /\ status[r] = "queued" =>
      \/ crashes > 0 \/ faults > 0
      \/ \E c \in Caller : pc[c] # "idle" /\ req[c].row = r
      \/ handed[r] > 0 /\ "queued" \in reported[r]

(* The recipients of a notice drained in one pass all get the same         *)
(* attachments: what is fetched, or refused, once is so for all of them    *)
(* (attachments.ts:165).                                                   *)
SameForAll == Cardinality(mailed) <= 1

(* A click is put down to the message whose email held the link, unless a  *)
(* link through the recorder was pasted from another (click-tracking.ts:   *)
(* 63).                                                                    *)
ClicksAttributed ==
  \A r \in clicked :
    \/ <<r, r>> \in taps
    \/ \E q \in Row : <<r, q>> \in taps /\ link[q].form = "wrapped"
=============================================================================
