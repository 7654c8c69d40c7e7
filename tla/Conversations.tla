--------------------------- MODULE Conversations ---------------------------
(***************************************************************************)
(* The conversations of one tenant and the messages in them: routed to by  *)
(* inbound messages, pinned by web chat sessions, merged and split by      *)
(* administrators (and split by the topic check), written by the routes    *)
(* that resolve a conversation before they change it and by the replies    *)
(* that do not, and listed in the inbox.                                   *)
(*                                                                         *)
(* A merge leaves messages where they are and points the source at the     *)
(* target: a thread is everything whose chain of merges ends in the same   *)
(* conversation.  A split moves messages.  No method but the move of the   *)
(* extras runs in a transaction; one action is one statement, except that  *)
(* the reads a method makes before it decides anything are one step.       *)
(*                                                                         *)
(* People are canonical identities (their own merges are in Identities).   *)
(* "Extras" stands for tags, assignees, participants and personal tags,    *)
(* which move alike; one viewer's read cursor stands for all.  The         *)
(* response clock's recomputation is ResponseClock's; the live_transfers   *)
(* pointer, the assigned_user_id column, the platform user behind an       *)
(* administrator and the broadcasts are left out.                          *)
(***************************************************************************)
EXTENDS Integers, FiniteSets, FiniteSetsExt, MergeChains

CONSTANTS
  Caller,    \* requests in flight at once
  Person,    \* canonical identities
  Extra,     \* tags, assignees, participants, personal tags
  MaxConvs,  \* bound: conversations rows
  MaxTime,   \* bound: messages and conversations created
  MaxCalls   \* bound: requests

ASSUME BoundsAssumption ==
  /\ MaxConvs \in Nat \ {0, 1} /\ MaxTime \in Nat \ {0, 1} /\ MaxCalls \in Nat

ASSUME PersonAssumption == Person # {}

Conv == 1..MaxConvs
Time == 1..MaxTime
Null == 0

VARIABLES
  \* the conversations table
  status,      \* "none" before the insert and after a delete
  owner,       \* identity_id
  mergedInto,  \* merged_into_id
  lastAt,      \* last_message_at
  extras,      \* rows of the join tables
  readAt,      \* last_read_at of the viewer; Null without a row
  latestSplit, \* target of the newest conversation_splits row
  made,        \* ids 1..made were inserted
  \* the messages table: message t was created at time t
  home,        \* conversation_id; Null when there is no such message
  now,
  \* a request
  pc,
  req,         \* what it was asked, and what it has read
  \* history and budget
  sender,      \* the person each message is from or to
  met,         \* requests in flight that overlapped another one
  crossed,     \* two merges were under way at once
  raced,       \* a merge overlapped a merge, a split or a status change
  excused,     \* conversations split off, reopened or created in a race
  calls

rowVars  == <<status, owner, mergedInto, lastAt, made>>
sideVars == <<extras, readAt, latestSplit>>
msgVars  == <<home, now, sender>>
histVars == <<met, crossed, raced, excused, calls>>
vars == <<rowVars, sideVars, msgVars, pc, req, histVars>>

Kinds == {"inbound", "own", "session", "reply", "status", "add", "remove", "read", "merge", "split"}
Steps == {"idle", "create", "append", "write", "latest", "extrasRead", "extrasWrite",
          "marks", "insert", "recheck", "move", "remaining", "stamps", "log"}

(* a is the conversation a request acts on (the source of a merge or a     *)
(* split), b the target; asked the id it was given; msg the message a      *)
(* split starts at; at and cursor are times it will write; left is what     *)
(* remains of two statements sent together.  found is history: whether the *)
(* viewer had read both ends of a merge, and the extras they had.          *)
Requests ==
  [kind: Kinds \cup {"none"}, asked: Conv \cup {Null}, a: Conv \cup {Null}, b: Conv \cup {Null},
   person: Person, msg: Time \cup {Null}, chain: SUBSET Conv, at: 0..MaxTime,
   cursor: 0..MaxTime,
   extras: SUBSET Extra, set: {"open", "resolved"}, left: SUBSET {"source", "target"},
   found: [read: BOOLEAN, extras: SUBSET Extra]]

AnyPerson == CHOOSE p \in Person : TRUE
NoRequest ==
  [kind |-> "none", asked |-> Null, a |-> Null, b |-> Null, person |-> AnyPerson,
   msg |-> Null, chain |-> {}, at |-> 0, cursor |-> 0, extras |-> {}, set |-> "open", left |-> {},
   found |-> [read |-> FALSE, extras |-> {}]]

TypeOK ==
  /\ status \in [Conv -> {"none", "open", "resolved", "merged"}]
  /\ owner \in [Conv -> Person]
  /\ mergedInto \in [Conv -> Conv \cup {Null}]
  /\ lastAt \in [Conv -> 0..MaxTime]
  /\ extras \in [Conv -> SUBSET Extra]
  /\ readAt \in [Conv -> 0..MaxTime]
  /\ latestSplit \in [Conv -> Conv \cup {Null}]
  /\ made \in 2..MaxConvs
  /\ home \in [Time -> Conv \cup {Null}]
  /\ now \in 0..MaxTime
  /\ pc \in [Caller -> Steps]
  /\ req \in [Caller -> Requests]
  /\ sender \in [Time -> Person]
  /\ met \in SUBSET Caller
  /\ crossed \in BOOLEAN
  /\ raced \in BOOLEAN
  /\ excused \in SUBSET Conv
  /\ calls \in 0..MaxCalls

(* Two open conversations with a message each, of one person (after a      *)
(* split) or of two; the viewer has read the first and may have read the   *)
(* other.                                                                  *)
InitExtras == extras = [k \in Conv |-> IF k = 1 THEN Extra ELSE {}]

InitMarks ==
  /\ \E seen \in {0, 2} : readAt = [k \in Conv |-> IF k = 1 THEN 1 ELSE IF k = 2 THEN seen ELSE 0]
  /\ latestSplit = [k \in Conv |-> Null]

Init ==
  /\ InitExtras /\ InitMarks
  /\ status = [k \in Conv |-> IF k \in {1, 2} THEN "open" ELSE "none"]
  /\ owner \in [Conv -> Person] /\ \A k \in Conv \ {2} : owner[k] = AnyPerson
  /\ mergedInto = [k \in Conv |-> Null]
  /\ lastAt = [k \in Conv |-> IF k \in {1, 2} THEN k ELSE 0]
  /\ made = 2
  /\ home = [t \in Time |-> IF t \in {1, 2} THEN t ELSE Null]
  /\ now = 2
  /\ pc = [c \in Caller |-> "idle"]
  /\ req = [c \in Caller |-> NoRequest]
  /\ sender = [t \in Time |-> IF t = 2 THEN owner[2] ELSE AnyPerson]
  /\ met = {}
  /\ crossed = FALSE
  /\ raced = FALSE
  /\ excused = {2}
  /\ calls = 0

-----------------------------------------------------------------------------
(* Threads.                                                                *)

Exists(k) == status[k] # "none"

(* resolve_conversation_id and conversation_merge_chain_ids *)
Ends(k) == Ended(mergedInto, k)

Canonical(k) == Root(mergedInto, k)

Chain(k) == {j \in 1..made : Ends(j) /\ Canonical(j) = Canonical(k)}

In(convs) == {t \in Time : home[t] \in convs}

Known(k) == Exists(k) /\ Ends(k)

Newest(times, else) == IF times = {} THEN else ELSE Max(times)

Larger(x, y) == IF x < y THEN y ELSE x

(* The conversation a route of reside's writes: it resolves the one the    *)
(* link names.  The mutant writes that one.                                *)
ScopedAsLinked(k) == k

Scoped(k) == Canonical(k)

(* getConversationsForTenant without a filter: what the inbox lists.       *)
Inbox == {k \in 1..made : Exists(k) /\ status[k] # "merged"}

-----------------------------------------------------------------------------
(* A request begins and ends.                                              *)

Busy == {c \in Caller : pc[c] # "idle"}

Of(kind) == {c \in Busy : req[c].kind = kind}

(* Requests that change where a thread is listed, one of them a merge. *)
Races(kind) ==
  \/ kind = "merge" /\ Of("merge") \cup Of("split") \cup Of("status") # {}
  \/ kind \in {"split", "status"} /\ Of("merge") # {}

Start(c, r, s) ==
  /\ pc[c] = "idle"
  /\ calls < MaxCalls
  /\ pc' = [pc EXCEPT ![c] = s]
  /\ req' = [req EXCEPT ![c] = r]
  /\ met' = IF Busy = {} THEN {} ELSE met \cup Busy \cup {c}
  /\ raced' = (raced \/ Races(r.kind))
  /\ calls' = calls + 1

Step(c, r, s) ==
  /\ pc' = [pc EXCEPT ![c] = s]
  /\ req' = [req EXCEPT ![c] = r]
  /\ UNCHANGED <<met, raced, calls>>

Leave(c) ==
  /\ pc' = [pc EXCEPT ![c] = "idle"]
  /\ req' = [req EXCEPT ![c] = NoRequest]
  /\ met' = met \ {c}
  /\ UNCHANGED <<raced, calls>>

-----------------------------------------------------------------------------
(* Inbound messages and sends: findOrCreateConversation, then              *)
(* appendMessage.  Which of several open conversations is the most recent, *)
(* or has the subject of an email, is left open; so is staleness, which    *)
(* only asks for a topic check.  The mutant overlooks a conversation       *)
(* nothing happened in of late.                                            *)

CandidatesFresh(p) ==
  {k \in Conv : status[k] = "open" /\ owner[k] = p /\ lastAt[k] = now}

Candidates(p) == {k \in Conv : status[k] = "open" /\ owner[k] = p}

BeginInbound(c, p) ==
  /\ LET r == [NoRequest EXCEPT !.kind = "inbound", !.person = p] IN
     \/ \E k \in Candidates(p) : Start(c, [r EXCEPT !.a = k], "append")
     \/ Candidates(p) = {} /\ Start(c, r, "create")
  /\ UNCHANGED <<rowVars, sideVars, msgVars, crossed, excused>>

(* forceNew: a thread of its own, whatever is open. *)
BeginOwn(c, p) ==
  /\ Start(c, [NoRequest EXCEPT !.kind = "own", !.person = p], "create")
  /\ UNCHANGED <<rowVars, sideVars, msgVars, crossed, excused>>

InsertRow(p) ==
  /\ made < MaxConvs
  /\ made' = made + 1
  /\ status' = [status EXCEPT ![made + 1] = "open"]
  /\ owner' = [owner EXCEPT ![made + 1] = p]
  /\ lastAt' = [lastAt EXCEPT ![made + 1] = now]
  /\ UNCHANGED mergedInto

Create(c) ==
  /\ pc[c] = "create"
  /\ InsertRow(req[c].person)
  /\ excused' = IF req[c].kind = "own" \/ c \in met THEN excused \cup {made + 1} ELSE excused
  /\ Step(c, [req[c] EXCEPT !.a = made + 1], "append")
  /\ UNCHANGED <<sideVars, msgVars, crossed>>

(* A chat session is resumed on the thread its token names, or on the      *)
(* newest conversation split from it, and keeps that id from then on.      *)
Follow(k) ==
  LET thread == Canonical(k)
      target == latestSplit[thread]
  IN IF target # Null /\ Ends(target) /\ status[Canonical(target)] = "open"
     THEN Canonical(target) ELSE thread

BeginSession(c, k) ==
  /\ Known(k) /\ status[Canonical(k)] = "open"
  /\ Start(c, [NoRequest EXCEPT !.kind = "session", !.person = owner[Follow(k)],
                                !.a = Follow(k)], "append")
  /\ UNCHANGED <<rowVars, sideVars, msgVars, crossed, excused>>

(* A resident's reply in reside, after the check that the thread is theirs,*)
(* and an agent's in a chat: both are written to the conversation the link *)
(* names, merged away or not.  The limit of five a minute is left out.     *)
BeginReply(c, k, p, into) ==
  /\ Known(k)
  /\ Start(c, [NoRequest EXCEPT !.kind = "reply", !.person = p, !.a = into], "append")
  /\ UNCHANGED <<rowVars, sideVars, msgVars, crossed, excused>>

Owned(k, p) == Known(k) /\ owner[Canonical(k)] = p

MemberReply(c, k, p) == Owned(k, p) /\ BeginReply(c, k, p, k)

AgentReply(c, k) == BeginReply(c, k, owner[Canonical(k)], k)

(* An administrator's reply or note goes to the thread. *)
AdminReply(c, k) == BeginReply(c, k, owner[Canonical(k)], Scoped(k))

(* The insert of a message, with the trigger that stamps its conversation. *)
(* A conversation deleted meanwhile refuses it.  A session may write again.*)
Append(c) ==
  /\ pc[c] = "append"
  /\ LET k == req[c].a IN
     \/ /\ Exists(k)
        /\ now < MaxTime
        /\ now' = now + 1
        /\ home' = [home EXCEPT ![now + 1] = k]
        /\ sender' = [sender EXCEPT ![now + 1] = req[c].person]
        /\ lastAt' = [lastAt EXCEPT ![k] = now + 1]
        /\ \/ Leave(c)
           \/ req[c].kind = "session" /\ Step(c, req[c], "append")
     \/ ~Exists(k) /\ Leave(c) /\ UNCHANGED <<msgVars, lastAt>>
  /\ UNCHANGED <<status, owner, mergedInto, made, sideVars, crossed, excused>>

-----------------------------------------------------------------------------
(* The routes that write one conversation: each resolves it first.         *)

BeginWrite(c, kind, k, x, s) ==
  /\ Known(k)
  /\ Start(c, [NoRequest EXCEPT !.kind = kind, !.a = Scoped(k), !.extras = x, !.set = s],
           IF kind = "read" THEN "latest" ELSE "write")
  /\ UNCHANGED <<rowVars, sideVars, msgVars, crossed, excused>>

ChangeStatus(c, k, s) == BeginWrite(c, "status", k, {}, s)

MarkRead(c, k) == BeginWrite(c, "read", k, {}, "open")

(* Each of the extras has a route that adds it, and all but participants   *)
(* one that removes it.                                                    *)
AddTag(c, k, x) == BeginWrite(c, "add", k, {x}, "open")
AddAssignee(c, k, x) == BeginWrite(c, "add", k, {x}, "open")
AddParticipant(c, k, x) == BeginWrite(c, "add", k, {x}, "open")
AddPersonalTag(c, k, x) == BeginWrite(c, "add", k, {x}, "open")

RemoveTag(c, k, x) == BeginWrite(c, "remove", k, {x}, "open")
RemoveAssignee(c, k, x) == BeginWrite(c, "remove", k, {x}, "open")
RemovePersonalTag(c, k, x) == BeginWrite(c, "remove", k, {x}, "open")

(* markConversationRead reads the newest message of the thread first. *)
Latest(c) ==
  /\ pc[c] = "latest"
  /\ Ends(req[c].a)
  /\ Step(c, [req[c] EXCEPT !.cursor = Newest(In(Chain(req[c].a)), now)], "write")
  /\ UNCHANGED <<rowVars, sideVars, msgVars, crossed, excused>>

(* The statement each of them sends; a conversation deleted meanwhile is   *)
(* not found, or refuses the row.                                          *)
WriteStatus(c) ==
  LET k == req[c].a IN
  /\ req[c].kind = "status"
  /\ status' = [status EXCEPT ![k] = req[c].set]
  /\ excused' = IF req[c].set = "open" THEN excused \cup {k} ELSE excused
  /\ UNCHANGED <<extras, readAt>>

WriteAdded(c) ==
  /\ req[c].kind = "add"
  /\ extras' = [extras EXCEPT ![req[c].a] = @ \cup req[c].extras]
  /\ UNCHANGED <<status, readAt, excused>>

WriteRemoved(c) ==
  /\ req[c].kind = "remove"
  /\ extras' = [extras EXCEPT ![req[c].a] = @ \ req[c].extras]
  /\ UNCHANGED <<status, readAt, excused>>

WriteRead(c) ==
  /\ req[c].kind = "read"
  /\ readAt' = [readAt EXCEPT ![req[c].a] = req[c].cursor]
  /\ UNCHANGED <<status, extras, excused>>

Write(c) ==
  /\ pc[c] = "write"
  /\ \/ /\ Exists(req[c].a)
        /\ WriteStatus(c) \/ WriteAdded(c) \/ WriteRemoved(c) \/ WriteRead(c)
     \/ ~Exists(req[c].a) /\ UNCHANGED <<status, extras, readAt, excused>>
  /\ Leave(c)
  /\ UNCHANGED <<owner, mergedInto, lastAt, made, latestSplit, msgVars, crossed>>

-----------------------------------------------------------------------------
(* mergeConversations                                                      *)

Merging(c) == req[c].kind = "merge"

IsRead(k) == readAt[k] >= lastAt[k]

(* Both ends are resolved and read; a pair that is one thread already, or  *)
(* of two residents, throws here.  The mutants resolve only the source, or *)
(* let any two threads of the tenant be merged.                            *)
TargetAsLinked(k) == k

TargetOf(k) == Canonical(k)

Mergeable(a, b) == a # b /\ owner[a] = owner[b]

BeginMerge(c, s, t) ==
  /\ LET a == Canonical(s)
         b == TargetOf(t)
     IN /\ Mergeable(a, b)
        /\ Start(c, [NoRequest EXCEPT !.kind = "merge", !.a = a, !.b = b,
                                      !.at = Larger(lastAt[a], lastAt[b]),
                                      !.found = [read |-> IsRead(a) /\ IsRead(b),
                                                 extras |-> extras[a] \cup extras[b]]],
                 "extrasRead")
  /\ crossed' = (crossed \/ Of("merge") # {})
  /\ UNCHANGED <<rowVars, sideVars, msgVars, excused>>

(* The route has checked that the tenant has both, and passes the ids it   *)
(* was given.                                                              *)
AskMerge(c, s, t) == Known(s) /\ Known(t) /\ BeginMerge(c, s, t)

(* moveConversationExtras: one transaction, which reads both sides and     *)
(* then writes.  The later cursor is kept; the mutant keeps the source's.  *)
CursorOfSource(a, b) == IF readAt[a] # Null THEN readAt[a] ELSE readAt[b]

CursorOf(a, b) == Larger(readAt[a], readAt[b])

ExtrasRead(c) ==
  /\ pc[c] = "extrasRead"
  /\ LET a == req[c].a
         b == req[c].b
     IN Step(c, [req[c] EXCEPT !.extras = extras[a], !.cursor = CursorOf(a, b)], "extrasWrite")
  /\ UNCHANGED <<rowVars, sideVars, msgVars, crossed, excused>>

ExtrasWrite(c) ==
  /\ pc[c] = "extrasWrite"
  /\ LET a == req[c].a
         b == req[c].b
     IN \/ /\ Exists(b)
           /\ extras' = [extras EXCEPT ![b] = @ \cup req[c].extras, ![a] = {}]
           /\ readAt' = [readAt EXCEPT ![b] = IF req[c].cursor = Null THEN @ ELSE req[c].cursor,
                                       ![a] = Null]
           /\ Step(c, [req[c] EXCEPT !.left = {"source", "target"}], "marks")
        \/ ~Exists(b) /\ Leave(c) /\ UNCHANGED <<extras, readAt>>
  /\ UNCHANGED <<rowVars, latestSplit, msgVars, crossed, excused>>

(* The two updates are sent together and may take effect in either order.  *)
(* The source cannot point at a conversation that is gone.                 *)
Done(c, x, s) ==
  IF req[c].left = {x} THEN (IF s = "idle" THEN Leave(c) ELSE Step(c, req[c], s))
  ELSE Step(c, [req[c] EXCEPT !.left = @ \ {x}], pc[c])

MarkTarget(c) ==
  /\ pc[c] = "marks"
  /\ "target" \in req[c].left
  /\ lastAt' = [lastAt EXCEPT ![req[c].b] = req[c].at]
  /\ Done(c, "target", "idle")
  /\ UNCHANGED <<status, owner, mergedInto, made, sideVars, msgVars, crossed, excused>>

MarkSource(c) ==
  /\ pc[c] = "marks"
  /\ "source" \in req[c].left
  /\ LET a == req[c].a
         b == req[c].b
     IN IF Exists(a) /\ Exists(b)
        THEN /\ status' = [status EXCEPT ![a] = "merged"]
             /\ mergedInto' = [mergedInto EXCEPT ![a] = b]
        ELSE UNCHANGED <<status, mergedInto>>
  /\ Done(c, "source", "idle")
  /\ UNCHANGED <<owner, lastAt, made, sideVars, msgVars, crossed, excused>>

-----------------------------------------------------------------------------
(* splitConversation                                                       *)

BeginSplit(c, k, m) ==
  /\ Known(k)
  /\ home[m] \in Chain(k)
  /\ Start(c, [NoRequest EXCEPT !.kind = "split", !.asked = k, !.a = Canonical(k),
                                !.msg = m, !.chain = Chain(k)], "insert")
  /\ UNCHANGED <<rowVars, sideVars, msgVars, crossed, excused>>

(* The topic check passes the conversation of the message it claimed, the  *)
(* administrators' route the thread its guard has resolved.                *)
TopicSplit(c, m) == home[m] # Null /\ BeginSplit(c, home[m], m)

AdminSplit(c, k, m) == Known(k) /\ BeginSplit(c, Scoped(k), m)

InsertTarget(c) ==
  /\ pc[c] = "insert"
  /\ InsertRow(owner[req[c].a])
  /\ excused' = excused \cup {made + 1}
  /\ Step(c, [req[c] EXCEPT !.b = made + 1], "recheck")
  /\ UNCHANGED <<sideVars, msgVars, crossed>>

(* The source is resolved again; if it was merged away meanwhile the new   *)
(* conversation is deleted, with whatever has landed in it.                *)
Recheck(c) ==
  /\ pc[c] = "recheck"
  /\ Ends(req[c].asked)
  /\ LET b == req[c].b IN
     \/ /\ Canonical(req[c].asked) = req[c].a
        /\ Step(c, req[c], "move")
        /\ UNCHANGED <<rowVars, sideVars, home>>
     \/ /\ Canonical(req[c].asked) # req[c].a
        /\ status' = [status EXCEPT ![b] = "none"]
        /\ mergedInto' = [k \in Conv |-> IF mergedInto[k] = b \/ k = b THEN Null ELSE mergedInto[k]]
        /\ home' = [t \in Time |-> IF home[t] = b THEN Null ELSE home[t]]
        /\ extras' = [extras EXCEPT ![b] = {}]
        /\ readAt' = [readAt EXCEPT ![b] = Null]
        /\ Leave(c)
        /\ UNCHANGED <<owner, lastAt, made, latestSplit>>
  /\ UNCHANGED <<now, sender, crossed, excused>>

(* The message and all after it, wherever in the chain they are.  The      *)
(* mutant takes those of the canonical conversation alone.                 *)
MovedAlone(c) == {t \in In({req[c].a}) : t >= req[c].msg}

Moved(c) == {t \in In(req[c].chain) : t >= req[c].msg}

Move(c) ==
  /\ pc[c] = "move"
  /\ Exists(req[c].b)
  /\ home' = [t \in Time |-> IF t \in Moved(c) THEN req[c].b ELSE home[t]]
  /\ Step(c, [req[c] EXCEPT !.at = Max(Moved(c) \cup {req[c].msg})], "remaining")
  /\ UNCHANGED <<rowVars, sideVars, now, sender, crossed, excused>>

(* The stamp of what is left: its newest message, else its creation. *)
Remaining(c) ==
  /\ pc[c] = "remaining"
  /\ Step(c, [req[c] EXCEPT !.cursor = Newest(In(req[c].chain), 0),
                            !.left = {"source", "target"}], "stamps")
  /\ UNCHANGED <<rowVars, sideVars, msgVars, crossed, excused>>

Stamp(c, x) ==
  /\ pc[c] = "stamps"
  /\ x \in req[c].left
  /\ lastAt' = IF x = "source" THEN [lastAt EXCEPT ![req[c].a] = req[c].cursor]
               ELSE [lastAt EXCEPT ![req[c].b] = req[c].at]
  /\ Done(c, x, "log")
  /\ UNCHANGED <<status, owner, mergedInto, made, sideVars, msgVars, crossed, excused>>

Log(c) ==
  /\ pc[c] = "log"
  /\ latestSplit' = [latestSplit EXCEPT ![req[c].a] = req[c].b]
  /\ Leave(c)
  /\ UNCHANGED <<rowVars, extras, readAt, msgVars, crossed, excused>>

-----------------------------------------------------------------------------
Begins(c) ==
  \/ \E p \in Person : BeginInbound(c, p) \/ BeginOwn(c, p)
  \/ \E k \in Conv :
       \/ BeginSession(c, k) \/ AgentReply(c, k) \/ AdminReply(c, k)
       \/ \E p \in Person : MemberReply(c, k, p)
       \/ \E s \in {"open", "resolved"} : ChangeStatus(c, k, s)
       \/ MarkRead(c, k)
       \/ \E x \in Extra :
            \/ AddTag(c, k, x) \/ AddAssignee(c, k, x)
            \/ AddParticipant(c, k, x) \/ AddPersonalTag(c, k, x)
            \/ RemoveTag(c, k, x) \/ RemoveAssignee(c, k, x) \/ RemovePersonalTag(c, k, x)
       \/ \E t \in Conv : AskMerge(c, k, t)
       \/ \E m \in Time : AdminSplit(c, k, m)
  \/ \E m \in Time : TopicSplit(c, m)

Next ==
  \E c \in Caller :
    \/ pc[c] = "idle" /\ calls < MaxCalls /\ Begins(c)
    \/ Create(c) \/ Append(c) \/ Latest(c) \/ Write(c)
    \/ ExtrasRead(c) \/ ExtrasWrite(c) \/ MarkTarget(c) \/ MarkSource(c)
    \/ InsertTarget(c) \/ Recheck(c) \/ Move(c) \/ Remaining(c) \/ Log(c)
    \/ \E x \in {"source", "target"} : Stamp(c, x)

Spec == Init /\ [][Next]_vars

-----------------------------------------------------------------------------
(* Every chain of merges ends, so that every route can resolve its         *)
(* conversation, unless two merges were under way at once (index.ts:2039). *)
ChainsEnd == ~crossed => \A k \in 1..made : Ends(k)

(* A resident's messages are together and nobody else's are among them:    *)
(* each sits in a conversation of its sender, merges stay within a person  *)
(* (index.ts:2058), and an inbound message opens a second thread for       *)
(* somebody who has one open only when another request was under way       *)
(* (index.ts:703).                                                         *)
ThreadsArePersonal ==
  /\ \A t \in Time : home[t] # Null => owner[home[t]] = sender[t]
  /\ \A k \in Conv : mergedInto[k] # Null => owner[mergedInto[k]] = owner[k]
  /\ \A p \in Person :
       Cardinality({k \in Conv : status[k] = "open" /\ owner[k] = p} \ excused) <= 1

(* A merge that nothing overlapped loses no tag, assignee or participant   *)
(* of either side, and if the viewer had read both conversations the       *)
(* merged one is not unread (index.ts:1897).                               *)
MergeKeeps ==
  [][\A c \in Caller \ met :
       Merging(c) /\ pc[c] = "marks" /\ pc'[c] = "idle" =>
         LET b == req[c].b IN
         /\ req[c].found.extras \subseteq extras'[b]
         /\ req[c].found.read => readAt'[b] >= lastAt'[b]]_vars

(* A split that nothing overlapped leaves in the old thread exactly what   *)
(* was before the message, puts the rest in the new one, and stamps both   *)
(* with their newest message (index.ts:2154).                              *)
SplitCuts ==
  [][\A c \in Caller \ met :
       Log(c) =>
         LET r == req[c] IN
         /\ \A t \in In(Chain(r.a)) : t < r.msg
         /\ In({r.b}) # {} /\ \A t \in In({r.b}) : t >= r.msg
         /\ lastAt[r.b] = Max(In({r.b}))
         /\ lastAt[r.a] = Newest(In(Chain(r.a)), 0)]_vars

(* Every message is in exactly one thread of the inbox, so that merging    *)
(* and splitting neither hide a message nor show it twice, unless a merge  *)
(* overlapped another merge, a split or a status change (index.ts:1351;    *)
(* route.ts:68: a stale link must update the live thread, "not a dead,     *)
(* invisible one").                                                        *)
ShownOnce ==
  ~raced =>
    \A h \in {home[t] : t \in Time} \ {Null} :
      Cardinality({k \in Inbox : h \in Chain(k)}) = 1
=============================================================================
