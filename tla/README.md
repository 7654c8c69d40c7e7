# communicationcanoe in TLA+

A verification project for communicationcanoe, the multi-tenant messaging service of this
repository: web chat, voice, SMS and email between a tenant's residents and its staff. The
Next.js app (`apps/web`) serves the dashboard, reside's internal API and the providers' webhooks;
the `apps/realtime-bridge` process holds the live sockets (widget, dashboard, Twilio media) and
runs the background workers; both talk to one Postgres database through `DomainService`
(`packages/database/src/services/index.ts`) and to providers through `packages/messaging`.

The modules are translated from the source. `PROJECT.json` maps each definition to the lines it
stands for. In this file `services` is `packages/database/src/services/index.ts`.

## 1. Inventory

Components in the order of what could go wrong in them. "State" is what the component remembers,
"hard" is what a unit test does not reach.

| Component | State | Operations | Hard | What makes it correct |
|---|---|---|---|---|
| **Bulk notices** (`outbound-batch-worker.ts`, `services` 998-1179, `dispatch-message.ts`, `record-with-retry.ts`) | `outbound_batches`, `outbound_batch_recipients`, `messages`; per replica a drain loop | create a batch; sweep stuck claims; list; claim; prepare; send; record, with retries; count | replicas racing; a crash between any two statements; a statement that throws after it committed; a dispatch slower than the sweep | one hand-off per claim; an outcome reported is final; a batch closes exactly when all recipients have settled |
| **Delayed replies and tone review** (`scheduled-message-worker.ts`, `tone-review-worker.ts`, compose/cancel/approve routes, `services` 800-998) | `messages.delivery_status`, `ai_review_status`, `scheduled_send_at`, `provider_message_id` | compose, cancel, approve, review, claim, send, record; webhook reports | a cancel racing a claim; late verdicts; reports out of order | sent once at most, only when approved, never after a cancel that said yes; no review hangs |
| **Response-due clock** (trigger in `99-functions-and-triggers.sql`, `overdue-conversation-worker.ts`, `services` 2400-2530) | `response_due_at`, `response_overdue_notified_at` | insert trigger; list, claim, tell reside; recompute after merge or split | overlapping ticks; an answer between listing and claim; inserts during a recomputation | the clock is on exactly for unanswered conversations; each episode is announced once |
| **Web chat and live hand-over** (`routes/chat-widget.ts`, `sessions/chat-session.ts`, `session-manager.ts`) | socket queue, `handoffState`, timer, AI client, registry; `live_transfers` | connect, queue, drain, AI answer, begin hand-off, join, time out, dispose | every await is a point where another callback runs; reconnects; process death | messages once and in order; the visitor is reachable; waiting ends; the human keeps the chat |
| **Dashboard presence** (`routes/dashboard.ts`, `realtime/dashboard-hub.ts`) | the hub's three indexes; each socket's viewer list | auth, watch, close, publish | ownership checks that overlap and end late | indexes agree; tenants stay apart; viewer lists are current |
| **Delivery outcome tracking** (`services` 1290-1400, SES and Twilio webhooks) | `{channel}_consecutive_failures`, `{channel}_flagged_at` | count, flag, reset, tell reside | concurrent webhook calls on a read-then-write | flagged only at the threshold; told once per streak |
| **Conversation restructuring** (`services` 1895-2217) | `merged_into_id`, `status`, messages' `conversation_id`, `conversation_splits`, join tables | merge, move the extras and read cursors, split, re-check, compensate | opposite merges; a merge under a split; a status change under a merge | chains end; every message in one thread of the inbox; a merge loses nothing, a split cuts cleanly |
| **Conversation threading** (`services` 673-805, 1351-1895, the reply and inbox routes) | `conversations`, `messages` | find or create, append, resume a chat session, reply, list | two inbound messages at once; a link older than a merge | a resident's messages together, nobody else's among them |
| **Read state, tags, assignees, participants** (the `conversations/[id]/*` routes) | `last_read_at`, join rows | add, remove, mark read | a write that resolves its conversation just before a merge | nothing read becomes unread, nothing assigned is lost |
| **Identities** (`services` 157-660, 2896-2984) | `identities`: unique contact columns, `merged_into_id`, `anonymized_at` | find or create, rename, convert a visitor, merge, resolve, anonymize | concurrent creation, chains of merges, an erasure under a request | one row per contact; chains end; what is erased stays so |
| **Single sends with an idempotency key, inbound texts and emails** (`internal/reside/messages/*`, `dispatch-message.ts`, `attachments.ts`, `click-tracking.ts`, the SMS and email webhooks) | `messages.idempotency_key`, `delivery_status`, `clicked_at`; a pass's attachment cache | look up, append, dispatch, record; fetch; tokenize; count a click | repeats whose first request is still running; death between append and dispatch; a record that never commits | one hand-off per key; a true answer; the same attachments for all recipients |
| **Topic-check routing, document ingestion, voicemail transcription** (`conversation-routing-worker.ts`, `document-ingestion-worker.ts`, `voicemail-transcription-worker.ts`, `services` 2221-2305, 2696-2777, 2818-2894) | status and claim columns; `document_chunks`, `conversation_splits` | upload, delete, sweep, list, claim, do the costly work, finish | work that outlasts its claim; a sweep of two statements; a breaker read before the split it guards | worked on once per claim; chunks once; no row stuck |
| **Voice calls** (`voice-session.ts`, `twilio-stream.ts`, `realtime-client.ts`, the voice webhooks) | the stream, the model's connection, `transcriptOrder`/`transcriptLines`, the registry | connect, transcribe, transfer, finalize, dispose; voicemail | transcripts late and out of order; a close while connecting or writing; a rejection nobody catches | the transcript is the call; nothing is left behind; no transfer without a record |
| **Chat widget client** (`chat-widget`) | socket, outbox | reconnect, flush | reconnects | nothing typed is lost or sent twice |
| Dashboard client; knowledge retrieval; provider clients; administration and authentication; UI | rows, current selection; none | single-row CRUD, calls out | little between actors | see "Not modelled" |

**Interaction.** Web routes and workers meet only in database rows: the route writes a row in an
initial status, workers of every replica poll for it and take it with a conditional UPDATE, and
webhooks write to it later. reside is called over HTTP from workers (overdue notice, voicemail) and
webhooks (identity status). Inside the bridge, `chat-widget.ts`, `ChatSession`, the registry
(`session-manager.ts`), `dashboard.ts` and `DashboardHub` call each other and share memory on one
event loop. The AI client calls back into sessions.

**Replicas.** The code and its comments assume that several workers may race ("race-safe against
... a second worker tick"; claims by conditional UPDATE), and a rolling deployment
overlaps two processes even where one is configured. The models therefore have a set of replicas.
The in-memory parts (chat, presence) live in one process and are modelled as one.

## 2. Modules

| Module | Models | Abstract specification |
|---|---|---|
| `OutboundBatch` | bulk notices, statement by statement | `BatchLedger` (properties `KeepsLedgerSafely`, `LedgerUntilFault`) |
| `BatchLedger` | what reside is promised of a batch | - |
| `ScheduledSend` | delayed replies, tone review, their delivery reports | `HeldMessage` (`HoldUntilRequeued`) |
| `HeldMessage` | what an admin is promised of a reply that is held | - |
| `ResponseClock` | the response-due clock | - |
| `Conversations` | threading, replies, inbox, extras, merges and splits | - |
| `Identities` | people: found, renamed, converted, merged, anonymized | - |
| `MergeChains` | resolution along `merged_into_id`, used by the two above | - |
| `ResideSend` | keyed sends, inbound texts and emails, attachments, click tracking | - |
| `ChatHandoff` | web chat, hand-over, registry | - |
| `VoiceCall` | phone calls, their transcripts, transfers and voicemails | - |
| `DeliveryOutcome` | failure counts and the notice to reside | - |
| `DashboardPresence` | dashboard sockets and the hub | - |
| `ClaimedJobs` | the topic-check, document and voicemail workers | - |
| `M_proofs`, for `OutboundBatch`, `ScheduledSend`, `ResideSend`, `Conversations`, `Identities`, `MergeChains` | theorems and lemmas about the module `M` (section 4) | - |
| `Realtime_proofs` | theorems about `ResponseClock`, `DeliveryOutcome`, `DashboardPresence` and `ChatHandoff` | - |
| `Bridge_proofs` | theorems about `ClaimedJobs` and `VoiceCall` | - |
| `MC*` | the instances TLC checks: constants, symmetry | - |

Where two components meet in a row, one module has the protocol and the other its effect as a choice:
`ResponseClock`'s `Restructure` is what `Conversations` says in detail, `OutboundBatch`'s `Prepare` stands for
`Identities`, `Conversations` and the tokens of `ResideSend`, and a `Split` of `ClaimedJobs` is a `TopicSplit`
of `Conversations`. They are not composed: each product has more states than either part has hazards. Components that are proved
about in one module have names of their own where they would share one (`ChatInit`, `DeliveryInit`,
`PresenceInit`, `VoiceInit`, and so on); nothing else connects them there.

### How state and actions correspond to the code

**One action is what nothing can come between**: in the database modules one SQL statement (or one
transaction) or one provider call; in the in-memory modules (chat, presence, voice) the code between two
awaits, since the bridge is one Node process. Reads a method makes before it decides anything are one step,
and reads that no decision is made on later than the next statement are part of that statement's action.

**How a statement ends.** `Replies` has "ok", "error" (thrown, nothing written) and, with
`LostReplies`, "lost" (committed and thrown at the caller). `Answered` takes the last two from the
budget `MaxFaults`. The catch blocks are modelled, with what the code does in them when the row is
not theirs.

**`OutboundBatch`.** `status`, `stale` (`claimed_at` older than `STUCK_CLAIM_TIMEOUT_MS`) and `link`
are columns of a recipient row, `completed` and `batchStatus` of a batch row, `thread` the delivery
statuses of the message rows appended for a recipient. `phase`/`round` are a replica's drain loop
(`Tick`, `List`, `EndRound`); `step`, `tries` and `row` are one `processRecipient` call each:
`Claim`, `Prepare`, `Send`, `RecordSent`/`RecordRefused` (`dispatchOutboundMessage`), `LinkOutcome`,
`Count`, `FailStatus`/`FailCount` (`failRecipient`, from the try block or from the catch block).
`DeliveryReport` is the SES or Twilio webhook: it finds a message row by the provider's message id, which the row
has from a `RecordSent` that committed (`tracked`), and writes its status, whatever that was; the recipient row is not
touched. `bounced` remembers the rows a report said did not arrive. Which statuses may come is a constant per
recipient, `ReportsOf`.
Concurrency is `mapWithConcurrency`'s lanes. Lookups, identity, threading and the message row are
one action (`Prepare`): none of them is shared with another actor of this model.

**`ScheduledSend`.** `status` and `review` are `delivery_status` and `ai_review_status`; `due` that
`scheduled_send_at` has passed. The sending loop (`ListDue`, `Claim`, `Lookup`, `Send`, `RecordSent`,
`RecordFailure`) and the reviewing loop (`ListReviews`, `Review`, `FlagAfterThrow`) are one pair per
replica; the routes are `Compose`, `Cancel`, `Approve`. A webhook is two statements: `ReportFound`
(the lookup by provider id) and `ReportApplied` (the update by the message's own id). Which statuses
may come is a constant per message, `Reports`: what the SES route and `mapTwilioStatus` can produce.

**`ResponseClock`.** `due` is `response_due_at` seen from now: null, in the future, or past.
`Inbound`/`Outbound` insert an external message and are the trigger as well; `List`, `Claim`, `Tell`,
`Skip` are a tick, and a `Slot` is a tick in progress, of one replica or of several, because
`setInterval` does not wait. `Restructure` is what a merge or a split does to the messages of a
conversation - which of them remain is a choice - followed by the three statements of
`recomputeConversationSla`.

**`Conversations`.** `status`, `owner`, `mergedInto`, `lastAt`, `extras`, `readAt`, `latestSplit` are columns of
`conversations` and its satellite tables, `home` a message's `conversation_id`; messages are numbered by
creation, so a time is a message. A `Caller` is a request in flight, `req` what it has read. Each route
resolves its conversation as the code does (`Scoped`) or does not (`MemberReply`, `AgentReply`); `Write` is the
statement it then sends. `BeginMerge` ... `MarkSource` are `mergeConversations`, whose last two updates go out
together (`Promise.all`) and land in either order; `BeginSplit` ... `Log` are `splitConversation`. Tags,
assignees, participants and personal tags move alike and are one set.

**`Identities`.** `contact` has the three unique columns, and `Collides` is the unique indexes, `Refused` those and
the check constraint. A request is one method: `LookPhone` ... `Winner` are `findOrCreateIdentity`, with
`MergeKeep`, `MergeAway`, `Mark` the statements of `mergeIdentities`; `Locate`, `Collide`, `Apply` are
`renameIdentity`, `BeginConvert` and `Write` are `convertIdentity`, `Scrub` the transaction of the anonymizer, whose rows were
selected when it began. Every method runs to its end or to the error that ends it.

**`ResideSend`.** `kind` tells reside's emails, texts and inbox messages, a resident's forwarded text (with a key)
or direct text or email (without one), and a notice's recipient. `Lookup`, `Insert`, `Existing` are the routes; `Fetch`,
`Fetched`, `FromCache` are `fetchEmailAttachments` over the promises of one drain pass; `Compose` is
`withClickTracking`; `HandOver`, `Record`, `RecordRefused` are `dispatchOutboundMessage`. `DeliveryReport` is the SES or
Twilio webhook, on a row that has the provider's message id (`tracked`); `Reportable` are the statuses it can
write for a kind, at any time and in any order, and `reported` those it has written. A repeat that comes after it is
answered with what it wrote (`Lookup`). `Tap` is the click
recorder, `heard` the answer that reached the sender, who repeats until there is one.

**`ChatHandoff`.** A `Socket` is one connection of the visitor of one conversation. `pending` is
`pendingMessages`, `inited` that the handler holds its session, `handling` the message whose append
is awaited; `mode` is `handoffState`, `realtime` the AI client; `logging`, `expiring` and `join` say
which await of `beginHandoff`, `handleHandoffTimeout` and `agentJoin` is open. The widget is the
environment (`ChatConnect`, `Say`, `Drop`). An AI answer that is already on the wire when its client
is closed is not modelled.

**`VoiceCall`.** A `Call` is answered by the voice webhook (a prompt and a `<Record>`) or streamed to a session.
`ws`, `client`, `registered` are its socket, the model's connection and the registry; `order` and `lines` are
`transcriptOrder` and the keys of `transcriptLines`. `Stop`, `Finalize`, `Close` are the end of a stream, whose
"stop" frame awaits `finalizeCall` while its close does not wait. `Ask` ... `SubmitOutput` are
`handleToolCall`, which nobody awaits: what it throws ends the process (`ToolThrows`). What a call without a client
no longer reads is forgotten (`Forget`).

**`DeliveryOutcome`.** One identity and channel. `Read` and `WriteFailure`/`WriteSuccess` are the two
statements of `recordChannelDeliveryOutcome`, `Notify` the call to reside, `Abandon` a call that ends
early.

**`DashboardPresence`.** `clients`, `watching` and `watchers` are the hub's indexes, `checks` the
ownership checks in flight, `shown` the last viewer list a socket was sent.
`emitConversation` and `emitNeedsHuman` read these and change nothing.

**`ClaimedJobs`.** The three workers have one shape and share no row, so an instance has rows of one
`kind`, chosen at the start; where they differ an operator says so: `SweptTo` (a stranded topic check is
retired, the others are replayed), `Lands` (only a voicemail's terminal write asks whether the row is
still claimed), `AfterWork`, `Outcome`. `state` is `topic_check_status`, `documents.status` or
`transcription_status`; `stale` that the claim is older than the worker's timeout, `chunks` the copies of a
document's chunks, `recent` the log entries the breaker counts. A document's reclaim is two
statements, `Sweep` and `DeleteChunks`. A document is `CreateDocument`d and may be `DeleteDocument`d in any
state. A split is one step with its log entry. `List` takes one row per tick (`BatchLimit`).

## 3. Runs

Every run is a `.cfg`; `PROJECT.json` lists each with the properties it checks. All of them pass.

| Run | Properties | What it shows |
|---|---|---|
| `batch_lone` | `KeepsLedgerSafely`, `NobodyStranded` | one replica, two batches, a crash and two faults: a batch is never closed early and no outcome changed (refinement of `BatchLedger`), and nobody is left; deliveries and bounces are reported meanwhile |
| `batch_hostile` | `HandedOncePerClaim`, `LinkedRowAgrees`, `LedgerUntilFault` | two replicas, slow sends, a crash, a fault, lost replies, a sweep: one hand-off per claim, the linked message row agrees unless the provider reported otherwise, and until a statement throws every step is one of the ledger |
| `send_hostile` | `HandedOncePerQueueing`, `CanceledIsUnsent`, `HoldUntilRequeued`, `ReviewFinishes` | two replicas, a crash, two faults, lost replies, reports in any order: one hand-off per queueing, none after a cancel that said yes, the steps of `HeldMessage` until a report or a fault, no review that hangs |
| `clock_episodes` | `NoticedOncePerEpisode`, `ClockAgrees`, `OverdueIsNoticed` | overlapping ticks over two conversations, replies, merges or splits, a fault |
| `chat_visit` | `TextsKept`, `WaitingTransferSettles` | a visit with a full queue, two agents, two hand-overs, a crash: messages in order and accounted for, no transfer of a waiting visitor left pending |
| `delivery_calls` | `NeverFlaggedEarly`, `ToldOncePerStreak` | three webhook calls at once, an abandoned one; calls one after the other |
| `presence` | `ViewersUpToDate`, `OnlyConnectedAreIndexed`, `WatchesLastAsked` | three sockets, overlapping checks, a check that throws |
| `jobs` | `WorkedOncePerClaim`, `BreakerCaps`, `IngestedOnce`, `JobsEnd` | two replicas, two rows of each kind, uploads and deletions, a crash, a fault or lost reply, work that outlasts its claim |
| `people` | `ChainsEnd`, `ErasedStays`, `FindSettles`, `ErasedTogether` | two requests at once and four in all, over three rows, two phones and two emails |
| `threads` | `ThreadsArePersonal`, `ChainsEnd`, `ShownOnce`, `MergeKeeps`, `SplitCuts` | two requests at once and three in all, over four conversations of one or two residents |
| `sends` | `SentOnce`, `QueuedIsHeld`, `AnswersAreTrue`, `SameForAll`, `ClicksAttributed` | a keyed send, a text and a notice of two recipients with two attachments, repeats, two faults or deaths, delivery reports |
| `calls` | `CallIsKept`, `NothingLeftBehind`, `TransfersAccounted` | two calls in one process, three turns, a transfer each, a fault |

Each property has a mutant of the code in `PROJECT.json` ("mutants") that breaks it. The type invariant of a
module is its `TypeOK` (`ChatTypeOK`, `DeliveryTypeOK`, `PresenceTypeOK`, `VoiceTypeOK`); it holds in every instance above, is
proved for every component (section 4), and is not among the properties of a run.

### Conditions in the properties, and the behaviour behind each

A condition in a property marks a place where the code promises no more. Each was found by checking the
property without it.

*Bulk notices.*
- `LedgerUntilFault` stops at the first statement that throws: a claim that throws sends its replica to
  the catch block, whose `failRecipient` writes "failed" by id alone, also over a row another replica has
  sent (worker, lines 277-300).
- A replica that dies (or runs out of retries) between the status write and the count leaves the batch one
  short, and nothing repairs it (worker, line 289): the safety half of `BatchLedger` is what is promised. A count that
  commits and then throws at the worker is retried and counts twice, so that a batch can close with a recipient still
  waiting: `batch_lone` loses no replies.
- `LinkedRowAgrees` excuses a linked row that the provider has reported bounced, undelivered or failed: the webhooks write
  the message row by its provider id (`ses/notifications` 78-81 and 99-102, `twilio/status` 60-73) and never the recipient
  row, so the recipient stays "sent". A late "queued" contradicts neither row. What the property says of a
  failed recipient needs no excuse: a refused message has no provider id.

*Delayed replies.*
- `HandedOncePerQueueing` counts the reports that requeue a text: a late "queued" or "sending" from Twilio
  (`twilio/status/route.ts:23`) puts a sent text back to "queued" (`services` 914-916); it is claimed and sent
  again. `CanceledIsUnsent` excuses a message that such a report has queued again, because a cancel then takes a
  row whose text is already out.
- `HoldUntilRequeued` stops at a fault: a claim that throws writes "failed" over a cancel.
- A replica that dies in "sending" leaves the message there; no sweep exists, on purpose.

*Response clock.*
- `ClockAgrees` holds up to the first merge or split: a message inserted between the reads and the write of
  `recomputeConversationSla` can lose its clock.
- `OverdueIsNoticed` holds until something throws: a tick that has claimed and cannot reach reside does
  not try again. It is about a conversation that has not been announced: one answered between listing and claim is claimed all the
  same (`services` 2440), its notice stays set, and the next overdue episode is silent.

*Web chat.*
- `WaitingTransferSettles` begins when the transfer is logged: an agent who joins while `beginHandoff`
  still awaits `logLiveTransfer` finds nothing to close, and the row stays pending.
- `TextsKept` counts what is answered "Please hold" as put off: it is answered and not persisted.
- No property says that the human keeps the chat, or that a visitor is reachable: an agent who joins while the
  timeout awaits its update loses the chat to the AI (`chat-session.ts:277`, though `ARCHITECTURE.md:310` has the
  human in it), and the late close of an earlier socket unregisters the session of a visitor who has reconnected
  (`dispose` does not look whose session it removes).

*Delivery outcomes, presence.*
- `ToldOncePerStreak` is about calls that never overlap: two that read the count at
  threshold - 1 both cross it.
- `OnlyConnectedAreIndexed` excuses a socket that closes while an ownership check of its is in flight: the
  handler does not look again (`dashboard.ts`, line 80), indexes the closed socket, and nothing removes it;
  other agents see its user as a viewer for ever.
- `WatchesLastAsked` is about sockets whose checks answer and that wait for one before the next frame: frames are handled
  concurrently, and a late check points the client back at what it has left.

*Jobs.*
- `IngestedOnce` excuses a document whose sweep was interrupted between its two statements, or raced a claim
  there (its chunks then stay and are inserted again, or are deleted from under the new ingestion), or
  was swept from a live replica (both insert).
- A document's terminal writes go by id alone, so that a replica whose claim throws writes "failed" over what
  another has finished; `WorkedOncePerClaim` bounds the work, not whose outcome stays.

*Conversations.*
- `ChainsEnd` (in both modules) is claimed until two merges were under way at once: opposite merges close a cycle,
  on which `resolve_conversation_id` and `resolve_identity_id` never return.
- `ShownOnce` excuses a merge that overlapped another merge, a split or a status change. A status change that resolved
  its conversation before the merge revives the row that was merged away, and its thread is then listed twice;
  and a split whose target was merged into meanwhile deletes that target and leaves a conversation "merged" into
  nothing, which the inbox does not list.
- `ThreadsArePersonal` excuses a second open thread that a race, a reopening, a split or `forceNew` made.
- `MergeKeeps` and `SplitCuts` are about a merge or split that nothing overlapped.
- No property says that `last_message_at` is current: a message written to a conversation that was merged away (a pinned
  chat session, a member's or an agent's reply), or between a merge's read and `MarkTarget`, stamps a row the inbox
  does not list, and such a message does not show as unread.

*Identities.*
- `ErasedStays` excuses `convertIdentity`: a chat session that still names an anonymized row writes the contact back
  onto it. It also leaves aside rows that were scrubbed while another request was under way.
- `FindSettles` allows a throw for a resident id held by another row: that column is unique over all rows, so the
  filling of a row can be refused because of one that was merged into it; and for a contact written back as above,
  which the unique index still counts and the finders skip.

*Single sends.*
- `AnswersAreTrue` excuses "failed" and "undelivered" for a message the provider took when the provider then reported just
  that: a repeat is answered with the row as it stands (`send/route.ts:60-70`), and a bounce or a failed text has
  overwritten it.
- `SentOnce` and `AnswersAreTrue` count the failures that hid an outcome. Of two concurrent requests with one key
  the second throws on the unique index, and is answered 500.
- `QueuedIsHeld` excuses faults and deaths: after either, the key is taken, every retry is answered
  "deduplicated", and nothing ever sends the row. It also excuses a text that has gone out and that Twilio then reported
  "queued" or "sending" (`twilio/status/route.ts:23`): its row says queued in nobody's hands, with no fault, and a
  repeat hears "queued". Nothing sends it again, since a keyed send has no schedule.
- `ClicksAttributed` excuses a link through the recorder that was pasted from another email: it keeps its token, and
  its clicks go to the old message.
- Texts from Twilio itself and emails from Postmark have no key: a repeated webhook appends them again.

*Voice.*
- `CallIsKept` is about streams that end with a "stop": one that closes without it loses its transcript.
- `TransfersAccounted` says there is a record, not that it is true: the transfer is logged "answered" before the dial
  and never corrected.
- A throw anywhere in `handleToolCall`, a refused Twilio update included, is an unhandled rejection that ends the
  bridge with every call in it.

### Bounds, and why they are enough

- **Two replicas, slots or callers; three webhook calls**: the races are between two holders of one row; a third adds no
  new pair (`delivery_calls` affords one). Two recipients are the fewest that make a list, a lane and a
  counter that can be off by one; the three recipients in two batches of `batch_lone` also check that
  counts do not mix, and that a row without an address is failed.
- **`send_hostile` has one text**, the message with the most reports.
- **`BatchLimit` 1 or 2, `MaxRounds` 1 or 2, `MaxAttempts` 2**: full and short rounds, the last round and
  a new tick, a retry that succeeds and one that gives up are all reached. `jobs` lists one row per tick.
- **`MaxFaults`, `MaxCrashes` 1 or 2**: each hazard is one fault or crash at the wrong moment; the lone
  batch, the hostile send and `sends` combine two faults, which is what it takes to exhaust `recordWithRetry`.
  `MaxReclaims` bounds how often a claim is swept; in `batch_lone` it equals the faults and crashes
  together, so the bound is never what keeps a row from being swept.
- **`MaxTexts`, `MaxHandoffs`, `MaxReports`, `MaxReplies`, `MaxRestructures`, `MaxFrames`, `MaxTaps`, `MaxAsks`** stop
  counters and histories. `MaxPending` is smaller than `MaxTexts`, so the visitor's queue overflows;
  `delivery_calls` has room for a streak, a recovery and another streak at the threshold of three.
- **`chat_visit` has one socket**, which affords the full queue and two hand-overs. The same two properties also hold
  of a visitor who reconnects (`Socket = {s1, s2}`, every other bound 1, one agent: 707 420 states), an instance kept out
  of the runs because it overlaps this one.
- **`jobs`**: `SplitLimit` is 1, with 0 or 1 splits in the window at the start, so that the breaker is met
  open, at its limit, and overshot by two replicas that read it at once. `MaxSlow` bounds how often live
  work outlasts its claim; a claim nobody works on can always grow stale, so no bound leaves a row stuck.
- **`threads`**: the first two conversations hold a message each, of one resident or two. `MaxConvs` 4 leaves room
  for a split's target and a new thread, `MaxTime` 4 for two more messages, and three requests make a chain of two
  merges, or a merge and a split between which something lands.
- **`people`**: three rows are a chain of two merges, and `Asks` has every column found, renamed, converted and
  erased; four requests make a person, merge them, erase them and ask again.
- **`sends`**: two requests at once of one key, or a request and its repeat; two references whose sizes together exceed the
  `Budget`, so that one is dropped; for each row one status the provider reports (`MaxReports` 1), any of those it can, as
  often as it likes and before or after `Record`'s other attempts. That a second one overwrites the first adds
  nothing to the properties, which ask what was reported of a row and not in which order.
- **`ReportsOf`** lets one recipient have reports: in `batch_lone` a delivery or a bounce of its email, in
  `batch_hostile` a text reported queued out of order or undelivered.
- **`calls`**: three turns are the fewest with a gap in the middle; two calls, that one may take the other down.
- **Symmetry** is used only where no property is temporal beyond one step: replicas in `batch_hostile`,
  calls in `delivery_calls` and `calls`, requests in `threads`, requests and the phones and emails in `people`,
  requests and recipients in `sends`, and in `presence` the two tabs of one agent and the tenant's two
  conversations, which `UserOf` and `Own` do not tell apart.
- **`CHECK_DEADLOCK FALSE`** in the chat, delivery, presence, people, threads, sends and calls runs: a visit ends when
  its socket has closed, requests, calls and frames are bounded, and then nothing is left to do. Everywhere else a loop is
  always there, and deadlock is checked.

### Fairness

Weak fairness only, on what the process itself does, and only in `batch_lone`, `send_hostile`, `clock_episodes`,
`chat_visit` and `jobs`, which have the liveness properties. `setInterval` and `startPollLoop` keep firing
whatever a tick did, an issued statement or provider call
answers, an armed timer fires, the event loop serves every callback, and time passes. Nobody is obliged
to post a batch, write, reply, cancel, approve, join, report or crash, and the AI need not answer. In `ClaimedJobs` a
replica goes on with one of the things it is at; which, it is free to choose.
A `Fairness` formula in each of these modules lists this. The other modules promise safety only: their requests end when
their statements do, and nothing in them waits.

## 4. Proofs

Every component that is modelled is proved about, and every safety invariant and action property that a run checks is a theorem. A
proof rests on an inductive invariant, a conjunction of named parts that holds in every reachable state:
`IInv` in `OutboundBatch_proofs`, `ScheduledSend_proofs` and `ResideSend_proofs`, `ClockInv`, `OutcomeInv`, `PresenceInv` and
`ChatInv` in `Realtime_proofs`, `JobsInv` and `VoiceInv` in `Bridge_proofs`, `ThreadsInv` in `Conversations_proofs`,
`PeopleInv` in `Identities_proofs`. The theorem that says so is called `Inductive`, or
`ClockInductive` and so on after the invariant (for `PresenceInv` it is inside the proofs of the others). TLC finds each to hold on the instances of
section 3 (of `Acyclic` what follows from it, that every chain ends). A theorem holds for every
number of replicas, rows, callers and every value of the bounds, from
the named assumptions on the constants alone: the bounds are natural numbers, limits
are not zero, and the sets that are counted are finite. No property of a run is stated for less than the run states it.

Two arguments return. A **token**: what may be done once is owed to one holder at a time, the holders are counted
with `Cardinality`, and no step makes a token but the one the property names. This is what finiteness is assumed
for. And **one carrier**: until something throws, one process at most is between the claim and the end, and
what it does next says what the row holds.

**`OutboundBatch_proofs`** (`SetsAssumption`: finitely many replicas, finitely many recipients in each batch).

- `TypeCorrect`, `DoubleSendGuard` (`HandedOncePerClaim`). The property says nothing of who may still hand a message
  over. A replica between its claim and its hand-off ("prepare", "send") holds a token for the recipient, a pending
  row is one, and every hand-off made is one; `TokenInv` says that these together are no more than `1 + reclaims`. A
  claim turns the row's token into the replica's, a hand-off spends it, the sweep makes one and raises `reclaims` with
  it, a crash loses one. Writes of "failed" or "sent" over the row, in any order, make none. `Posted`: before its
  batch is posted a recipient has no row, so nothing is running for it.
- `LinkIsTrue` (`LinkedRowAgrees`). A replica reports on a message row of its own (`RowsApart`), whose status is what
  it is about to say (`Reports`), and does not link it before the outcome is on it. After that only the
  provider's reports write the row, and only if the provider took the message (`Linked`): a sent recipient's row says "failed" or
  "undelivered" only once it was reported so (`Truthful`), and the row of a refused message, which has no provider id, is not
  written again.
- `LedgerKept` (`LedgerUntilFault`) and `LoneLedgerKept` (`KeepsLedgerSafely`): the refinements of `BatchLedger`. Both
  rest on `OrderInv`, which holds while the run is `Orderly`: nothing has thrown and nothing was swept, or there is one
  replica and no reply is lost. Then one replica at most is at a recipient (`Alone`, `Placed`), and the counter of a
  batch is at most the number of its recipients that are settled and not about to be counted (`Tallied`), so it
  reaches the size of the batch only when all of them have settled. `LoneLedgerKept` assumes `Lone` and
  `~LostReplies`, as in `batch_lone`, and not that sends are quick: a lone replica sweeps only between drains
  (`Resting`). The second assumption is needed: a count whose reply is lost is repeated, counts twice, and
  closes the batch early.

**`ScheduledSend_proofs`** (finitely many replicas and messages).

- `TypeCorrect`, `HandedOnce` (`HandedOncePerQueueing`): tokens, `Owed`; only a report that queues the text again makes one.
- `CancelIsFinal` (`CanceledIsUnsent`). The cancel takes the row's token (`Withdrawn`): nobody is on the way to the
  provider when it says yes, and nobody can be later.
- `HeldUntilRequeued` (`HoldUntilRequeued`): the refinement of `HeldMessage`, step by step, until a fault or a
  requeueing report. `Undisturbed` is the one carrier: what the claim found approved stays approved, and the row is
  "sending", until the outcome is recorded. `Recorded` says what a row tells of the past, so that a report
  comes after a hand-off.

**`ResponseClock`**, in `Realtime_proofs` (finitely many ticks at once).

- `NoticedOnce` (`NoticedOncePerEpisode`): tokens. The notice being unset is one, the claim hands it to a tick, the call to reside spends it; a
  reply makes one, and so does a merge or split, whose token lies with its recompute until that writes the clock.
- `ClockIsTrue` (`ClockAgrees`), with `Triggered`: a conversation that was never restructured is not being recomputed.

**`ClaimedJobs`**, in `Bridge_proofs` (finitely many replicas, at least one, and rows).

- `TypeCorrect`, `OncePerClaim` (`WorkedOncePerClaim`): tokens, and a topic check is never requeued.
- `CapHolds` (`BreakerCaps`): each replica has one row in hand (`OneInHand`), so the log entries and the replicas between
  breaker and split are fewer than `SplitLimit` plus the replicas. That there is a replica is assumed because with
  none the cap would read `SplitLimit - 1`.
- `ChunksOnce` (`IngestedOnce`): one carrier per document (`Intact`), whose next step says how many copies of
  its chunks there are; a sweep that owes the deletion of chunks (`Sweepers`) has no carrier beside it unless it is torn.

**`DeliveryOutcome`**, in `Realtime_proofs`. `FlaggedInTime` (`NeverFlaggedEarly`, with the types): nothing the row or a call holds
exceeds the hard failures recorded. `OncePerStreak` (`ToldOncePerStreak`): while no two calls were served at once
(`Served`), what a call read is what the row says, and reside is behind the row only by the notice that is pending.

**`DashboardPresence`**, in `Realtime_proofs`: every invariant of the `presence` run, and two no run lists (`IndexAgrees`: the
hub's indexes agree; `WatchersOwnIt`: no socket is in another tenant's index): `PresenceTyped`, `HubIsConsistent`,
`TenantsStayApart`, `ViewersAreRight`, `GhostsAreRaced`, `LastAskedWins`. `PresenceSets` says that every socket has an agent and
its tenant's conversations. The inductive invariant adds: a socket that has not connected has left no trace (`Quiet`), one that closed
with a check in flight is counted as raced (`LateIsRaced`), and an unraced socket's check in flight is that
of its last frame (`ChecksLastAsked`). `ViewersUpToDate` needs `IndexAgrees`: since nobody is in two
indexes, a move changes the watchers of the two conversations it publishes and of no other, and each
watcher is sent one list (`PublishedShows`, `HubMoves`).

**`VoiceCall`**, in `Bridge_proofs` (finitely many calls).

- `NoneLeftBehind` (`NothingLeftBehind`), `EveryTransferAccounted` (`TransfersAccounted`), from what each phase of a session
  says of its socket, its client and the registry (`Clean`) and each step of the transfer of its record
  (`Transferring`).
- `CallsAreKept` (`CallIsKept`): turns are numbered in the order they are spoken (`InOrder`), and what is written is what had been
  transcribed when the stream stopped (`Written`). `Body` is a recursive function, `Kept`; lemma `KeptKeeps` says for
  every sequence that it leaves out what is not in the set, nothing else, and keeps the order.

**`ResideSend_proofs`** (`BoundsAssumption`: the references are a sequence with sizes; `ItemsAssumption`: the three kinds
of item are disjoint, there is one to send, and no more recipients of a notice than rows).

- `GivenOnce` (`SentOnce`), `WaitingIsHeld` (`QueuedIsHeld`), `HeardIsTrue` (`AnswersAreTrue`). There is one row per key or
  recipient (`TableInv`: `Alone`), the unique index at work, and one dispatch per row (`Exclusive`), whose step says what the row
  holds (`Carried`). What a row says is what its dispatch wrote until it has a provider id (`tracked`), and from then on that
  or a status that was reported (`RowInv`). The answer that was heard rests on what stays true of the rows for good
  (`HeardInv`): that the message was taken, that it was refused (`GivenUp`, a row no report reaches), or that the provider
  reported that status.
- `AllAlike` (`SameForAll`). Where a recipient stands among the attachments - which it has, and how much of the budget they
  take - is what the cache says of the references before it, all of them settled, and of nothing else (`Path`,
  `Stands`), and a settled reference never changes. Two paths of one length have one end (`OneEnd`), by taking the
  first place where they differ; so all recipients end with the same.
- `ClicksAreOwned` (`ClicksAttributed`): a link names its own row, or is one that was pasted through the recorder.

**`ChatHandoff`**, in `Realtime_proofs` (`ChatTyped`, and `TextsAreKept` for `TextsKept`). A message passes through
the queue, the append that is awaited and the thread, in this order, and what is further along was typed
earlier (`Ordered`: the queue ascends, `handling` is below all of it, the thread below both). The one place where
this could break is the message that is appended while others wait; it is the code's rule that a queue is replayed
before anything newer is handled which keeps it.

**`MergeChains_proofs`** has lemmas only, for any finite set of rows. `Root` is a recursive function; `RootIs` says it is
where the walk along `merged_into_id` stands after as many steps as there are rows, `RootStays` that a set which no
link leaves is not left. Links are `Acyclic` when some strict order of the rows lies below them: then every chain
ends (`AcyclicEnds`, which counts the rows above the walk), a link from one root to another keeps the order (`LinkAdded`), and
so does one that is taken away (`LinksCut`).

**`Identities_proofs`** (`BoundsAssumption`, `ValuesAssumption`, `AsksAssumption`: nobody asks for a placeholder
address, and a find has a phone or an email, as the schema requires).

- `PeopleTyped`, `ChainsAlwaysEnd` (`ChainsEnd`). `ChainsStand`: until two merges are under way at once the links are
  acyclic and both rows in the hands of the one merge are roots, up to the link.
- `AnonymizedStays` (`ErasedStays`). `HeldAreClear`: there is a set of rows, closed under links, that has every row a request holds and
  none that was anonymized while nothing else was under way. So what a request writes to later, the survivor of a merge included, is
  never such a row; only `convertIdentity`, which was handed its row by a session, is outside.
- `AnonymizedTogether` (`ErasedTogether`). `PickedAll`: the rows an anonymizer selected are still those it would select, for one
  that is alone; what matches is then on the chains of what was picked.
- `FindsSettle` (`FindSettles`). `FindAlone` says for each step of `findOrCreateIdentity` what a request that is alone knows of the rows with
  its phone and its email, and `Unique` is the unique indexes: with them each look-up has one row at most, and the
  loser of an insert (`winner`) has been `Thwarted` by one of the two causes the property names.

**`Conversations_proofs`** (`BoundsAssumption`: room for the first two conversations and messages; `PersonAssumption`: somebody lives there).

- `ThreadsTyped`, with `RowsStand`: what is linked to, written in or logged was inserted; the row that a split's compensation deletes is
  named by nothing. `RequestsFit`: what each request holds at each step.
- `ConversationChainsEnd` (`ChainsEnd`), as above: `ChainsStand`.
- `ThreadsStayPersonal` (`ThreadsArePersonal`): `HomesPersonal`, `LinksPersonal`, `OpenOnce`, and `CreatesAlone`, that an inbound
  message about to open a thread, and alone, does so for somebody who has none open.
- `MessagesShownOnce` (`ShownOnce`). `ListedOnce`: until a merge races, a row is listed as merged exactly when it is linked, so the
  inbox lists the roots, and since chains end every row has one.
- `MergesKeepAll` (`MergeKeeps`), `SplitsCutThere` (`SplitCuts`), action properties. `MergeAlone` and `SplitAlone` say
  step by step what has been moved, read and stamped by a request that has met no other, and `Overlap` that requests
  in flight together have met: so whoever has not is the only one that steps, and no other step
  can disturb what is said of it.

**Induction.** The theorems of the library take an operator, which the provers cannot instantiate. `Kept`, the paths
of attachments and the walks along `merged_into_id` are proved about by a form over sets, derived from the
well-foundedness of `<` on the natural
numbers: a set of numbers that is not empty has a least member (`Least`), and one that holds 0 and the successor of each
of its members holds them all (`Climb`).

### Shaped for proof

Where a model could be written in two ways that TLC does not tell apart, it has the one that can be reasoned about: functions of two
arguments are updated at a pair (`![<<w, m>>]`), and `Body` is a recursive function. Finiteness is assumed of the sets
that are counted: replicas, ticks, calls and rows are finite in any execution, if not in number known.

### Only model-checked

Liveness and everything under fairness (`NobodyStranded`, `ReviewFinishes`, `OverdueIsNoticed`, `WaitingTransferSettles`,
`JobsEnd`), since the prover has no ENABLED. Every other property of a run is a theorem.

## 5. Not modelled

- **Contents**: subjects and staleness of conversations, team routing, threading headers, unsubscribe links, names of people, the
  merge and conversion logs, the count of opens. No property tells them apart.
- **Other columns of a conversation**: `assigned_user_id`, the `live_transfers` pointer in a merge; the rate limit on
  a member's replies; the platform user behind an administrator.
- **The hand-over of a voicemail to reside**: a claim that throws hands the voicemail over without a transcript, and reside
  drops the later notice; the de-duplication that decides this is reside's.
- **A resident's conversation list**: `member/conversations/route.ts` returns rows with status "merged", which
  `member-conversation-guard.ts` then resolves to another; a listing, not a protocol.
- **A second voicemail in one call**: the `<Record>` of the webhooks has no `action` (`twilio/voice/route.ts:57`,
  `dial-status/route.ts:43`), so Twilio fetches the prompt again when a recording ends. `VoiceCall` lets a call leave one recording,
  and `CallIsKept` says so of that one.
- **Identities reside does not know**: `DeliveryOutcome` is about one with a `resideResidentId`; of another the count and the
  flag are kept and nobody is told.
- **Voice**: audio, barge-in, and the credentials of Twilio and the model, which are assumed present.
- **The dashboard client**: a reconnecting client is a fresh socket to `DashboardPresence`. **The widget**: the environment
  of `ChatHandoff`; its local storage and rendering are left out.
- **Knowledge retrieval and reply suggestions; the email and SMS clients**: calls out, without state; a hand-off is
  accepted, refused, or fails without an answer. The clients' own retries are inside one hand-off, except in `ResideSend`.
- **Administration, authentication, tenants**: sessions by a library and single-row CRUD. The creation of a user at the first
  contact of a reside actor can race itself; the code says so and accepts it (`resolve-actor.ts:50-55`).
- **The user interface**, signature checks of webhooks, tokens, logging, the delays between retries (any time may
  pass between two actions).

## 6. Plan

What is modelled is proved, as far as the prover goes. What could come next is more model:

1. the hand-over of a voicemail to reside, with reside's de-duplication as an external part, for the claim that
   throws (`voicemail-transcription-worker.ts:117`);
2. the accounts behind reside's actors (`resolve-actor.ts:61`), once the code has a guard against two first requests;
3. the dashboard client, composed with `DashboardPresence`: what it watches again after a reconnect.
