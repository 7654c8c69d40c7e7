---------------------------- MODULE ChatHandoff ----------------------------
(***************************************************************************)
(* A visitor's web chat in the realtime-bridge: the socket handler of      *)
(* routes/chat-widget.ts with its queue of early messages, ChatSession     *)
(* with its hand-over from the AI to a human and back                      *)
(* (sessions/chat-session.ts), and the registry through which agents reach *)
(* it (sessions/session-manager.ts).                                       *)
(*                                                                         *)
(* One conversation; a Socket is one connection of its visitor, and a      *)
(* reconnect is a further Socket.  The bridge is one Node process: code    *)
(* between two awaits is one action, and every await is a point where the  *)
(* other callbacks can run.                                                *)
(***************************************************************************)
EXTENDS Integers, Sequences

CONSTANTS
  Socket,      \* connections of the visitor, one after the other
  Agent,       \* users who may join, each once per socket
  MaxPending,  \* queued messages per socket (MAX_PENDING_MESSAGES)
  MaxTexts,    \* bound: messages the visitor sends per socket
  MaxHandoffs, \* bound: transfers logged before the AI starts another
  MaxCrashes   \* bound: bridge crashes

ASSUME ChatBounds ==
  MaxPending \in Nat \ {0} /\ MaxTexts \in Nat /\ MaxHandoffs \in Nat /\ MaxCrashes \in Nat

VARIABLES
  \* each socket and its handler
  ws,          \* "new", "open", "dropped" (the visitor is gone, the bridge does not know), "closed"
  inited,      \* sockets whose handler holds a session: init has resolved
  pending,     \* messages waiting for the session, oldest first
  handling,    \* the message whose append is awaited; 0 is none
  forAI,       \* sockets whose awaited message goes on to the AI
  \* each ChatSession
  start,       \* progress of start(): "idle", "resolving", "history", "connecting"
  mode,        \* handoffState
  realtime,    \* the OpenAI client: "none", "connecting", "open"
  owing,       \* sockets whose client owes a response
  logging,     \* sockets whose beginHandoff awaits logLiveTransfer
  transfer,    \* activeTransferId: a row of transfers; 0 is null
  timer,       \* sockets whose handoffTimer is armed
  expiring,    \* sockets whose handleHandoffTimeout awaits its update
  join,        \* agentJoin: "no", "assign", "outcome", "done"
  \* the process
  registered,  \* the session the registry holds for the conversation, if any
  \* the database
  transfers,   \* outcomes of the live_transfers rows
  stored,      \* the visitor's messages in the thread, as <<socket, number>>
  \* history and budgets
  sent,        \* messages the visitor has sent per socket
  putOff,      \* messages refused by a full queue or answered with "Please hold"
  crashes      \* bridge crashes so far

queueVars   == <<pending, handling, forAI>>
aiVars      == <<realtime, owing>>
handoffVars == <<logging, transfer, timer, expiring>>
chatVars    == <<ws, inited, queueVars, start, mode, aiVars, handoffVars, join,
                 registered, transfers, stored, sent, putOff, crashes>>

(* The live_transfers rows of the conversation, by their outcome. *)
LiveTransfers == Seq({"pending", "answered", "no_answer"})

ChatTypeOK ==
  /\ ws \in [Socket -> {"new", "open", "dropped", "closed"}]
  /\ inited \in SUBSET Socket
  /\ pending \in [Socket -> Seq(1..MaxTexts)]
  /\ \A s \in Socket : Len(pending[s]) <= MaxPending
  /\ handling \in [Socket -> 0..MaxTexts]
  /\ forAI \in SUBSET Socket
  /\ start \in [Socket -> {"idle", "resolving", "history", "connecting"}]
  /\ mode \in [Socket -> {"ai", "waiting", "human"}]
  /\ realtime \in [Socket -> {"none", "connecting", "open"}]
  /\ owing \in SUBSET Socket
  /\ logging \in SUBSET Socket /\ timer \in SUBSET Socket /\ expiring \in SUBSET Socket
  /\ transfer \in [Socket -> 0..Len(transfers)]
  /\ join \in [Socket \X Agent -> {"no", "assign", "outcome", "done"}]
  /\ registered \in SUBSET Socket
  /\ transfers \in LiveTransfers
  /\ stored \in Seq(Socket \X (1..MaxTexts))
  /\ sent \in [Socket -> 0..MaxTexts]
  /\ putOff \in SUBSET (Socket \X (1..MaxTexts))
  /\ crashes \in 0..MaxCrashes

ChatInit ==
  /\ ws = [s \in Socket |-> "new"]
  /\ inited = {}
  /\ pending = [s \in Socket |-> <<>>]
  /\ handling = [s \in Socket |-> 0]
  /\ forAI = {}
  /\ start = [s \in Socket |-> "idle"]
  /\ mode = [s \in Socket |-> "ai"]
  /\ realtime = [s \in Socket |-> "none"]
  /\ owing = {}
  /\ logging = {} /\ timer = {} /\ expiring = {}
  /\ transfer = [s \in Socket |-> 0]
  /\ join = [t \in Socket \X Agent |-> "no"]
  /\ registered = {}
  /\ transfers = <<>>
  /\ stored = <<>>
  /\ sent = [s \in Socket |-> 0]
  /\ putOff = {}
  /\ crashes = 0

-----------------------------------------------------------------------------
(* The visitor's connections.                                              *)

(* The widget has one connection, and closes it before it opens another.   *)
Free == \A s \in Socket : ws[s] # "open"

(* It connects, again when its last connection dropped, and sends init:    *)
(* tenant, identity and conversation are looked up.                        *)
ChatConnect(s) ==
  /\ ws[s] = "new" /\ Free
  /\ ws' = [ws EXCEPT ![s] = "open"]
  /\ start' = [start EXCEPT ![s] = "resolving"]
  /\ UNCHANGED <<inited, queueVars, mode, aiVars, handoffVars, join, registered,
                 transfers, stored, sent, putOff, crashes>>

Drop(s) ==
  /\ ws[s] = "open"
  /\ ws' = [ws EXCEPT ![s] = "dropped"]
  /\ UNCHANGED <<inited, queueVars, start, mode, aiVars, handoffVars, join, registered,
                 transfers, stored, sent, putOff, crashes>>

(* A message frame: refused when the queue is full; one that arrives       *)
(* before init has resolved waits with the rest.  The mutant makes room by *)
(* dropping the oldest.                                                    *)
QueuedDroppingOldest(q, n) == IF Len(q) < MaxPending THEN Append(q, n) ELSE Append(Tail(q), n)

Queued(q, n) == IF Len(q) < MaxPending THEN Append(q, n) ELSE q

Say(s) ==
  /\ ws[s] = "open"
  /\ sent[s] < MaxTexts
  /\ sent' = [sent EXCEPT ![s] = @ + 1]
  /\ pending' = [pending EXCEPT ![s] = Queued(@, sent[s] + 1)]
  /\ putOff' = IF Len(pending[s]) < MaxPending THEN putOff ELSE putOff \cup {<<s, sent[s] + 1>>}
  /\ UNCHANGED <<ws, inited, handling, forAI, start, mode, aiVars, handoffVars, join,
                 registered, transfers, stored, crashes>>

-----------------------------------------------------------------------------
(* drain: one message at a time, as soon as there is a session.            *)

Drainable(s) == s \in inited /\ handling[s] = 0

(* handleVisitorMessage up to its append. *)
HandleNext(s) ==
  /\ Drainable(s)
  /\ pending[s] # <<>>
  /\ pending' = [pending EXCEPT ![s] = Tail(@)]
  /\ IF mode[s] = "waiting"
     THEN /\ putOff' = putOff \cup {<<s, Head(pending[s])>>}
          /\ UNCHANGED <<handling, forAI>>
     ELSE /\ handling' = [handling EXCEPT ![s] = Head(pending[s])]
          /\ forAI' = IF mode[s] = "ai" THEN forAI \cup {s} ELSE forAI \ {s}
          /\ UNCHANGED putOff
  /\ UNCHANGED <<ws, inited, start, mode, aiVars, handoffVars, join, registered,
                 transfers, stored, sent, crashes>>

(* The append, and the rest: to the AI unless a human has the chat.  A     *)
(* client that is gone or still connecting drops it.                       *)
Stored(s) ==
  /\ handling[s] # 0
  /\ stored' = Append(stored, <<s, handling[s]>>)
  /\ handling' = [handling EXCEPT ![s] = 0]
  /\ owing' = IF s \in forAI /\ realtime[s] = "open" THEN owing \cup {s} ELSE owing
  /\ UNCHANGED <<ws, inited, pending, forAI, start, mode, realtime, handoffVars,
                 join, registered, transfers, sent, putOff, crashes>>

-----------------------------------------------------------------------------
(* ChatSession.start, first from initChatSession and again when nobody     *)
(* answered.                                                               *)

(* The registry has one session per conversation.                          *)
RegisterChat(s) == registered' = {s}

(* The lookups are done: the session registers and reads its history. *)
Register(s) ==
  /\ start[s] = "resolving"
  /\ RegisterChat(s)
  /\ start' = [start EXCEPT ![s] = "history"]
  /\ UNCHANGED <<ws, inited, queueVars, mode, aiVars, handoffVars, join,
                 transfers, stored, sent, putOff, crashes>>

OpenRealtime(s) ==
  /\ start[s] = "history"
  /\ start' = [start EXCEPT ![s] = "connecting"]
  /\ realtime' = [realtime EXCEPT ![s] = "connecting"]
  /\ UNCHANGED <<ws, inited, queueVars, mode, owing, handoffVars, join, registered,
                 transfers, stored, sent, putOff, crashes>>

(* Connected.  The first time, the handler gets its session and the queue  *)
(* is drained; after a timeout the AI is told to apologize.                *)
Started(s) ==
  /\ start[s] = "connecting"
  /\ start' = [start EXCEPT ![s] = "idle"]
  /\ realtime' = [realtime EXCEPT ![s] = IF @ = "connecting" THEN "open" ELSE @]
  /\ inited' = inited \cup {s}
  /\ owing' = IF s \in inited /\ realtime[s] = "connecting" THEN owing \cup {s} ELSE owing
  /\ UNCHANGED <<ws, queueVars, mode, handoffVars, join, registered,
                 transfers, stored, sent, putOff, crashes>>

-----------------------------------------------------------------------------
(* The AI's answers.                                                       *)

(* onTextDone: appended and shown, unless the chat has left the AI.  The   *)
(* AI's side of the thread is not in `stored`.                             *)
AIText(s) ==
  /\ s \in owing /\ realtime[s] = "open"
  /\ owing' = owing \ {s}
  /\ UNCHANGED <<ws, inited, queueVars, start, mode, realtime, handoffVars, join, registered,
                 transfers, stored, sent, putOff, crashes>>

(* The transfer_to_human tool call: beginHandoff up to its insert. *)
BeginHandoff(s) ==
  /\ s \in owing /\ realtime[s] = "open"
  /\ Len(transfers) < MaxHandoffs
  /\ owing' = owing \ {s}
  /\ mode' = [mode EXCEPT ![s] = "waiting"]
  /\ realtime' = [realtime EXCEPT ![s] = "none"]
  /\ logging' = logging \cup {s}
  /\ UNCHANGED <<ws, inited, queueVars, start, transfer, timer, expiring, join,
                 registered, transfers, stored, sent, putOff, crashes>>

(* The transfer is logged, the dashboard is told, the timer is armed. *)
TransferLogged(s) ==
  /\ s \in logging
  /\ transfers' = Append(transfers, "pending")
  /\ transfer' = [transfer EXCEPT ![s] = Len(transfers) + 1]
  /\ logging' = logging \ {s}
  /\ timer' = timer \cup {s}
  /\ UNCHANGED <<ws, inited, queueVars, start, mode, aiVars, expiring, join, registered,
                 stored, sent, putOff, crashes>>

-----------------------------------------------------------------------------
(* A human.                                                                *)

(* handleHandoffJoin reaches the registered session, whatever its mode:    *)
(* agentJoin up to its first await.                                        *)
AgentJoin(s, a) ==
  /\ s \in registered
  /\ join[<<s, a>>] = "no"
  /\ join' = [join EXCEPT ![<<s, a>>] = "assign"]
  /\ timer' = timer \ {s}
  /\ mode' = [mode EXCEPT ![s] = "human"]
  /\ UNCHANGED <<ws, inited, queueVars, start, aiVars, logging, transfer, expiring, registered,
                 transfers, stored, sent, putOff, crashes>>

(* Is there a transfer to close?  The mutant looks for one whose timer is  *)
(* armed, which agentJoin has just cleared.                                *)
SettlesIfArmed(s) == transfer[s] # 0 /\ s \in timer

Settles(s) == transfer[s] # 0

(* The conversation is assigned. *)
JoinAssigned(s, a) ==
  /\ join[<<s, a>>] = "assign"
  /\ join' = [join EXCEPT ![<<s, a>>] = IF Settles(s) THEN "outcome" ELSE "done"]
  /\ UNCHANGED <<ws, inited, queueVars, start, mode, aiVars, handoffVars, registered,
                 transfers, stored, sent, putOff, crashes>>

JoinRecorded(s, a) ==
  /\ join[<<s, a>>] = "outcome"
  /\ join' = [join EXCEPT ![<<s, a>>] = "done"]
  /\ transfers' = [transfers EXCEPT ![transfer[s]] = "answered"]
  /\ UNCHANGED <<ws, inited, queueVars, start, mode, aiVars, handoffVars, registered,
                 stored, sent, putOff, crashes>>

-----------------------------------------------------------------------------
(* Nobody comes.                                                           *)

(* The guard of handleHandoffTimeout. *)
TimesOut(s) == mode[s] = "waiting"

(* The timer fires. *)
HandoffTimeout(s) ==
  /\ s \in timer
  /\ timer' = timer \ {s}
  /\ expiring' = IF TimesOut(s) THEN expiring \cup {s} ELSE expiring
  /\ UNCHANGED <<ws, inited, queueVars, start, mode, aiVars, logging, transfer, join,
                 registered, transfers, stored, sent, putOff, crashes>>

(* no_answer is written; the chat goes back to the AI without another look *)
(* at the mode, and the session starts over.                               *)
BackToAI(s) ==
  /\ s \in expiring
  /\ expiring' = expiring \ {s}
  /\ transfers' = [transfers EXCEPT ![transfer[s]] = "no_answer"]
  /\ mode' = [mode EXCEPT ![s] = "ai"]
  /\ RegisterChat(s)
  /\ start' = [start EXCEPT ![s] = "history"]
  /\ UNCHANGED <<ws, inited, queueVars, aiVars, logging, transfer, timer, join,
                 stored, sent, putOff, crashes>>

-----------------------------------------------------------------------------
(* The end of a socket, and of the process.                                *)

(* What the death of the process leaves of its sockets: everything in      *)
(* memory is gone.                                                         *)
Gone ==
  /\ ws' = [s \in Socket |-> IF ws[s] = "new" THEN "new" ELSE "closed"]
  /\ inited' = {}
  /\ pending' = [s \in Socket |-> <<>>]
  /\ handling' = [s \in Socket |-> 0]
  /\ forAI' = {}
  /\ start' = [s \in Socket |-> "idle"]
  /\ mode' = [s \in Socket |-> "ai"]
  /\ realtime' = [s \in Socket |-> "none"]
  /\ owing' = {}
  /\ logging' = {} /\ timer' = {} /\ expiring' = {}
  /\ transfer' = [s \in Socket |-> 0]
  /\ join' = [t \in Socket \X Agent |-> IF join[t] = "no" THEN "no" ELSE "done"]
  /\ registered' = {}

(* dispose: whatever session the conversation has is unregistered. *)
Dispose(s) ==
  /\ timer' = timer \ {s}
  /\ realtime' = [realtime EXCEPT ![s] = "none"]
  /\ owing' = owing \ {s}
  /\ registered' = {}

(* The bridge sees the socket close.  Without a session yet there is       *)
(* nothing to dispose of.  Closing a client that is still connecting makes *)
(* its connect() reject; after a timeout nobody catches that, and an       *)
(* unhandled rejection ends the process.                                   *)
ChatClose(s) ==
  /\ ws[s] = "dropped"
  /\ IF s \in inited /\ start[s] = "connecting"
     THEN Gone
     ELSE /\ ws' = [ws EXCEPT ![s] = "closed"]
          /\ IF s \in inited THEN Dispose(s) ELSE UNCHANGED <<timer, realtime, owing, registered>>
          /\ UNCHANGED <<inited, queueVars, start, mode, logging, transfer, expiring, join>>
  /\ UNCHANGED <<transfers, stored, sent, putOff, crashes>>

(* A statement throws in a callback nobody awaits, or the process is       *)
(* killed.                                                                 *)
Crash ==
  /\ crashes < MaxCrashes
  /\ crashes' = crashes + 1
  /\ Gone
  /\ UNCHANGED <<transfers, stored, sent, putOff>>

-----------------------------------------------------------------------------
Bridge(s) ==
  \/ HandleNext(s) \/ Stored(s)
  \/ Register(s) \/ OpenRealtime(s) \/ Started(s)
  \/ TransferLogged(s)
  \/ HandoffTimeout(s) \/ BackToAI(s)
  \/ \E a \in Agent : JoinAssigned(s, a) \/ JoinRecorded(s, a)

ChatNext ==
  \/ \E s \in Socket : ChatConnect(s) \/ Drop(s) \/ Say(s) \/ ChatClose(s)
  \/ \E s \in Socket : Bridge(s) \/ AIText(s) \/ BeginHandoff(s)
  \/ \E s \in Socket, a \in Agent : AgentJoin(s, a)
  \/ Crash

ChatSafeSpec == ChatInit /\ [][ChatNext]_chatVars

(* Awaited statements answer, armed timers fire, the event loop serves     *)
(* every callback.  The visitor, the agents and the AI need not do         *)
(* anything.                                                               *)
ChatFairness ==
  \A s \in Socket :
    /\ WF_chatVars(HandleNext(s) \/ Stored(s))
    /\ WF_chatVars(Register(s) \/ OpenRealtime(s) \/ Started(s))
    /\ WF_chatVars(TransferLogged(s)) /\ WF_chatVars(HandoffTimeout(s)) /\ WF_chatVars(BackToAI(s))
    /\ \A a \in Agent : WF_chatVars(JoinAssigned(s, a) \/ JoinRecorded(s, a))

ChatSpec == ChatSafeSpec /\ ChatFairness

-----------------------------------------------------------------------------
(* Properties.                                                             *)

(* The thread has a socket's messages once each and in the order they were *)
(* typed ...                                                               *)
TextsInOrder ==
  \A i, j \in 1..Len(stored) :
    i < j /\ stored[i][1] = stored[j][1] => stored[i][2] < stored[j][2]

(* ... and of what a connected visitor typed nothing has disappeared: it   *)
(* was refused, is queued, is being appended, is in the thread, or was     *)
(* answered with "Please hold" - the one way to be answered and not kept.  *)
TextsAccounted ==
  \A s \in Socket : ws[s] = "open" =>
    \A n \in 1..sent[s] :
      \/ <<s, n>> \in putOff
      \/ \E i \in 1..Len(pending[s]) : pending[s][i] = n
      \/ handling[s] = n
      \/ \E i \in 1..Len(stored) : stored[i] = <<s, n>>

(* "A message queued during init cannot be overtaken by one that arrives   *)
(* while the queue is still being replayed" (chat-widget.ts), nor at any   *)
(* other time, and none is lost on the way.                                *)
TextsKept == TextsInOrder /\ TextsAccounted

(* "Human responds in time -> LiveTransfer.outcome = answered", "No one    *)
(* picks up within a timeout -> no_answer" (ARCHITECTURE.md, 6b): a logged *)
(* transfer of a visitor who waits and stays gets its outcome.             *)
WaitingTransferSettles ==
  \A s \in Socket :
    (mode[s] = "waiting" /\ transfer[s] # 0 /\ transfers[transfer[s]] = "pending")
      ~> (transfer[s] # 0 => transfers[transfer[s]] # "pending") \/ ws[s] # "open"
=============================================================================
