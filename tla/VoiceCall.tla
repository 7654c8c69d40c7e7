------------------------------ MODULE VoiceCall ------------------------------
(***************************************************************************)
(* Phone calls.  A call either goes straight to voicemail (the voice,      *)
(* dial-status and recording-status webhooks of the web app) or its audio  *)
(* is streamed through the realtime-bridge to a speech model               *)
(* (sessions/voice-session.ts over openai/realtime-client.ts), which may   *)
(* transfer it to a human; when it ends, its transcript is written.        *)
(*                                                                         *)
(* The bridge is one process with a session per call: an action is a       *)
(* handler up to its next await, and a rejection nobody catches ends the   *)
(* process and every session in it.                                        *)
(*                                                                         *)
(* A caller who is prompted leaves one recording.  The <Record> of the     *)
(* webhooks has no action, so after a recording Twilio fetches the prompt  *)
(* again; a second recording would be a second voicemail, which the        *)
(* recording-status webhook appends like the first.                        *)
(***************************************************************************)
EXTENDS Integers, Sequences, FiniteSets, SequencesExt

CONSTANTS
  Call,       \* phone calls
  MaxItems,   \* bound: turns of all the calls
  MaxAsks,    \* bound: transfers the model asks for in one call
  MaxVoiceFaults  \* bound: statements and calls that throw, connections that break

ASSUME VoiceSets == IsFiniteSet(Call)

ASSUME VoiceBounds == MaxItems \in Nat /\ MaxAsks \in Nat /\ MaxVoiceFaults \in Nat

VARIABLES
  known,       \* calls to a number of a tenant, whose streams carry its ids
  leg,         \* where the caller is
  \* the sessions
  ws,          \* the stream from Twilio
  client,      \* the connection to the model
  registered,  \* calls in the session manager
  order,       \* transcriptOrder
  lines,       \* items that have a line in transcriptLines
  draft,       \* the body finalizeCall is writing
  tool,        \* where a transfer_to_human handler is
  \* the database
  transcripts, \* call -> bodies of its transcript messages
  voicemails,  \* call -> its voicemail messages
  transfers,   \* call -> outcomes logged in live_transfers
  \* the model's side
  said,        \* call -> turns so far, in the order they were spoken
  unheard,     \* call -> turns whose transcription is still to come
  asked, told, \* call -> tool calls made, outputs received
  \* history and budget
  atStop,      \* call -> turns that had words when the stream stopped
  spoke,       \* callers who left a message after the tone
  voiceFaults

itemVars == <<order, lines, said, unheard>>
sessionVars == <<ws, client, registered, draft>>
toolVars == <<tool, transfers, asked, told>>
tableVars == <<transcripts, voicemails>>
voiceVars == <<known, leg, itemVars, sessionVars, toolVars, tableVars, atStop, spoke, voiceFaults>>

Item == 1..MaxItems
Legs == {"new", "stream", "dialing", "talking", "prompted", "recorded", "over"}
ToolSteps == {"idle", "lookup", "refuse", "log", "dial", "answer"}

VoiceTypeOK ==
  /\ known \in SUBSET Call
  /\ leg \in [Call -> Legs]
  /\ ws \in [Call -> {"none", "open", "stopping", "stopped", "closed"}]
  /\ client \in [Call -> {"none", "connecting", "open", "closed"}]
  /\ registered \in SUBSET Call
  /\ order \in [Call -> Seq(Item)]
  /\ lines \in [Call -> SUBSET Item]
  /\ draft \in [Call -> Seq(Item)]
  /\ tool \in [Call -> ToolSteps]
  /\ transcripts \in [Call -> Seq(Seq(Item))]
  /\ voicemails \in [Call -> Nat]
  /\ transfers \in [Call -> Seq({"no_answer", "answered"})]
  /\ said \in [Call -> 0..MaxItems]
  /\ unheard \in [Call -> SUBSET Item]
  /\ asked \in [Call -> 0..MaxAsks]
  /\ told \in [Call -> 0..MaxAsks]
  /\ atStop \in [Call -> SUBSET Item]
  /\ spoke \in SUBSET Call
  /\ voiceFaults \in 0..MaxVoiceFaults

VoiceInit ==
  /\ known \in SUBSET Call
  /\ leg = [c \in Call |-> "new"]
  /\ ws = [c \in Call |-> "none"]
  /\ client = [c \in Call |-> "none"]
  /\ registered = {}
  /\ order = [c \in Call |-> <<>>]
  /\ lines = [c \in Call |-> {}]
  /\ draft = [c \in Call |-> <<>>]
  /\ tool = [c \in Call |-> "idle"]
  /\ transcripts = [c \in Call |-> <<>>]
  /\ voicemails = [c \in Call |-> 0]
  /\ transfers = [c \in Call |-> <<>>]
  /\ said = [c \in Call |-> 0]
  /\ unheard = [c \in Call |-> {}]
  /\ asked = [c \in Call |-> 0]
  /\ told = [c \in Call |-> 0]
  /\ atStop = [c \in Call |-> {}]
  /\ spoke = {}
  /\ voiceFaults = 0

Fault == voiceFaults < MaxVoiceFaults /\ voiceFaults' = voiceFaults + 1

-----------------------------------------------------------------------------
(* Voicemail.                                                              *)

(* The voice webhook answers every call, of a tenant or not, with a prompt *)
(* and a <Record>.                                                         *)
AnswerCall(c) ==
  /\ leg[c] = "new"
  /\ leg' = [leg EXCEPT ![c] = "prompted"]
  /\ UNCHANGED <<known, itemVars, sessionVars, toolVars, tableVars, atStop, spoke, voiceFaults>>

(* The caller speaks and is done; Twilio reports the recording. *)
LeaveMessage(c) ==
  /\ leg[c] = "prompted"
  /\ leg' = [leg EXCEPT ![c] = "recorded"]
  /\ spoke' = spoke \cup {c}
  /\ UNCHANGED <<known, itemVars, sessionVars, toolVars, tableVars, atStop, voiceFaults>>

(* recording-status: a placeholder that waits for its transcription, in    *)
(* the open conversation of the number; or 404, or a statement throws.     *)
RecordingStatus(c) ==
  /\ leg[c] = "recorded"
  /\ leg' = [leg EXCEPT ![c] = "over"]
  /\ \/ /\ c \in known
        /\ voicemails' = [voicemails EXCEPT ![c] = @ + 1]
        /\ UNCHANGED voiceFaults
     \/ /\ c \in known
        /\ Fault /\ UNCHANGED voicemails
     \/ c \notin known /\ UNCHANGED <<voicemails, voiceFaults>>
  /\ UNCHANGED <<known, itemVars, sessionVars, toolVars, transcripts, atStop, spoke>>

HangUp(c) ==
  /\ leg[c] \in {"stream", "dialing", "talking", "prompted"}
  /\ leg' = [leg EXCEPT ![c] = "over"]
  /\ UNCHANGED <<known, itemVars, sessionVars, toolVars, tableVars, atStop, spoke, voiceFaults>>

-----------------------------------------------------------------------------
(* The stream and the session.                                             *)

(* The "start" frame: registered, and connecting to the model. *)
StreamStart(c) ==
  /\ leg[c] = "new"
  /\ leg' = [leg EXCEPT ![c] = "stream"]
  /\ ws' = [ws EXCEPT ![c] = "open"]
  /\ registered' = registered \cup {c}
  /\ client' = [client EXCEPT ![c] = "connecting"]
  /\ UNCHANGED <<known, itemVars, draft, toolVars, tableVars, atStop, spoke, voiceFaults>>

(* connect() resolves; or it rejects, which the stream's handler logs, and *)
(* the call goes on with a client that drops whatever it is given.         *)
Connected(c) ==
  /\ client[c] = "connecting"
  /\ \/ client' = [client EXCEPT ![c] = "open"] /\ UNCHANGED voiceFaults
     \/ client' = [client EXCEPT ![c] = "closed"] /\ Fault
  /\ UNCHANGED <<known, leg, itemVars, ws, registered, draft, toolVars, tableVars, atStop, spoke>>

(* conversation.item.added: ids arrive in the order of the turns.          *)
Ordered(q, i) == IF Contains(q, i) THEN q ELSE Append(q, i)

Turn(c) ==
  /\ client[c] = "open" /\ leg[c] = "stream"
  /\ Cardinality({t \in Call \X Item : t[2] <= said[t[1]]}) < MaxItems
  /\ LET i == said[c] + 1 IN
       /\ said' = [said EXCEPT ![c] = i]
       /\ unheard' = [unheard EXCEPT ![c] = @ \cup {i}]
       /\ order' = [order EXCEPT ![c] = Ordered(@, i)]
  /\ UNCHANGED <<known, leg, lines, sessionVars, toolVars, tableVars, atStop, spoke, voiceFaults>>

(* onTranscriptDone, in any order and as late as the model likes; the      *)
(* words may be blank.                                                     *)
Transcribed(c, i) ==
  /\ client[c] = "open"
  /\ i \in unheard[c]
  /\ unheard' = [unheard EXCEPT ![c] = @ \ {i}]
  /\ \/ UNCHANGED <<order, lines>>
     \/ /\ order' = [order EXCEPT ![c] = Ordered(@, i)]
        /\ lines' = [lines EXCEPT ![c] = @ \cup {i}]
  /\ UNCHANGED <<known, leg, said, sessionVars, toolVars, tableVars, atStop, spoke, voiceFaults>>

(* dispose: the client is closed, also one that is still connecting (its   *)
(* connect() then rejects), and the session leaves the registry.  The      *)
(* mutant closes only a client that is open.                               *)
DisposedIfOpen(c) == [client EXCEPT ![c] = IF @ = "open" THEN "closed" ELSE @]

Disposed(c) == [client EXCEPT ![c] = IF @ = "none" THEN "none" ELSE "closed"]

(* What a session without a client no longer needs, for the calls in S.   *)
Forget(S) ==
  /\ order' = [c \in Call |-> IF c \in S THEN <<>> ELSE order[c]]
  /\ lines' = [c \in Call |-> IF c \in S THEN {} ELSE lines[c]]
  /\ unheard' = [c \in Call |-> IF c \in S THEN {} ELSE unheard[c]]
  /\ asked' = [c \in Call |-> IF c \in S THEN 0 ELSE asked[c]]
  /\ told' = [c \in Call |-> IF c \in S THEN 0 ELSE told[c]]

KeepAll == UNCHANGED <<order, lines, unheard, asked, told>>

Dispose(c) ==
  /\ client' = Disposed(c)
  /\ registered' = registered \ {c}
  /\ Forget({c})

(* The members of q in S, in their order.                                  *)
Kept(q, S) ==
  LET keep[n \in 0..Len(q)] ==
        IF n = 0 THEN <<>>
        ELSE IF q[n] \in S THEN Append(keep[n - 1], q[n]) ELSE keep[n - 1]
  IN keep[Len(q)]

(* finalizeCall's body: the lines there are, in order.  The mutant stops   *)
(* at the first turn without words.                                        *)
BodyToGap(c) ==
  LET gap == {n \in DOMAIN order[c] : order[c][n] \notin lines[c]}
  IN IF gap = {} THEN order[c] ELSE SubSeq(order[c], 1, (CHOOSE n \in gap : \A m \in gap : n <= m) - 1)

Body(c) == Kept(order[c], lines[c])

(* Twilio ends the stream: the "stop" frame, up to finalizeCall's append.  *)
Stop(c) ==
  /\ ws[c] = "open" /\ leg[c] # "stream"
  /\ atStop' = [atStop EXCEPT ![c] = lines[c]]
  /\ IF c \in known /\ Body(c) # <<>>
     THEN /\ ws' = [ws EXCEPT ![c] = "stopping"]
          /\ draft' = [draft EXCEPT ![c] = Body(c)]
          /\ KeepAll /\ UNCHANGED <<client, registered>>
     ELSE /\ ws' = [ws EXCEPT ![c] = "stopped"]
          /\ Dispose(c)
          /\ UNCHANGED draft
  /\ UNCHANGED <<known, leg, said, tool, transfers, tableVars, spoke, voiceFaults>>

(* appendMessage; if it throws, the handler ends before dispose. *)
Finalize(c) ==
  /\ draft[c] # <<>>
  /\ draft' = [draft EXCEPT ![c] = <<>>]
  /\ ws' = [ws EXCEPT ![c] = IF @ = "stopping" THEN "stopped" ELSE @]
  /\ \/ /\ transcripts' = [transcripts EXCEPT ![c] = Append(@, draft[c])]
        /\ Dispose(c) /\ UNCHANGED voiceFaults
     \/ Fault /\ KeepAll /\ UNCHANGED <<transcripts, client, registered>>
  /\ UNCHANGED <<known, leg, said, tool, transfers, voicemails, atStop, spoke>>

(* The socket closes, after a "stop" (whose append may still be running)   *)
(* or, when the connection breaks, without one, which ends the call.       *)
Close(c) ==
  /\ ws[c] \in {"open", "stopping", "stopped"}
  /\ ws' = [ws EXCEPT ![c] = "closed"]
  /\ Dispose(c)
  /\ IF ws[c] = "open"
     THEN Fault /\ leg' = [leg EXCEPT ![c] = IF @ = "stream" THEN "over" ELSE @]
     ELSE UNCHANGED <<voiceFaults, leg>>
  /\ UNCHANGED <<known, said, draft, tool, transfers, tableVars, atStop, spoke>>

-----------------------------------------------------------------------------
(* transfer_to_human.                                                      *)

(* The process dies: every session with it, and every stream. *)
Gone ==
  /\ ws' = [c \in Call |-> IF ws[c] = "none" THEN "none" ELSE "closed"]
  /\ client' = [c \in Call |-> IF client[c] = "none" THEN "none" ELSE "closed"]
  /\ registered' = {}
  /\ draft' = [c \in Call |-> <<>>]
  /\ tool' = [c \in Call |-> "idle"]
  /\ leg' = [c \in Call |-> IF leg[c] = "stream" THEN "over" ELSE leg[c]]
  /\ Forget(Call)

(* handleToolCall is not awaited: what it throws is an unhandled rejection. *)
ToolThrows == Gone

(* A handler's order: who is on call, the log, the dial, the answer.  The  *)
(* mutant dials before it logs.                                            *)
NextDialFirst(s) == CASE s = "lookup" -> "dial" [] s = "dial" -> "log" [] s = "log" -> "answer"

NextStep(s) == CASE s = "lookup" -> "log" [] s = "log" -> "dial" [] s = "dial" -> "answer"

(* The model asks; without ids the transfer is refused, and not logged. *)
Ask(c) ==
  /\ client[c] = "open"
  /\ tool[c] = "idle" /\ asked[c] < MaxAsks
  /\ asked' = [asked EXCEPT ![c] = @ + 1]
  /\ tool' = [tool EXCEPT ![c] = IF c \in known THEN "lookup" ELSE "answer"]
  /\ UNCHANGED <<known, leg, itemVars, sessionVars, transfers, told, tableVars, atStop, spoke, voiceFaults>>

(* getOnCallUsers: somebody with a phone number, or nobody. *)
LookUp(c) ==
  /\ tool[c] = "lookup"
  /\ \/ /\ \E s \in {NextStep("lookup"), "refuse"} : tool' = [tool EXCEPT ![c] = s]
        /\ KeepAll /\ UNCHANGED <<leg, sessionVars, voiceFaults>>
     \/ ToolThrows /\ Fault
  /\ UNCHANGED <<known, said, transfers, tableVars, atStop, spoke>>

(* logLiveTransfer: with an outcome, before it is known. *)
Log(c) ==
  /\ tool[c] \in {"refuse", "log"}
  /\ \/ /\ transfers' = [transfers EXCEPT ![c] = Append(@, IF tool[c] = "refuse" THEN "no_answer" ELSE "answered")]
        /\ tool' = [tool EXCEPT ![c] = IF @ = "refuse" THEN "answer" ELSE NextStep(@)]
        /\ KeepAll /\ UNCHANGED <<leg, sessionVars, voiceFaults>>
     \/ ToolThrows /\ Fault /\ UNCHANGED transfers
  /\ UNCHANGED <<known, said, tableVars, atStop, spoke>>

(* Twilio redirects the call to a <Dial>, from wherever it is; it refuses  *)
(* for a call that is over.                                                *)
Dial(c) ==
  /\ tool[c] = "dial"
  /\ \/ /\ leg[c] \in {"stream", "dialing", "talking", "prompted"}
        /\ leg' = [leg EXCEPT ![c] = "dialing"]
        /\ tool' = [tool EXCEPT ![c] = NextStep(@)]
        /\ KeepAll /\ UNCHANGED <<sessionVars, voiceFaults>>
     \/ /\ leg[c] \in {"recorded", "over"}
        /\ ToolThrows /\ UNCHANGED voiceFaults
     \/ ToolThrows /\ Fault
  /\ UNCHANGED <<known, said, transfers, tableVars, atStop, spoke>>

(* submitToolOutput, which a client that is gone drops. *)
SubmitOutput(c) ==
  /\ tool[c] = "answer"
  /\ tool' = [tool EXCEPT ![c] = "idle"]
  /\ told' = IF client[c] = "open" THEN [told EXCEPT ![c] = @ + 1] ELSE told
  /\ UNCHANGED <<known, leg, itemVars, sessionVars, transfers, asked, tableVars, atStop, spoke, voiceFaults>>

(* The <Dial> is answered, or ends in the dial-status webhook, which asks  *)
(* for a message and records it.                                           *)
PickUp(c) ==
  /\ leg[c] = "dialing"
  /\ leg' = [leg EXCEPT ![c] = "talking"]
  /\ UNCHANGED <<known, itemVars, sessionVars, toolVars, tableVars, atStop, spoke, voiceFaults>>

DialStatus(c) ==
  /\ leg[c] \in {"dialing", "talking"}
  /\ leg' = [leg EXCEPT ![c] = "prompted"]
  /\ UNCHANGED <<known, itemVars, sessionVars, toolVars, tableVars, atStop, spoke, voiceFaults>>

-----------------------------------------------------------------------------
Phone(c) ==
  \/ AnswerCall(c) \/ LeaveMessage(c) \/ RecordingStatus(c) \/ HangUp(c)
  \/ PickUp(c) \/ DialStatus(c)

Session(c) ==
  \/ StreamStart(c) \/ Connected(c) \/ Turn(c) \/ Stop(c) \/ Finalize(c) \/ Close(c)
  \/ \E i \in Item : Transcribed(c, i)

Transfer(c) == Ask(c) \/ LookUp(c) \/ Log(c) \/ Dial(c) \/ SubmitOutput(c)

VoiceNext == \E c \in Call : Phone(c) \/ Session(c) \/ Transfer(c)

VoiceSpec == VoiceInit /\ [][VoiceNext]_voiceVars

-----------------------------------------------------------------------------
(* Properties.                                                             *)

(* What a caller said to the model is in the thread as it was said: a call *)
(* has one transcript at most, with everything that had words when its     *)
(* stream stopped, in conversation order "when a transcript resolves late" *)
(* (voice-transcript.test.ts), whatever order they come in ...             *)
TranscriptIsTheCall ==
  \A c \in Call : \A n \in DOMAIN transcripts[c] :
    /\ n = 1
    /\ Range(transcripts[c][n]) = atStop[c]
    /\ \A i, j \in DOMAIN transcripts[c][n] : i < j => transcripts[c][n][i] < transcripts[c][n][j]

(* ... and what was said after a tone is there or on its way, first thing  *)
(* or after a dial nobody took, where once "no voicemail was ever captured *)
(* despite the promise" (dial-status/route.ts).                            *)
VoicemailIsKept ==
  \A c \in spoke : c \in known /\ voiceFaults = 0 => leg[c] = "recorded" \/ voicemails[c] = 1

CallIsKept == TranscriptIsTheCall /\ VoicemailIsKept

(* A call whose socket is closed leaves no session in the registry and no  *)
(* paid connection to the model, even if it closed while the session was   *)
(* still connecting or its transcript was being written.                   *)
NothingLeftBehind ==
  \A c \in Call : ws[c] = "closed" => c \notin registered /\ client[c] \in {"none", "closed"}

(* A transfer is never made behind anybody's back: the caller is dialled   *)
(* to a human only with a row in live_transfers that says so, under the    *)
(* ids of the stream, and as long as the model is connected a handler that *)
(* is done has given it the output it waits for.                           *)
TransfersAccounted ==
  \A c \in Call :
    /\ leg[c] \in {"dialing", "talking"} => c \in known /\ Contains(transfers[c], "answered")
    /\ client[c] = "open" /\ tool[c] = "idle" => told[c] = asked[c]
=============================================================================
