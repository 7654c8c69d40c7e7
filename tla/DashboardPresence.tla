------------------------- MODULE DashboardPresence -------------------------
(***************************************************************************)
(* Who is looking at what: the dashboard sockets of the realtime-bridge    *)
(* (routes/dashboard.ts) and the hub that indexes them                     *)
(* (realtime/dashboard-hub.ts).  A watch frame is checked against the      *)
(* database before the hub hears of it, and every frame is handled on its  *)
(* own, so checks overlap, end in any order, and can end after the socket  *)
(* has closed.                                                             *)
(***************************************************************************)
EXTENDS Integers

CONSTANTS
  Client,        \* dashboard sockets
  User,          \* agents
  UserOf,        \* the agent behind each socket
  Watchable,     \* conversations
  Own,           \* the conversations of each socket's tenant
  Nothing,       \* not a conversation: watching nothing
  MaxFrames      \* bound: watch frames per socket

ASSUME PresenceSets ==
  /\ UserOf \in [Client -> User]
  /\ Own \in [Client -> SUBSET Watchable]
  /\ \A c, d \in Client : Own[c] = Own[d] \/ Own[c] \cap Own[d] = {}
  /\ Nothing \notin Watchable

ASSUME PresenceBounds == MaxFrames \in Nat

VARIABLES
  conn,      \* each socket: "new", "open", "closed"
  authed,    \* sockets with a verified token: their handler has a client
  frames,    \* watch frames received per socket
  asked,     \* the conversation of each socket's last watch frame
  checks,    \* ownership checks in flight, as <<socket, frame, conversation>>
  \* the hub
  clients,   \* #clients and #byTenant
  watching,  \* each client's watching
  watchers,  \* #byConversation
  \* what each socket was sent
  shown,     \* its last viewer list, as [of, users]
  \* history
  raced      \* open sockets that sent a frame, and closed ones that closed,
             \* while a check of theirs was in flight, or one of whose checks
             \* threw while they were open

hubVars == <<clients, watching, watchers, shown>>
presenceVars == <<conn, authed, frames, asked, checks, hubVars, raced>>

Selection == Watchable \cup {Nothing}

BeingChecked == {c \in Client : \E x \in checks : x[1] = c}

PresenceTypeOK ==
  /\ conn \in [Client -> {"new", "open", "closed"}]
  /\ authed \in SUBSET Client
  /\ frames \in [Client -> 0..MaxFrames]
  /\ asked \in [Client -> Selection]
  /\ checks \in SUBSET (Client \X (1..MaxFrames) \X Watchable)
  /\ clients \in SUBSET Client
  /\ watching \in [Client -> Selection]
  /\ watchers \in [Watchable -> SUBSET Client]
  /\ shown \in [Client -> [of : Selection, users : SUBSET User]]
  /\ raced \in SUBSET Client

PresenceInit ==
  /\ conn = [c \in Client |-> "new"]
  /\ authed = {}
  /\ frames = [c \in Client |-> 0]
  /\ asked = [c \in Client |-> Nothing]
  /\ checks = {}
  /\ clients = {}
  /\ watching = [c \in Client |-> Nothing]
  /\ watchers = [k \in Watchable |-> {}]
  /\ shown = [c \in Client |-> [of |-> Nothing, users |-> {}]]
  /\ raced = {}

-----------------------------------------------------------------------------
(* The hub.                                                                *)

(* #publishViewers for the conversations K, once the watchers are W: the   *)
(* list goes to the open sockets among them, each without its own agent.   *)
(* The mutants leave the newcomer, or those who stay, with their old list. *)
PublishedToOthers(c, K, W) ==
  shown' = [x \in Client |->
    IF x # c /\ conn[x] = "open" /\ \E k \in K : x \in W[k]
    THEN LET k == CHOOSE k \in K : x \in W[k]
         IN [of |-> k, users |-> {UserOf[y] : y \in W[k]} \ {UserOf[x]}]
    ELSE shown[x]]

Published(c, K, W) ==
  shown' = [x \in Client |->
    IF conn[x] = "open" /\ \E k \in K : x \in W[k]
    THEN LET k == CHOOSE k \in K : x \in W[k]
         IN [of |-> k, users |-> {UserOf[y] : y \in W[k]} \ {UserOf[x]}]
    ELSE shown[x]]

(* The watchers once c has left its conversation and, for a k other than   *)
(* Nothing, joined k.  The mutant forgets to take c out of the old one if  *)
(* there is no new one.                                                    *)
StayingForNull(c, k) ==
  [x \in Watchable |->
    IF x = k THEN watchers[x] \cup {c} ELSE IF k = Nothing THEN watchers[x] ELSE watchers[x] \ {c}]

Moved(c, k) ==
  [x \in Watchable |-> IF x = k THEN watchers[x] \cup {c} ELSE watchers[x] \ {c}]

(* watch(c, k): nothing to do if c watches k already. *)
Watch(c, k) ==
  IF watching[c] = k THEN UNCHANGED hubVars
  ELSE /\ watchers' = Moved(c, k)
       /\ watching' = [watching EXCEPT ![c] = k]
       /\ Published(c, {watching[c], k} \ {Nothing}, watchers')
       /\ UNCHANGED clients

-----------------------------------------------------------------------------
(* The socket.                                                             *)

Connect(c) ==
  /\ conn[c] = "new"
  /\ conn' = [conn EXCEPT ![c] = "open"]
  /\ UNCHANGED <<authed, frames, asked, checks, hubVars, raced>>

(* A good token; a second auth frame changes nothing, a bad token closes   *)
(* the socket (Close).                                                     *)
Auth(c) ==
  /\ conn[c] = "open" /\ c \notin authed
  /\ authed' = authed \cup {c}
  /\ clients' = clients \cup {c}
  /\ UNCHANGED <<conn, frames, asked, checks, watching, watchers, shown, raced>>

(* A watch frame.  Null goes to the hub at once; a conversation goes to    *)
(* the ownership check first.                                              *)
WatchFrame(c, k) ==
  /\ conn[c] = "open" /\ c \in authed
  /\ frames[c] < MaxFrames
  /\ frames' = [frames EXCEPT ![c] = @ + 1]
  /\ asked' = [asked EXCEPT ![c] = k]
  /\ raced' = raced \cup ({c} \cap BeingChecked)
  /\ IF k = Nothing
     THEN Watch(c, Nothing) /\ UNCHANGED checks
     ELSE checks' = checks \cup {<<c, frames[c] + 1, k>>} /\ UNCHANGED hubVars
  /\ UNCHANGED <<conn, authed>>

(* thread?.tenantId === tenantId; the mutant lets only the first pass.     *)
AllowedOnce(c, k) == k \in Own[c] /\ watching[c] = Nothing

Allowed(c, k) == k \in Own[c]

(* The check answers.  Whether the socket is still open is not looked at. *)
CheckAnswered(c, n, k) ==
  /\ <<c, n, k>> \in checks
  /\ checks' = checks \ {<<c, n, k>>}
  /\ IF Allowed(c, k) THEN Watch(c, k) ELSE UNCHANGED hubVars
  /\ UNCHANGED <<conn, authed, frames, asked, raced>>

(* It throws: the socket is told, nothing else. *)
CheckThrows(c, n, k) ==
  /\ <<c, n, k>> \in checks
  /\ checks' = checks \ {<<c, n, k>>}
  /\ raced' = raced \cup {d \in {c} : conn[d] = "open"}
  /\ UNCHANGED <<conn, authed, frames, asked, hubVars>>

(* The socket closes, from either side: remove(client). *)
Close(c) ==
  /\ conn[c] = "open"
  /\ conn' = [conn EXCEPT ![c] = "closed"]
  /\ clients' = clients \ {c}
  /\ watchers' = Moved(c, Nothing)
  /\ watching' = [watching EXCEPT ![c] = Nothing]
  /\ Published(c, {watching[c]} \ {Nothing}, watchers')
  /\ raced' = (raced \ {c}) \cup ({c} \cap BeingChecked)
  /\ UNCHANGED <<authed, frames, asked, checks>>

PresenceNext ==
  \/ \E c \in Client : Connect(c) \/ Auth(c) \/ Close(c)
  \/ \E c \in Client, k \in Selection : WatchFrame(c, k)
  \/ \E c \in Client, n \in 1..MaxFrames, k \in Watchable :
       CheckAnswered(c, n, k) \/ CheckThrows(c, n, k)

PresenceSpec == PresenceInit /\ [][PresenceNext]_presenceVars

-----------------------------------------------------------------------------
(* Properties.                                                             *)

(* The hub's two views of who watches what agree: a client is in the index *)
(* of exactly the conversation it is pointed at, so no fan-out misses it   *)
(* and none reaches it twice.                                              *)
IndexAgrees ==
  \A c \in Client, k \in Watchable : c \in watchers[k] <=> watching[c] = k

(* "pass it and the conversation is this tenant's, which is what lets      *)
(* every later fan-out address a bare conversation id" (dashboard.ts):     *)
(* whoever is in a conversation's index belongs to its tenant.             *)
WatchersOwnIt == \A k \in Watchable : \A c \in watchers[k] : k \in Own[c]

(* Whatever order agents come, move and leave in, every open socket's last *)
(* viewer list is of the conversation it watches and names exactly the     *)
(* other agents the hub has there.                                         *)
ViewersUpToDate ==
  \A c \in Client :
    conn[c] = "open" /\ watching[c] # Nothing =>
      shown[c] = [of |-> watching[c],
                  users |-> {UserOf[x] : x \in watchers[watching[c]]} \ {UserOf[c]}]

(* "Every connected dashboard socket, indexed by what it needs to be found *)
(* by" (dashboard-hub.ts): the index of a conversation holds no socket     *)
(* that has closed - unless a check of its was in flight when it did.      *)
OnlyConnectedAreIndexed ==
  \A k \in Watchable : \A c \in watchers[k] : conn[c] = "open" \/ c \in raced

(* DashboardClient.watching is "the conversation this client has open"     *)
(* (dashboard-hub.ts): an agent who clicks from one of the tenant's        *)
(* conversations to another is pointed at the last one once its check has  *)
(* answered - as long as no frame of the socket came while an earlier one  *)
(* was being checked, and none of its checks threw.                        *)
WatchesLastAsked ==
  \A c \in Client :
    (/\ conn[c] = "open" /\ c \notin raced
     /\ c \notin BeingChecked
     /\ asked[c] \in Own[c] \cup {Nothing})
    => watching[c] = asked[c]
=============================================================================
