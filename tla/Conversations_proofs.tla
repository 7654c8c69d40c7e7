------------------------ MODULE Conversations_proofs ------------------------
(* Theorems about Conversations, for any number of callers, people, rows,  *)
(* messages and requests.                                                  *)
EXTENDS Conversations, MergeChains_proofs

Made == 1..made

-----------------------------------------------------------------------------
(* The rows: what is linked to, written in or held by a request was        *)
(* inserted, and what was deleted is named by no link and no message.      *)
RowsStand ==
  /\ \A k \in Conv : /\ k \notin Made => status[k] = "none"
                     /\ mergedInto[k] # Null => Exists(k) /\ Exists(mergedInto[k])
                     /\ latestSplit[k] # Null => latestSplit[k] \in Made
  /\ \A t \in Time : home[t] # Null => Exists(home[t])

(* The steps of each kind of request, and what it holds there.             *)
MergeSteps == {"extrasRead", "extrasWrite", "marks"}
TargetSteps == {"recheck", "move", "remaining", "stamps", "log"}
SplitSteps == TargetSteps \cup {"insert"}

Fits(c) ==
  LET r == req[c] IN
  /\ pc[c] \notin {"idle", "create"} => r.a \in Made
  /\ pc[c] = "create" => r.kind \in {"inbound", "own"}
  /\ pc[c] = "append" => r.kind \in {"inbound", "own", "session", "reply"} /\ owner[r.a] = r.person
  /\ pc[c] = "latest" => r.kind = "read"
  /\ pc[c] = "write" => r.kind \in {"status", "add", "remove", "read"}
  /\ pc[c] \in MergeSteps =>
       r.kind = "merge" /\ r.b \in Made /\ r.a # r.b /\ owner[r.a] = owner[r.b]
  /\ pc[c] \in SplitSteps =>
       r.kind = "split" /\ r.asked \in Made /\ r.chain \subseteq Made
       /\ \A k \in r.chain : owner[k] = owner[r.a]
  /\ pc[c] \in TargetSteps => r.b \in Made /\ owner[r.b] = owner[r.a]

RequestsFit == \A c \in Caller : Fits(c)

(* Requests in flight together have met.                                   *)
Overlap == \A c, d \in Busy : c # d => c \in met

-----------------------------------------------------------------------------
(* Chains end: until two merges are under way at once, the one that is has *)
(* two roots in hand, up to its link.                                      *)
Unlinked(c) ==
  pc[c] \in {"extrasRead", "extrasWrite"} \/ (pc[c] = "marks" /\ "source" \in req[c].left)

ChainsStand ==
  ~crossed =>
    /\ Acyclic(mergedInto)
    /\ \A c, d \in Of("merge") : c = d
    /\ \A c \in Caller : Unlinked(c) =>
         mergedInto[req[c].a] = Null /\ mergedInto[req[c].b] = Null

(* Threads are personal.                                                   *)
HomesPersonal == \A t \in Time : home[t] # Null => owner[home[t]] = sender[t]

LinksPersonal == \A k \in Conv : mergedInto[k] # Null => owner[mergedInto[k]] = owner[k]

OpenOnce ==
  \A j, k \in Conv \ excused :
    status[j] = "open" /\ status[k] = "open" /\ owner[j] = owner[k] => j = k

(* An inbound message that is alone inserts a row for somebody who has     *)
(* none open.                                                              *)
CreatesAlone ==
  \A c \in Caller \ met :
    pc[c] = "create" /\ req[c].kind = "inbound" => Candidates(req[c].person) = {}

-----------------------------------------------------------------------------
(* Every message is shown once: until a merge races, a row is listed as    *)
(* merged exactly when it is linked.                                       *)
Apart ==
  /\ crossed => raced
  /\ ~raced => \A c \in Of("merge"), d \in Of("merge") \cup Of("split") \cup Of("status") : c = d

ListedOnce ==
  ~raced =>
    /\ \A k \in Conv : Exists(k) => (status[k] = "merged" <=> mergedInto[k] # Null)
    /\ \A c \in Of("status") : mergedInto[req[c].a] = Null
    /\ \A c \in Of("split") : pc[c] = "recheck" => \A k \in Conv : mergedInto[k] # req[c].b

-----------------------------------------------------------------------------
(* A merge that is alone.                                                  *)
MergeAlone(c) ==
  LET r == req[c] IN
  /\ pc[c] \in {"extrasRead", "extrasWrite"} =>
       /\ r.at = Larger(lastAt[r.a], lastAt[r.b])
       /\ r.found = [read |-> IsRead(r.a) /\ IsRead(r.b), extras |-> extras[r.a] \cup extras[r.b]]
  /\ pc[c] = "extrasWrite" => r.extras = extras[r.a] /\ r.cursor = CursorOf(r.a, r.b)
  /\ pc[c] = "marks" =>
       /\ r.found.extras \subseteq extras[r.b]
       /\ r.found.read => readAt[r.b] >= r.at
       /\ r.left # {}
       /\ "target" \notin r.left => lastAt[r.b] = r.at

MergesAlone == \A c \in Caller \ met : pc[c] \in MergeSteps => MergeAlone(c)

(* A split that is alone.                                                  *)
SplitAlone(c) ==
  LET r == req[c] IN
  /\ mergedInto[r.a] = Null /\ r.a \in r.chain /\ r.msg \in Time
  /\ r.chain = Chain(r.a) \ (IF pc[c] = "insert" THEN {} ELSE {r.b})
  /\ pc[c] \in {"insert", "recheck", "move"} => home[r.msg] \in r.chain
  /\ pc[c] \in TargetSteps => r.b \notin Chain(r.a)
  /\ pc[c] \in {"insert", "recheck"} => Ends(r.asked) /\ Canonical(r.asked) = r.a
  /\ pc[c] \in {"recheck", "move"} => In({r.b}) = {}
  /\ pc[c] \in {"remaining", "stamps", "log"} =>
       /\ \A t \in In(r.chain) : t < r.msg
       /\ r.msg \in In({r.b}) /\ \A t \in In({r.b}) : t >= r.msg
       /\ r.at = Max(In({r.b}))
  /\ pc[c] \in {"stamps", "log"} => r.cursor = Newest(In(r.chain), 0)
  /\ (pc[c] = "stamps" /\ "source" \notin r.left) \/ pc[c] = "log" => lastAt[r.a] = r.cursor
  /\ (pc[c] = "stamps" /\ "target" \notin r.left) \/ pc[c] = "log" => lastAt[r.b] = r.at
  /\ pc[c] = "stamps" => r.left # {}

SplitsAlone == \A c \in Caller \ met : pc[c] \in SplitSteps => SplitAlone(c)

ThreadsInv ==
  /\ TypeOK /\ RowsStand /\ RequestsFit /\ Overlap
  /\ ChainsStand /\ HomesPersonal /\ LinksPersonal /\ OpenOnce /\ CreatesAlone
  /\ Apart /\ ListedOnce /\ MergesAlone /\ SplitsAlone

-----------------------------------------------------------------------------
(* Rows and times.                                                         *)
LEMMA RowsAre ==
  /\ Null \notin Conv /\ IsFiniteSet(Conv) /\ Null = 0 /\ 1 \in Conv /\ 2 \in Conv
  /\ \A k \in Conv : k \in Nat
BY BoundsAssumption, FS_Interval DEF Conv, Null

LEMMA MadeAre ==
  ASSUME TypeOK
  PROVE  /\ Made \subseteq Conv /\ made \in Nat /\ made + 1 \notin Made /\ Null \notin Made
         /\ made < MaxConvs => made + 1 \in Conv /\ made + 1 \in 2..MaxConvs
BY BoundsAssumption DEF TypeOK, Made, Conv, Null

LEMMA LinksOfConvs ==
  ASSUME TypeOK
  PROVE  Links(mergedInto) /\ DOMAIN mergedInto = Conv /\ Null = 0
BY RowsAre DEF TypeOK, Links

LEMMA CanonicalTyped ==
  ASSUME TypeOK, NEW k \in Conv
  PROVE  Canonical(k) \in Conv
BY LinksOfConvs, RootTyped DEF Canonical

LEMMA RootsResolve ==
  ASSUME TypeOK, NEW k \in Conv, mergedInto[k] = Null
  PROVE  Canonical(k) = k /\ Ends(k)
BY LinksOfConvs, RootOfRoot DEF Canonical, Ends

LEMMA EndsAre ==
  ASSUME TypeOK, NEW k \in Conv, Ends(k)
  PROVE  mergedInto[Canonical(k)] = Null
BY RowsAre DEF Ends, Ended, Canonical

(* A thread has one owner, and its links lead to rows that exist.          *)
LEMMA CanonicalOwner ==
  ASSUME TypeOK, LinksPersonal, NEW k \in Conv
  PROVE  owner[Canonical(k)] = owner[k]
<1> DEFINE S == {x \in Conv : owner[x] = owner[k]}
<1>1. Links(mergedInto) /\ DOMAIN mergedInto = Conv /\ Null = 0
  BY LinksOfConvs
<1>2. \A x \in S : mergedInto[x] # 0 => mergedInto[x] \in S
  BY <1>1 DEF LinksPersonal, TypeOK
<1>3. S \in SUBSET DOMAIN mergedInto /\ k \in S
  BY <1>1
<1> HIDE DEF S
<1>4. Root(mergedInto, k) \in S
  BY <1>1, <1>2, <1>3, RootStays
<1> QED BY <1>4 DEF S, Canonical

LEMMA CanonicalExists ==
  ASSUME TypeOK, RowsStand, NEW k \in Conv, Exists(k)
  PROVE  Exists(Canonical(k)) /\ Canonical(k) \in Made /\ k \in Made
<1> DEFINE S == {x \in Conv : Exists(x)}
<1>1. Links(mergedInto) /\ DOMAIN mergedInto = Conv /\ Null = 0
  BY LinksOfConvs
<1>2. \A x \in S : mergedInto[x] # 0 => mergedInto[x] \in S
  BY <1>1 DEF RowsStand, TypeOK
<1>3. S \in SUBSET DOMAIN mergedInto /\ k \in S
  BY <1>1
<1> HIDE DEF S
<1>4. Root(mergedInto, k) \in S
  BY <1>1, <1>2, <1>3, RootStays
<1> QED BY <1>4 DEF S, Canonical, Exists, RowsStand

LEMMA ChainIs ==
  ASSUME TypeOK, NEW k
  PROVE  Chain(k) = {j \in Made : Ends(j) /\ Canonical(j) = Canonical(k)} /\ Chain(k) \subseteq Conv
BY MadeAre DEF Chain, Made

(* The newest of some messages is one of them.                             *)
LEMMA MaxIs ==
  ASSUME NEW N \in Nat, NEW S \in SUBSET (0..N), S # {}
  PROVE  Max(S) \in S /\ \A y \in S : Max(S) >= y
<1> DEFINE T == {N - y : y \in S}
<1>1. T \in SUBSET Nat /\ T # {}
  OBVIOUS
<1>2. PICK x \in T : \A y \in T : ~(y < x)
  BY <1>1, Least
<1>3. PICK m \in S : x = N - m
  BY <1>2
<1>4. ASSUME NEW y \in S
      PROVE  m >= y
  <2>1. ~(N - y < N - m)
    BY <1>2, <1>3
  <2> QED BY <2>1
<1>5. \E z \in S : \A y \in S : z >= y
  BY <1>4
<1> QED BY <1>5 DEF Max

LEMMA NewestTyped ==
  ASSUME TypeOK, NEW S \in SUBSET Time, NEW e \in 0..MaxTime
  PROVE  Newest(S, e) \in 0..MaxTime
<1>1. Time \subseteq 0..MaxTime /\ MaxTime \in Nat
  BY BoundsAssumption DEF Time
<1>2. CASE S = {}
  BY <1>2 DEF Newest
<1>3. CASE S # {}
  BY <1>1, <1>3, MaxIs DEF Newest
<1> QED BY <1>2, <1>3

-----------------------------------------------------------------------------
(* Requests.                                                               *)
LEMMA NobodyAsks ==
  /\ AnyPerson \in Person
  /\ NoRequest \in Requests
<1>1. AnyPerson \in Person
  BY PersonAssumption DEF AnyPerson
<1>2. 0 \in 0..MaxTime
  BY BoundsAssumption
<1> QED BY <1>1, <1>2 DEF NoRequest, Requests, Kinds

LEMMA Fields ==
  ASSUME NEW r \in Requests
  PROVE  /\ r.kind \in Kinds \cup {"none"} /\ r.asked \in Conv \cup {Null}
         /\ r.a \in Conv \cup {Null} /\ r.b \in Conv \cup {Null} /\ r.person \in Person
         /\ r.msg \in Time \cup {Null} /\ r.chain \in SUBSET Conv /\ r.at \in 0..MaxTime
         /\ r.cursor \in 0..MaxTime /\ r.extras \in SUBSET Extra /\ r.set \in {"open", "resolved"}
         /\ r.left \in SUBSET {"source", "target"}
         /\ r.found \in [read: BOOLEAN, extras: SUBSET Extra]
BY DEF Requests

(* What two requests have in common.                                       *)
SameAsk(r, n) ==
  /\ n.kind = r.kind /\ n.asked = r.asked /\ n.person = r.person /\ n.msg = r.msg
  /\ n.chain = r.chain /\ n.set = r.set /\ n.found = r.found

LEMMA SetA ==
  ASSUME NEW r \in Requests, NEW x \in Conv
  PROVE  LET n == [r EXCEPT !.a = x] IN
         n \in Requests /\ SameAsk(r, n) /\ n.a = x /\ n.b = r.b /\ n.at = r.at
         /\ n.cursor = r.cursor /\ n.extras = r.extras /\ n.left = r.left
BY DEF Requests, SameAsk

LEMMA SetB ==
  ASSUME NEW r \in Requests, NEW x \in Conv
  PROVE  LET n == [r EXCEPT !.b = x] IN
         n \in Requests /\ SameAsk(r, n) /\ n.a = r.a /\ n.b = x /\ n.at = r.at
         /\ n.cursor = r.cursor /\ n.extras = r.extras /\ n.left = r.left
BY DEF Requests, SameAsk

LEMMA SetAt ==
  ASSUME NEW r \in Requests, NEW x \in 0..MaxTime
  PROVE  LET n == [r EXCEPT !.at = x] IN
         n \in Requests /\ SameAsk(r, n) /\ n.a = r.a /\ n.b = r.b /\ n.at = x
         /\ n.cursor = r.cursor /\ n.extras = r.extras /\ n.left = r.left
BY DEF Requests, SameAsk

LEMMA SetCursor ==
  ASSUME NEW r \in Requests, NEW x \in 0..MaxTime
  PROVE  LET n == [r EXCEPT !.cursor = x] IN
         n \in Requests /\ SameAsk(r, n) /\ n.a = r.a /\ n.b = r.b /\ n.at = r.at
         /\ n.cursor = x /\ n.extras = r.extras /\ n.left = r.left
BY DEF Requests, SameAsk

LEMMA SetLeft ==
  ASSUME NEW r \in Requests, NEW l \in SUBSET {"source", "target"}
  PROVE  LET n == [r EXCEPT !.left = l] IN
         n \in Requests /\ SameAsk(r, n) /\ n.a = r.a /\ n.b = r.b /\ n.at = r.at
         /\ n.cursor = r.cursor /\ n.extras = r.extras /\ n.left = l
BY DEF Requests, SameAsk

-----------------------------------------------------------------------------
(* How a request begins: with a conversation it has resolved.              *)
Asks(r, s) ==
  /\ r \in Requests
  /\ \/ /\ s = "append" /\ r.kind \in {"inbound", "session", "reply"}
        /\ r.a \in Made /\ owner[r.a] = r.person
     \/ /\ s = "create" /\ r.kind \in {"inbound", "own"}
        /\ r.kind = "inbound" => Candidates(r.person) = {}
     \/ /\ s = "latest" /\ r.kind = "read" /\ r.a \in Made
     \/ /\ s = "write" /\ r.kind \in {"status", "add", "remove"} /\ r.a \in Made
        /\ mergedInto[r.a] = Null
     \/ /\ s = "extrasRead" /\ r.kind = "merge" /\ r.a \in Made /\ r.b \in Made
        /\ r.a # r.b /\ owner[r.a] = owner[r.b] /\ mergedInto[r.a] = Null /\ mergedInto[r.b] = Null
        /\ r.at = Larger(lastAt[r.a], lastAt[r.b])
        /\ r.found = [read |-> IsRead(r.a) /\ IsRead(r.b), extras |-> extras[r.a] \cup extras[r.b]]
     \/ /\ s = "insert" /\ r.kind = "split" /\ r.a \in Made /\ r.asked \in Made
        /\ Ends(r.asked) /\ r.a = Canonical(r.asked) /\ r.chain = Chain(r.asked)
        /\ r.msg \in Time /\ home[r.msg] \in r.chain

Begun(c) ==
  /\ UNCHANGED <<rowVars, sideVars, msgVars, excused>>
  /\ \E r, s : /\ Start(c, r, s) /\ Asks(r, s)
               /\ r.kind # "merge" => crossed' = crossed
               /\ r.kind = "merge" => crossed' = (crossed \/ Of("merge") # {})

LEMMA KnownIs ==
  ASSUME TypeOK, RowsStand, LinksPersonal, NEW k \in Conv, Known(k)
  PROVE  /\ k \in Made /\ Canonical(k) \in Made /\ mergedInto[Canonical(k)] = Null
         /\ owner[Canonical(k)] = owner[k] /\ Exists(k) /\ Exists(Canonical(k))
BY CanonicalOwner, CanonicalExists, EndsAre DEF Known

LEMMA FollowIs ==
  ASSUME TypeOK, RowsStand, LinksPersonal, NEW k \in Conv, Known(k)
  PROVE  Follow(k) \in Made
<1>1. Canonical(k) \in Made /\ Canonical(k) \in Conv
  BY KnownIs, MadeAre
<1>2. ASSUME NEW t \in Conv, status[Canonical(t)] = "open"
      PROVE  Canonical(t) \in Made
  BY <1>2, CanonicalTyped DEF RowsStand
<1> QED BY <1>1, <1>2 DEF Follow, TypeOK

LEMMA BeginIsBegun ==
  ASSUME TypeOK, RowsStand, LinksPersonal, NEW c \in Caller, Begins(c)
  PROVE  Begun(c)
<1> USE MadeAre, NobodyAsks
<1>0. \A k \in Conv : Known(k) =>
         /\ k \in Made /\ Canonical(k) \in Made /\ mergedInto[Canonical(k)] = Null
         /\ owner[Canonical(k)] = owner[k] /\ Exists(k)
  BY KnownIs
<1>1. ASSUME NEW p \in Person, BeginInbound(c, p)
      PROVE  Begun(c)
  <2>3. UNCHANGED <<rowVars, sideVars, msgVars, crossed, excused>>
    BY <1>1, Zenon DEF BeginInbound
  <2> DEFINE r == [NoRequest EXCEPT !.kind = "inbound", !.person = p]
  <2>1. ASSUME NEW k \in Candidates(p), Start(c, [r EXCEPT !.a = k], "append")
        PROVE  Begun(c)
    <3>1. k \in Made /\ k \in Conv /\ owner[k] = p
      BY DEF Candidates, RowsStand
    <3>2. Asks([r EXCEPT !.a = k], "append") /\ [r EXCEPT !.a = k].kind # "merge"
      BY <3>1 DEF Asks, Requests, Kinds
    <3> HIDE DEF r
    <3> QED BY <2>1, <2>3, <3>2 DEF Begun
  <2>2. ASSUME Candidates(p) = {}, Start(c, r, "create")
        PROVE  Begun(c)
    <3>1. Asks(r, "create") /\ r.kind # "merge"
      BY <2>2 DEF Asks, Requests, Kinds
    <3> HIDE DEF r
    <3> QED BY <2>2, <2>3, <3>1 DEF Begun
  <2> QED BY <1>1, <2>1, <2>2, Zenon DEF BeginInbound
<1>2. ASSUME NEW p \in Person, BeginOwn(c, p)
      PROVE  Begun(c)
  <2> DEFINE r == [NoRequest EXCEPT !.kind = "own", !.person = p]
  <2>1. Asks(r, "create") /\ r.kind # "merge"
    BY DEF Asks, Requests, Kinds
  <2>2. Start(c, r, "create") /\ UNCHANGED <<rowVars, sideVars, msgVars, crossed, excused>>
    BY <1>2 DEF BeginOwn
  <2> HIDE DEF r
  <2> QED BY <2>1, <2>2 DEF Begun
<1>3. ASSUME NEW k \in Conv, BeginSession(c, k)
      PROVE  Begun(c)
  <2> DEFINE r == [NoRequest EXCEPT !.kind = "session", !.person = owner[Follow(k)], !.a = Follow(k)]
  <2>1. Follow(k) \in Made /\ owner[Follow(k)] \in Person
    BY <1>3, FollowIs DEF BeginSession, TypeOK
  <2>2. Asks(r, "append") /\ r.kind # "merge"
    BY <2>1 DEF Asks, Requests, Kinds
  <2>3. Start(c, r, "append") /\ UNCHANGED <<rowVars, sideVars, msgVars, crossed, excused>>
    BY <1>3 DEF BeginSession
  <2> HIDE DEF r
  <2> QED BY <2>2, <2>3 DEF Begun
<1>4. ASSUME NEW k, NEW p \in Person, NEW i \in Made, BeginReply(c, k, p, i), owner[i] = p
      PROVE  Begun(c)
  <2> DEFINE r == [NoRequest EXCEPT !.kind = "reply", !.person = p, !.a = i]
  <2>1. Asks(r, "append") /\ r.kind # "merge"
    BY <1>4 DEF Asks, Requests, Kinds
  <2>2. Start(c, r, "append") /\ UNCHANGED <<rowVars, sideVars, msgVars, crossed, excused>>
    BY <1>4 DEF BeginReply
  <2> HIDE DEF r
  <2> QED BY <2>1, <2>2 DEF Begun
<1>5. ASSUME NEW k \in Conv, AgentReply(c, k) \/ AdminReply(c, k)
                             \/ \E p \in Person : MemberReply(c, k, p)
      PROVE  Begun(c)
  <2>1. Known(k)
    <3>1. ASSUME NEW p, NEW i, BeginReply(c, k, p, i)
          PROVE  Known(k)
      BY <3>1 DEF BeginReply
    <3> QED BY <1>5, <3>1 DEF AgentReply, AdminReply, MemberReply
  <2>2. k \in Made /\ Canonical(k) \in Made /\ owner[Canonical(k)] = owner[k] /\ owner[k] \in Person
    BY <1>0, <2>1 DEF TypeOK
  <2>3. CASE AgentReply(c, k)
    BY <1>4, <2>2, <2>3 DEF AgentReply
  <2>4. CASE AdminReply(c, k)
    BY <1>4, <2>2, <2>4 DEF AdminReply, Scoped
  <2>5. ASSUME NEW p \in Person, MemberReply(c, k, p)
        PROVE  Begun(c)
    BY <1>4, <2>2, <2>5 DEF MemberReply, Owned
  <2> QED BY <1>5, <2>3, <2>4, <2>5
<1>6. ASSUME NEW kind \in {"status", "add", "remove", "read"}, NEW k \in Conv, NEW x \in SUBSET Extra,
             NEW s \in {"open", "resolved"}, BeginWrite(c, kind, k, x, s)
      PROVE  Begun(c)
  <2> DEFINE r == [NoRequest EXCEPT !.kind = kind, !.a = Scoped(k), !.extras = x, !.set = s]
             at == IF kind = "read" THEN "latest" ELSE "write"
  <2>1. Scoped(k) \in Made /\ mergedInto[Scoped(k)] = Null
    BY <1>0, <1>6 DEF BeginWrite, Scoped
  <2>2. r \in Requests /\ r.kind = kind /\ r.a = Scoped(k)
    <3> DEFINE i == Scoped(k)
    <3>1. i \in Conv /\ kind \in Kinds
      BY <2>1 DEF Kinds
    <3> HIDE DEF i
    <3>2. [NoRequest EXCEPT !.kind = kind, !.a = i, !.extras = x, !.set = s] \in Requests
      BY <3>1 DEF Requests
    <3>3. LET n == [NoRequest EXCEPT !.kind = kind, !.a = i, !.extras = x, !.set = s] IN
          n.kind = kind /\ n.a = i
      BY DEF NoRequest
    <3> QED BY <3>2, <3>3 DEF i
  <2>3. Start(c, r, at) /\ UNCHANGED <<rowVars, sideVars, msgVars, crossed, excused>>
    BY <1>6 DEF BeginWrite
  <2> HIDE DEF r
  <2>4. Asks(r, at) /\ r.kind # "merge"
    BY <2>1, <2>2 DEF Asks
  <2> HIDE DEF at
  <2> QED BY <2>3, <2>4 DEF Begun
<1>7. ASSUME NEW k \in Conv, NEW t \in Conv, AskMerge(c, k, t)
      PROVE  Begun(c)
  <2> DEFINE a == Canonical(k)
             b == Canonical(t)
             f == [read |-> IsRead(a) /\ IsRead(b), extras |-> extras[a] \cup extras[b]]
             r == [NoRequest EXCEPT !.kind = "merge", !.a = a, !.b = b,
                                    !.at = Larger(lastAt[a], lastAt[b]), !.found = f]
  <2>1. a \in Made /\ b \in Made /\ mergedInto[a] = Null /\ mergedInto[b] = Null
    BY <1>0, <1>7 DEF AskMerge
  <2>2. /\ a # b /\ owner[a] = owner[b] /\ Start(c, r, "extrasRead")
        /\ crossed' = (crossed \/ Of("merge") # {})
        /\ UNCHANGED <<rowVars, sideVars, msgVars, excused>>
    BY <1>7 DEF AskMerge, BeginMerge, TargetOf, Mergeable
  <2>3. f \in [read: BOOLEAN, extras: SUBSET Extra] /\ Larger(lastAt[a], lastAt[b]) \in 0..MaxTime
    BY <2>1 DEF TypeOK, Larger, IsRead
  <2> HIDE DEF f, a, b
  <2>4. /\ r \in Requests /\ r.kind = "merge" /\ r.a = a /\ r.b = b /\ r.found = f
        /\ r.at = Larger(lastAt[a], lastAt[b])
    BY <2>1, <2>3 DEF Requests, NoRequest, Kinds
  <2> HIDE DEF r
  <2>5. Asks(r, "extrasRead")
    BY <2>1, <2>2, <2>4 DEF Asks, f
  <2> QED BY <2>2, <2>4, <2>5 DEF Begun
<1>8. ASSUME NEW k \in Conv, NEW m \in Time, BeginSplit(c, k, m)
      PROVE  Begun(c)
  <2> DEFINE r == [NoRequest EXCEPT !.kind = "split", !.asked = k, !.a = Canonical(k),
                                    !.msg = m, !.chain = Chain(k)]
  <2>1. k \in Made /\ Canonical(k) \in Made /\ Ends(k) /\ home[m] \in Chain(k) /\ Chain(k) \subseteq Conv
    BY <1>0, <1>8, ChainIs DEF BeginSplit, Known
  <2>2. Start(c, r, "insert") /\ UNCHANGED <<rowVars, sideVars, msgVars, crossed, excused>>
    BY <1>8 DEF BeginSplit
  <2>3. /\ r \in Requests /\ r.kind = "split" /\ r.asked = k /\ r.a = Canonical(k)
        /\ r.msg = m /\ r.chain = Chain(k)
    BY <2>1 DEF Requests, NoRequest, Kinds
  <2> HIDE DEF r
  <2>4. Asks(r, "insert")
    BY <2>1, <2>3 DEF Asks
  <2> QED BY <2>2, <2>3, <2>4 DEF Begun
<1>9. ASSUME NEW k \in Conv,
             \/ \E s \in {"open", "resolved"} : ChangeStatus(c, k, s)
             \/ MarkRead(c, k)
             \/ \E x \in Extra :
                  \/ AddTag(c, k, x) \/ AddAssignee(c, k, x)
                  \/ AddParticipant(c, k, x) \/ AddPersonalTag(c, k, x)
                  \/ RemoveTag(c, k, x) \/ RemoveAssignee(c, k, x) \/ RemovePersonalTag(c, k, x)
      PROVE  Begun(c)
  <2>1. \E kind \in {"status", "add", "remove", "read"}, x \in SUBSET Extra, s \in {"open", "resolved"} :
           BeginWrite(c, kind, k, x, s)
    <3>1. ASSUME NEW s \in {"open", "resolved"}, ChangeStatus(c, k, s)
          PROVE  BeginWrite(c, "status", k, {}, s)
      BY <3>1 DEF ChangeStatus
    <3>2. MarkRead(c, k) => BeginWrite(c, "read", k, {}, "open")
      BY DEF MarkRead
    <3>3. ASSUME NEW x \in Extra
          PROVE  /\ AddTag(c, k, x) \/ AddAssignee(c, k, x) \/ AddParticipant(c, k, x)
                    \/ AddPersonalTag(c, k, x) => BeginWrite(c, "add", k, {x}, "open")
                 /\ RemoveTag(c, k, x) \/ RemoveAssignee(c, k, x) \/ RemovePersonalTag(c, k, x)
                    => BeginWrite(c, "remove", k, {x}, "open")
      BY DEF AddTag, AddAssignee, AddParticipant, AddPersonalTag, RemoveTag, RemoveAssignee, RemovePersonalTag
    <3>4. {} \in SUBSET Extra /\ \A x \in Extra : {x} \in SUBSET Extra
      OBVIOUS
    <3> QED BY <1>9, <3>1, <3>2, <3>3, <3>4
  <2> QED BY <1>6, <2>1
<1>10. ASSUME NEW m \in Time, TopicSplit(c, m) \/ \E k \in Conv : AdminSplit(c, k, m)
       PROVE  Begun(c)
  <2>1. CASE TopicSplit(c, m)
    BY <1>8, <2>1 DEF TopicSplit, TypeOK
  <2>2. ASSUME NEW k \in Conv, AdminSplit(c, k, m)
        PROVE  Begun(c)
    <3>1. Canonical(k) \in Conv
      BY CanonicalTyped
    <3> QED BY <1>8, <2>2, <3>1 DEF AdminSplit, Scoped
  <2> QED BY <1>10, <2>1, <2>2
<1> QED BY <1>1, <1>2, <1>3, <1>5, <1>7, <1>9, <1>10 DEF Begins

-----------------------------------------------------------------------------
(* A step of one request.                                                  *)
StepOf(c) ==
  \/ pc[c] = "idle" /\ calls < MaxCalls /\ Begins(c)
  \/ Create(c) \/ Append(c) \/ Latest(c) \/ Write(c)
  \/ ExtrasRead(c) \/ ExtrasWrite(c) \/ MarkTarget(c) \/ MarkSource(c)
  \/ InsertTarget(c) \/ Recheck(c) \/ Move(c) \/ Remaining(c) \/ Log(c)
  \/ \E x \in {"source", "target"} : Stamp(c, x)

(* Where a request goes, and that the others stay.                         *)
Goes(c, s, n) ==
  /\ pc' \in [Caller -> Steps] /\ req' \in [Caller -> Requests]
  /\ pc'[c] = s /\ req'[c] = n
  /\ \A d \in Caller \ {c} : pc'[d] = pc[d] /\ req'[d] = req[d]

LEMMA StartGoes ==
  ASSUME TypeOK, NEW c \in Caller, NEW r \in Requests, NEW s \in Steps, Start(c, r, s)
  PROVE  /\ Goes(c, s, r) /\ pc[c] = "idle" /\ calls < MaxCalls /\ calls' = calls + 1
         /\ met' = IF Busy = {} THEN {} ELSE met \cup Busy \cup {c}
         /\ raced' = (raced \/ Races(r.kind))
BY DEF Start, Goes, TypeOK

LEMMA StepGoes ==
  ASSUME TypeOK, NEW c \in Caller, NEW r \in Requests, NEW s \in Steps, Step(c, r, s)
  PROVE  Goes(c, s, r) /\ UNCHANGED <<met, raced, calls>>
BY DEF Step, Goes, TypeOK

LEMMA LeaveGoes ==
  ASSUME TypeOK, NEW c \in Caller, Leave(c)
  PROVE  Goes(c, "idle", NoRequest) /\ met' = met \ {c} /\ UNCHANGED <<raced, calls>>
BY NobodyAsks DEF Leave, Goes, TypeOK, Steps

LEMMA AsksSteps ==
  ASSUME NEW r, NEW s, Asks(r, s)
  PROVE  r \in Requests /\ s \in Steps
BY DEF Asks, Steps

LEMMA BegunGoes ==
  ASSUME TypeOK, NEW c \in Caller, Begun(c)
  PROVE  /\ pc[c] = "idle" /\ UNCHANGED <<rowVars, sideVars, msgVars, excused>>
         /\ Goes(c, pc'[c], req'[c]) /\ Asks(req'[c], pc'[c])
         /\ calls < MaxCalls /\ calls' = calls + 1
         /\ met' = IF Busy = {} THEN {} ELSE met \cup Busy \cup {c}
         /\ raced' = (raced \/ Races(req'[c].kind))
         /\ req'[c].kind # "merge" => crossed' = crossed
         /\ req'[c].kind = "merge" => crossed' = (crossed \/ Of("merge") # {})
<1>1. PICK r, s : /\ Start(c, r, s) /\ Asks(r, s)
                  /\ r.kind # "merge" => crossed' = crossed
                  /\ r.kind = "merge" => crossed' = (crossed \/ Of("merge") # {})
  BY DEF Begun
<1>2. r \in Requests /\ s \in Steps
  BY <1>1, AsksSteps
<1>3. /\ Goes(c, s, r) /\ pc[c] = "idle" /\ calls < MaxCalls /\ calls' = calls + 1
      /\ met' = IF Busy = {} THEN {} ELSE met \cup Busy \cup {c}
      /\ raced' = (raced \/ Races(r.kind))
  BY <1>1, <1>2, StartGoes
<1>4. pc'[c] = s /\ req'[c] = r
  BY <1>3 DEF Goes
<1> QED BY <1>1, <1>3, <1>4 DEF Begun

(* What a request keeps when it steps.                                     *)
LEMMA CreateGoes ==
  ASSUME TypeOK, NEW c \in Caller, Create(c)
  PROVE  /\ pc[c] = "create" /\ made < MaxConvs /\ InsertRow(req[c].person)
         /\ excused' = IF req[c].kind = "own" \/ c \in met THEN excused \cup {made + 1} ELSE excused
         /\ Goes(c, "append", req'[c]) /\ SameAsk(req[c], req'[c]) /\ req'[c].a = made + 1
         /\ UNCHANGED <<sideVars, msgVars, crossed, met, raced, calls>>
<1>1. made < MaxConvs /\ made + 1 \in Conv /\ req[c] \in Requests
  BY MadeAre DEF Create, InsertRow, TypeOK
<1> DEFINE n == [req[c] EXCEPT !.a = made + 1]
<1>2. n \in Requests /\ SameAsk(req[c], n) /\ n.a = made + 1
  BY <1>1, SetA
<1>3. Step(c, n, "append")
  BY DEF Create
<1> HIDE DEF n
<1>4. Goes(c, "append", n) /\ UNCHANGED <<met, raced, calls>>
  BY <1>2, <1>3, StepGoes DEF Steps
<1>5. req'[c] = n
  BY <1>4 DEF Goes
<1> QED BY <1>1, <1>2, <1>4, <1>5 DEF Create

LEMMA LatestGoes ==
  ASSUME TypeOK, NEW c \in Caller, Latest(c)
  PROVE  /\ pc[c] = "latest" /\ Goes(c, "write", req'[c]) /\ SameAsk(req[c], req'[c])
         /\ req'[c].a = req[c].a
         /\ UNCHANGED <<rowVars, sideVars, msgVars, crossed, excused, met, raced, calls>>
<1> DEFINE x == Newest(In(Chain(req[c].a)), now)
           n == [req[c] EXCEPT !.cursor = x]
<1>1. x \in 0..MaxTime /\ req[c] \in Requests
  BY NewestTyped DEF TypeOK, In
<1> HIDE DEF x
<1>2. n \in Requests /\ SameAsk(req[c], n) /\ n.a = req[c].a
  BY <1>1, SetCursor
<1>3. Step(c, n, "write")
  BY DEF Latest, x
<1> HIDE DEF n
<1>4. Goes(c, "write", n) /\ UNCHANGED <<met, raced, calls>>
  BY <1>2, <1>3, StepGoes DEF Steps
<1>5. req'[c] = n
  BY <1>4 DEF Goes
<1> QED BY <1>2, <1>4, <1>5 DEF Latest

LEMMA ExtrasReadGoes ==
  ASSUME TypeOK, NEW c \in Caller, Fits(c), ExtrasRead(c)
  PROVE  /\ pc[c] = "extrasRead" /\ Goes(c, "extrasWrite", req'[c]) /\ SameAsk(req[c], req'[c])
         /\ req'[c].a = req[c].a /\ req'[c].b = req[c].b /\ req'[c].at = req[c].at
         /\ req'[c].extras = extras[req[c].a] /\ req'[c].cursor = CursorOf(req[c].a, req[c].b)
         /\ UNCHANGED <<rowVars, sideVars, msgVars, crossed, excused, met, raced, calls>>
<1> DEFINE x == CursorOf(req[c].a, req[c].b)
           e == extras[req[c].a]
           n == [req[c] EXCEPT !.extras = e, !.cursor = x]
<1>1. req[c].a \in Conv /\ req[c].b \in Conv /\ req[c] \in Requests
  BY MadeAre DEF ExtrasRead, Fits, MergeSteps, TypeOK
<1>2. x \in 0..MaxTime /\ e \in SUBSET Extra
  BY <1>1 DEF TypeOK, CursorOf, Larger
<1> HIDE DEF x, e
<1>3. n \in Requests /\ SameAsk(req[c], n) /\ n.a = req[c].a /\ n.b = req[c].b /\ n.at = req[c].at
      /\ n.extras = e /\ n.cursor = x
  <2> DEFINE r == req[c]
  <2>1. r \in Requests
    BY <1>1
  <2> HIDE DEF r
  <2>2. LET m == [r EXCEPT !.extras = e, !.cursor = x] IN
        m \in Requests /\ SameAsk(r, m) /\ m.a = r.a /\ m.b = r.b /\ m.at = r.at
        /\ m.cursor = x /\ m.extras = e /\ m.left = r.left
    BY <1>2, <2>1 DEF Requests, SameAsk
  <2> QED BY <2>2, Zenon DEF r
<1>4. Step(c, n, "extrasWrite")
  BY DEF ExtrasRead, x, e
<1> HIDE DEF n
<1>5. Goes(c, "extrasWrite", n) /\ UNCHANGED <<met, raced, calls>>
  BY <1>3, <1>4, StepGoes DEF Steps
<1>6. req'[c] = n
  BY <1>5 DEF Goes
<1> QED BY <1>3, <1>5, <1>6 DEF ExtrasRead, x, e

LEMMA ExtrasWriteGoes ==
  ASSUME TypeOK, NEW c \in Caller, ExtrasWrite(c)
  PROVE  /\ pc[c] = "extrasWrite"
         /\ UNCHANGED <<rowVars, latestSplit, msgVars, crossed, excused, raced, calls>>
         /\ \/ /\ Goes(c, "marks", req'[c]) /\ SameAsk(req[c], req'[c]) /\ met' = met
               /\ req'[c].a = req[c].a /\ req'[c].b = req[c].b /\ req'[c].at = req[c].at
               /\ req'[c].left = {"source", "target"}
               /\ extras' = [extras EXCEPT ![req[c].b] = @ \cup req[c].extras, ![req[c].a] = {}]
               /\ readAt' = [readAt EXCEPT ![req[c].b] = IF req[c].cursor = Null THEN @ ELSE req[c].cursor,
                                           ![req[c].a] = Null]
            \/ Goes(c, "idle", NoRequest) /\ met' = met \ {c} /\ UNCHANGED <<extras, readAt>>
<1>0. req[c] \in Requests
  BY DEF TypeOK
<1>1. CASE Leave(c) /\ UNCHANGED <<extras, readAt>>
  BY <1>1, LeaveGoes DEF ExtrasWrite
<1>2. CASE /\ extras' = [extras EXCEPT ![req[c].b] = @ \cup req[c].extras, ![req[c].a] = {}]
           /\ readAt' = [readAt EXCEPT ![req[c].b] = IF req[c].cursor = Null THEN @ ELSE req[c].cursor,
                                           ![req[c].a] = Null]
           /\ Step(c, [req[c] EXCEPT !.left = {"source", "target"}], "marks")
  <2> DEFINE n == [req[c] EXCEPT !.left = {"source", "target"}]
  <2>1. n \in Requests /\ SameAsk(req[c], n) /\ n.a = req[c].a /\ n.b = req[c].b /\ n.at = req[c].at
        /\ n.left = {"source", "target"}
    BY <1>0, SetLeft
  <2>2. Step(c, n, "marks")
    BY <1>2
  <2> HIDE DEF n
  <2>3. Goes(c, "marks", n) /\ UNCHANGED <<met, raced, calls>>
    BY <2>1, <2>2, StepGoes DEF Steps
  <2>4. req'[c] = n
    BY <2>3 DEF Goes
  <2> QED BY <1>2, <2>1, <2>3, <2>4 DEF ExtrasWrite
<1> QED BY <1>1, <1>2, Zenon DEF ExtrasWrite

LEMMA DoneGoes ==
  ASSUME TypeOK, NEW c \in Caller, NEW x \in {"source", "target"}, NEW s \in {"idle", "log"},
         x \in req[c].left, Done(c, x, s)
  PROVE  /\ UNCHANGED <<raced, calls>>
         /\ \/ req[c].left = {x} /\ s = "idle" /\ Goes(c, "idle", NoRequest) /\ met' = met \ {c}
            \/ req[c].left = {x} /\ s = "log" /\ Goes(c, "log", req[c]) /\ met' = met
            \/ /\ Goes(c, pc[c], req'[c]) /\ SameAsk(req[c], req'[c]) /\ met' = met
               /\ req'[c].a = req[c].a /\ req'[c].b = req[c].b /\ req'[c].at = req[c].at
               /\ req'[c].cursor = req[c].cursor
               /\ req'[c].left = req[c].left \ {x} /\ req'[c].left # {}
<1>0. req[c] \in Requests /\ req[c].left \in SUBSET {"source", "target"} /\ pc[c] \in Steps
  BY Fields DEF TypeOK
<1>1. CASE req[c].left = {x} /\ s = "idle"
  BY <1>1, LeaveGoes DEF Done
<1>2. CASE req[c].left = {x} /\ s = "log"
  BY <1>0, <1>2, StepGoes DEF Done, Steps
<1>3. CASE req[c].left # {x}
  <2> DEFINE n == [req[c] EXCEPT !.left = req[c].left \ {x}]
  <2>1. n \in Requests /\ SameAsk(req[c], n) /\ n.a = req[c].a /\ n.b = req[c].b /\ n.at = req[c].at
        /\ n.cursor = req[c].cursor /\ n.left = req[c].left \ {x}
    BY <1>0, SetLeft
  <2>2. Step(c, n, pc[c])
    BY <1>3 DEF Done
  <2> HIDE DEF n
  <2>3. Goes(c, pc[c], n) /\ UNCHANGED <<met, raced, calls>>
    BY <1>0, <2>1, <2>2, StepGoes
  <2>4. req'[c] = n
    BY <2>3 DEF Goes
  <2>5. req[c].left \ {x} # {}
    BY <1>3
  <2> QED BY <2>1, <2>3, <2>4, <2>5
<1> QED BY <1>1, <1>2, <1>3

LEMMA InsertTargetGoes ==
  ASSUME TypeOK, NEW c \in Caller, InsertTarget(c)
  PROVE  /\ pc[c] = "insert" /\ made < MaxConvs /\ InsertRow(owner[req[c].a])
         /\ excused' = excused \cup {made + 1}
         /\ Goes(c, "recheck", req'[c]) /\ SameAsk(req[c], req'[c])
         /\ req'[c].a = req[c].a /\ req'[c].b = made + 1
         /\ UNCHANGED <<sideVars, msgVars, crossed, met, raced, calls>>
<1>1. made < MaxConvs /\ made + 1 \in Conv /\ req[c] \in Requests
  BY MadeAre DEF InsertTarget, InsertRow, TypeOK
<1> DEFINE n == [req[c] EXCEPT !.b = made + 1]
<1>2. n \in Requests /\ SameAsk(req[c], n) /\ n.a = req[c].a /\ n.b = made + 1
  BY <1>1, SetB
<1>3. Step(c, n, "recheck")
  BY DEF InsertTarget
<1> HIDE DEF n
<1>4. Goes(c, "recheck", n) /\ UNCHANGED <<met, raced, calls>>
  BY <1>2, <1>3, StepGoes DEF Steps
<1>5. req'[c] = n
  BY <1>4 DEF Goes
<1> QED BY <1>1, <1>2, <1>4, <1>5 DEF InsertTarget

LEMMA MoveGoes ==
  ASSUME TypeOK, NEW c \in Caller, Move(c)
  PROVE  /\ pc[c] = "move" /\ Exists(req[c].b)
         /\ home' = [t \in Time |-> IF t \in Moved(c) THEN req[c].b ELSE home[t]]
         /\ Goes(c, "remaining", req'[c]) /\ SameAsk(req[c], req'[c])
         /\ req'[c].a = req[c].a /\ req'[c].b = req[c].b /\ req'[c].at = Max(Moved(c) \cup {req[c].msg})
         /\ UNCHANGED <<rowVars, sideVars, now, sender, crossed, excused, met, raced, calls>>
<1> DEFINE x == Max(Moved(c) \cup {req[c].msg})
           n == [req[c] EXCEPT !.at = x]
<1>1. req[c] \in Requests /\ req[c].msg \in Time \cup {Null} /\ MaxTime \in Nat
  BY Fields, BoundsAssumption DEF TypeOK
<1>2. Moved(c) \cup {req[c].msg} \in SUBSET (0..MaxTime)
  BY <1>1 DEF Moved, In, Time, Null
<1>3. x \in 0..MaxTime
  BY <1>1, <1>2, MaxIs
<1> HIDE DEF x
<1>4. n \in Requests /\ SameAsk(req[c], n) /\ n.a = req[c].a /\ n.b = req[c].b /\ n.at = x
  BY <1>1, <1>3, SetAt
<1>5. Step(c, n, "remaining")
  BY DEF Move, x
<1> HIDE DEF n
<1>6. Goes(c, "remaining", n) /\ UNCHANGED <<met, raced, calls>>
  BY <1>4, <1>5, StepGoes DEF Steps
<1>7. req'[c] = n
  BY <1>6 DEF Goes
<1> QED BY <1>4, <1>6, <1>7 DEF Move, x

LEMMA RemainingGoes ==
  ASSUME TypeOK, NEW c \in Caller, Remaining(c)
  PROVE  /\ pc[c] = "remaining" /\ Goes(c, "stamps", req'[c]) /\ SameAsk(req[c], req'[c])
         /\ req'[c].a = req[c].a /\ req'[c].b = req[c].b /\ req'[c].at = req[c].at
         /\ req'[c].cursor = Newest(In(req[c].chain), 0) /\ req'[c].left = {"source", "target"}
         /\ UNCHANGED <<rowVars, sideVars, msgVars, crossed, excused, met, raced, calls>>
<1> DEFINE x == Newest(In(req[c].chain), 0)
           n == [req[c] EXCEPT !.cursor = x, !.left = {"source", "target"}]
<1>1. x \in 0..MaxTime /\ req[c] \in Requests
  BY NewestTyped, BoundsAssumption DEF TypeOK, In
<1> HIDE DEF x
<1>2. n \in Requests /\ SameAsk(req[c], n) /\ n.a = req[c].a /\ n.b = req[c].b /\ n.at = req[c].at
      /\ n.cursor = x /\ n.left = {"source", "target"}
  <2> DEFINE r == req[c]
             l == {"source", "target"}
  <2>1. r \in Requests /\ l \in SUBSET {"source", "target"}
    BY <1>1
  <2> HIDE DEF r, l
  <2>2. LET m == [r EXCEPT !.cursor = x, !.left = l] IN
        m \in Requests /\ SameAsk(r, m) /\ m.a = r.a /\ m.b = r.b /\ m.at = r.at
        /\ m.cursor = x /\ m.extras = r.extras /\ m.left = l
    BY <1>1, <2>1 DEF Requests, SameAsk
  <2> QED BY <2>2, Zenon DEF r, l
<1>3. Step(c, n, "stamps")
  BY DEF Remaining, x
<1> HIDE DEF n
<1>4. Goes(c, "stamps", n) /\ UNCHANGED <<met, raced, calls>>
  BY <1>2, <1>3, StepGoes DEF Steps
<1>5. req'[c] = n
  BY <1>4 DEF Goes
<1> QED BY <1>2, <1>4, <1>5 DEF Remaining, x

LEMMA AppendGoes ==
  ASSUME TypeOK, NEW c \in Caller, Append(c)
  PROVE  /\ pc[c] = "append"
         /\ UNCHANGED <<status, owner, mergedInto, made, sideVars, crossed, excused, raced, calls>>
         /\ \/ Goes(c, "append", req[c]) /\ met' = met
            \/ Goes(c, "idle", NoRequest) /\ met' = met \ {c}
         /\ \/ /\ Exists(req[c].a) /\ now < MaxTime /\ now' = now + 1
               /\ home' = [home EXCEPT ![now + 1] = req[c].a]
               /\ sender' = [sender EXCEPT ![now + 1] = req[c].person]
               /\ lastAt' = [lastAt EXCEPT ![req[c].a] = now + 1]
            \/ UNCHANGED <<msgVars, lastAt>>
<1>1. Leave(c) => Goes(c, "idle", NoRequest) /\ met' = met \ {c} /\ UNCHANGED <<raced, calls>>
  BY LeaveGoes
<1>2. Step(c, req[c], "append") => Goes(c, "append", req[c]) /\ UNCHANGED <<met, raced, calls>>
  BY StepGoes DEF TypeOK, Steps
<1> QED BY <1>1, <1>2 DEF Append

LEMMA WriteGoes ==
  ASSUME TypeOK, NEW c \in Caller, Write(c)
  PROVE  /\ pc[c] = "write" /\ Goes(c, "idle", NoRequest) /\ met' = met \ {c}
         /\ UNCHANGED <<owner, mergedInto, lastAt, made, latestSplit, msgVars, crossed, raced, calls>>
         /\ \/ Exists(req[c].a) /\ WriteStatus(c)
            \/ Exists(req[c].a) /\ WriteAdded(c)
            \/ Exists(req[c].a) /\ WriteRemoved(c)
            \/ Exists(req[c].a) /\ WriteRead(c)
            \/ UNCHANGED <<status, extras, readAt, excused>>
BY LeaveGoes DEF Write

LEMMA MarkTargetGoes ==
  ASSUME TypeOK, NEW c \in Caller, MarkTarget(c)
  PROVE  /\ pc[c] = "marks" /\ "target" \in req[c].left
         /\ lastAt' = [lastAt EXCEPT ![req[c].b] = req[c].at]
         /\ UNCHANGED <<status, owner, mergedInto, made, sideVars, msgVars, crossed, excused, raced, calls>>
         /\ \/ req[c].left = {"target"} /\ Goes(c, "idle", NoRequest) /\ met' = met \ {c}
            \/ /\ Goes(c, "marks", req'[c]) /\ SameAsk(req[c], req'[c]) /\ met' = met
               /\ req'[c].a = req[c].a /\ req'[c].b = req[c].b /\ req'[c].at = req[c].at
               /\ req'[c].left = req[c].left \ {"target"} /\ req'[c].left # {}
<1>1. "target" \in req[c].left /\ Done(c, "target", "idle") /\ pc[c] = "marks"
  BY DEF MarkTarget
<1>2. /\ UNCHANGED <<raced, calls>>
      /\ \/ req[c].left = {"target"} /\ Goes(c, "idle", NoRequest) /\ met' = met \ {c}
         \/ /\ Goes(c, pc[c], req'[c]) /\ SameAsk(req[c], req'[c]) /\ met' = met
            /\ req'[c].a = req[c].a /\ req'[c].b = req[c].b /\ req'[c].at = req[c].at
            /\ req'[c].left = req[c].left \ {"target"} /\ req'[c].left # {}
  BY <1>1, DoneGoes
<1> QED BY <1>1, <1>2 DEF MarkTarget

LEMMA MarkSourceGoes ==
  ASSUME TypeOK, NEW c \in Caller, MarkSource(c)
  PROVE  /\ pc[c] = "marks" /\ "source" \in req[c].left
         /\ UNCHANGED <<owner, lastAt, made, sideVars, msgVars, crossed, excused, raced, calls>>
         /\ \/ /\ Exists(req[c].a) /\ Exists(req[c].b)
               /\ status' = [status EXCEPT ![req[c].a] = "merged"]
               /\ mergedInto' = [mergedInto EXCEPT ![req[c].a] = req[c].b]
            \/ UNCHANGED <<status, mergedInto>>
         /\ \/ req[c].left = {"source"} /\ Goes(c, "idle", NoRequest) /\ met' = met \ {c}
            \/ /\ Goes(c, "marks", req'[c]) /\ SameAsk(req[c], req'[c]) /\ met' = met
               /\ req'[c].a = req[c].a /\ req'[c].b = req[c].b /\ req'[c].at = req[c].at
               /\ req'[c].left = req[c].left \ {"source"} /\ req'[c].left # {}
<1>1. "source" \in req[c].left /\ Done(c, "source", "idle") /\ pc[c] = "marks"
  BY DEF MarkSource
<1>2. /\ UNCHANGED <<raced, calls>>
      /\ \/ req[c].left = {"source"} /\ Goes(c, "idle", NoRequest) /\ met' = met \ {c}
         \/ /\ Goes(c, pc[c], req'[c]) /\ SameAsk(req[c], req'[c]) /\ met' = met
            /\ req'[c].a = req[c].a /\ req'[c].b = req[c].b /\ req'[c].at = req[c].at
            /\ req'[c].left = req[c].left \ {"source"} /\ req'[c].left # {}
  BY <1>1, DoneGoes
<1> QED BY <1>1, <1>2 DEF MarkSource

LEMMA StampGoes ==
  ASSUME TypeOK, NEW c \in Caller, NEW x \in {"source", "target"}, Stamp(c, x)
  PROVE  /\ pc[c] = "stamps" /\ x \in req[c].left
         /\ lastAt' = IF x = "source" THEN [lastAt EXCEPT ![req[c].a] = req[c].cursor]
                      ELSE [lastAt EXCEPT ![req[c].b] = req[c].at]
         /\ UNCHANGED <<status, owner, mergedInto, made, sideVars, msgVars, crossed, excused, met, raced, calls>>
         /\ \/ req[c].left = {x} /\ Goes(c, "log", req[c])
            \/ /\ Goes(c, "stamps", req'[c]) /\ SameAsk(req[c], req'[c])
               /\ req'[c].a = req[c].a /\ req'[c].b = req[c].b /\ req'[c].at = req[c].at
               /\ req'[c].cursor = req[c].cursor
               /\ req'[c].left = req[c].left \ {x} /\ req'[c].left # {}
<1>1. x \in req[c].left /\ Done(c, x, "log") /\ pc[c] = "stamps"
  BY DEF Stamp
<1>2. /\ UNCHANGED <<raced, calls, met>>
      /\ \/ req[c].left = {x} /\ Goes(c, "log", req[c])
         \/ /\ Goes(c, pc[c], req'[c]) /\ SameAsk(req[c], req'[c])
            /\ req'[c].a = req[c].a /\ req'[c].b = req[c].b /\ req'[c].at = req[c].at
            /\ req'[c].cursor = req[c].cursor
            /\ req'[c].left = req[c].left \ {x} /\ req'[c].left # {}
  BY <1>1, DoneGoes
<1> QED BY <1>1, <1>2 DEF Stamp

(* Recheck goes on, or takes the new conversation back.                    *)
TakesBack(c) ==
  LET b == req[c].b IN
  /\ Canonical(req[c].asked) # req[c].a
  /\ status' = [status EXCEPT ![b] = "none"]
  /\ mergedInto' = [k \in Conv |-> IF mergedInto[k] = b \/ k = b THEN Null ELSE mergedInto[k]]
  /\ home' = [t \in Time |-> IF home[t] = b THEN Null ELSE home[t]]
  /\ extras' = [extras EXCEPT ![b] = {}]
  /\ readAt' = [readAt EXCEPT ![b] = Null]
  /\ UNCHANGED <<owner, lastAt, made, latestSplit>>
  /\ Goes(c, "idle", NoRequest) /\ met' = met \ {c}

LEMMA RecheckGoes ==
  ASSUME TypeOK, NEW c \in Caller, Recheck(c)
  PROVE  /\ pc[c] = "recheck" /\ Ends(req[c].asked)
         /\ UNCHANGED <<now, sender, crossed, excused, raced, calls>>
         /\ \/ /\ Canonical(req[c].asked) = req[c].a /\ Goes(c, "move", req[c]) /\ met' = met
               /\ UNCHANGED <<rowVars, sideVars, home>>
            \/ TakesBack(c)
<1>1. Leave(c) => Goes(c, "idle", NoRequest) /\ met' = met \ {c} /\ UNCHANGED <<raced, calls>>
  BY LeaveGoes
<1>2. Step(c, req[c], "move") => Goes(c, "move", req[c]) /\ UNCHANGED <<met, raced, calls>>
  BY StepGoes DEF TypeOK, Steps
<1> QED BY <1>1, <1>2 DEF Recheck, TakesBack

LEMMA LogGoes ==
  ASSUME TypeOK, NEW c \in Caller, Log(c)
  PROVE  /\ pc[c] = "log" /\ Goes(c, "idle", NoRequest) /\ met' = met \ {c}
         /\ latestSplit' = [latestSplit EXCEPT ![req[c].a] = req[c].b]
         /\ UNCHANGED <<rowVars, extras, readAt, msgVars, crossed, excused, raced, calls>>
BY LeaveGoes DEF Log

-----------------------------------------------------------------------------
(* What every step of a request has in common.                             *)
LEMMA Flow ==
  ASSUME TypeOK, RowsStand, LinksPersonal, RequestsFit, NEW c \in Caller, StepOf(c)
  PROVE  /\ Goes(c, pc'[c], req'[c])
         /\ \/ Begun(c)
            \/ /\ pc[c] # "idle" /\ UNCHANGED <<raced, calls, crossed>>
               /\ met' = met \/ (met' = met \ {c} /\ pc'[c] = "idle")
               /\ pc'[c] = "idle" \/ SameAsk(req[c], req'[c])
<1> DEFINE Goal == /\ Goes(c, pc'[c], req'[c])
                   /\ \/ Begun(c)
                      \/ /\ pc[c] # "idle" /\ UNCHANGED <<raced, calls, crossed>>
                         /\ met' = met \/ (met' = met \ {c} /\ pc'[c] = "idle")
                         /\ pc'[c] = "idle" \/ SameAsk(req[c], req'[c])
<1>1. ASSUME NEW s, NEW n, Goes(c, s, n)
      PROVE  Goes(c, pc'[c], req'[c]) /\ pc'[c] = s /\ req'[c] = n
  BY <1>1 DEF Goes
<1>2. SameAsk(req[c], req[c]) /\ Fits(c)
  BY DEF SameAsk, RequestsFit
<1>3. CASE Begins(c)
  BY <1>3, BeginIsBegun, BegunGoes
<1>4. CASE Create(c)
  BY <1>1, <1>4, CreateGoes
<1>5. CASE Append(c)
  BY <1>1, <1>2, <1>5, AppendGoes
<1>6. CASE Latest(c)
  BY <1>1, <1>6, LatestGoes
<1>7. CASE Write(c)
  BY <1>1, <1>7, WriteGoes
<1>8. CASE ExtrasRead(c)
  BY <1>1, <1>2, <1>8, ExtrasReadGoes
<1>9. CASE ExtrasWrite(c)
  BY <1>1, <1>9, ExtrasWriteGoes
<1>10. CASE MarkTarget(c)
  BY <1>1, <1>10, MarkTargetGoes
<1>11. CASE MarkSource(c)
  BY <1>1, <1>11, MarkSourceGoes
<1>12. CASE InsertTarget(c)
  BY <1>1, <1>12, InsertTargetGoes
<1>13. CASE Recheck(c)
  BY <1>1, <1>2, <1>13, RecheckGoes DEF TakesBack
<1>14. CASE Move(c)
  BY <1>1, <1>14, MoveGoes
<1>15. CASE Remaining(c)
  BY <1>1, <1>15, RemainingGoes
<1>16. CASE Log(c)
  BY <1>1, <1>16, LogGoes
<1>17. ASSUME NEW x \in {"source", "target"}, Stamp(c, x)
       PROVE  Goal
  BY <1>1, <1>2, <1>17, StampGoes
<1> QED BY <1>3, <1>4, <1>5, <1>6, <1>7, <1>8, <1>9, <1>10, <1>11, <1>12, <1>13, <1>14, <1>15,
           <1>16, <1>17 DEF StepOf

-----------------------------------------------------------------------------
(* Types.                                                                  *)
TableTypes ==
  /\ status \in [Conv -> {"none", "open", "resolved", "merged"}]
  /\ owner \in [Conv -> Person]
  /\ mergedInto \in [Conv -> Conv \cup {Null}]
  /\ lastAt \in [Conv -> 0..MaxTime]
  /\ made \in 2..MaxConvs

SideTypes ==
  /\ extras \in [Conv -> SUBSET Extra]
  /\ readAt \in [Conv -> 0..MaxTime]
  /\ latestSplit \in [Conv -> Conv \cup {Null}]
  /\ home \in [Time -> Conv \cup {Null}]
  /\ now \in 0..MaxTime
  /\ sender \in [Time -> Person]
  /\ excused \in SUBSET Conv

AskTypes ==
  /\ pc \in [Caller -> Steps]
  /\ req \in [Caller -> Requests]
  /\ met \in SUBSET Caller
  /\ crossed \in BOOLEAN
  /\ raced \in BOOLEAN
  /\ calls \in 0..MaxCalls

LEMMA TypesSplit == TypeOK <=> TableTypes /\ SideTypes /\ AskTypes
BY DEF TypeOK, TableTypes, SideTypes, AskTypes

LEMMA AskTypesKept ==
  ASSUME TypeOK, RowsStand, LinksPersonal, RequestsFit, NEW c \in Caller, StepOf(c)
  PROVE  AskTypes'
<1>1. pc' \in [Caller -> Steps] /\ req' \in [Caller -> Requests]
  BY Flow DEF Goes
<1>2. CASE Begun(c)
  <2>1. /\ calls < MaxCalls /\ calls' = calls + 1
        /\ met' = IF Busy = {} THEN {} ELSE met \cup Busy \cup {c}
        /\ raced' = (raced \/ Races(req'[c].kind))
        /\ crossed' = crossed \/ crossed' = (crossed \/ Of("merge") # {})
    BY <1>2, BegunGoes
  <2>2. calls' \in 0..MaxCalls
    BY <2>1, BoundsAssumption DEF TypeOK
  <2>3. met' \in SUBSET Caller
    BY <2>1 DEF TypeOK, Busy
  <2>4. raced' \in BOOLEAN /\ crossed' \in BOOLEAN
    BY <2>1 DEF TypeOK
  <2> QED BY <1>1, <2>2, <2>3, <2>4 DEF AskTypes
<1>3. CASE UNCHANGED <<raced, calls, crossed>> /\ (met' = met \/ met' = met \ {c})
  BY <1>1, <1>3 DEF TypeOK, AskTypes
<1> QED BY <1>2, <1>3, Flow

LEMMA DataTypesKept ==
  ASSUME TypeOK, RowsStand, LinksPersonal, RequestsFit, NEW c \in Caller, StepOf(c)
  PROVE  TableTypes' /\ SideTypes'
<1> USE DEF rowVars, sideVars, msgVars
<1>0. TableTypes /\ SideTypes /\ Fits(c) /\ req[c] \in Requests /\ Made \subseteq Conv
  BY TypesSplit, MadeAre DEF RequestsFit, TypeOK
<1>1. CASE UNCHANGED <<rowVars, sideVars, msgVars, excused>>
  BY <1>0, <1>1 DEF TableTypes, SideTypes
<1>2. ASSUME NEW p \in Person, InsertRow(p), excused' \in {excused, excused \cup {made + 1}},
             UNCHANGED <<sideVars, msgVars>>
      PROVE  TableTypes' /\ SideTypes'
  <2>1. made + 1 \in Conv /\ made + 1 \in 2..MaxConvs
    BY <1>2, MadeAre DEF InsertRow
  <2> QED BY <1>0, <1>2, <2>1 DEF InsertRow, TableTypes, SideTypes
<1>3. CASE Begins(c)
  BY <1>1, <1>3, BeginIsBegun, BegunGoes
<1>4. CASE Create(c)
  BY <1>0, <1>2, <1>4, CreateGoes, Fields
<1>5. CASE Append(c)
  <2>1. req[c].a \in Conv /\ req[c].person \in Person
    BY <1>0, <1>5, Fields DEF Append, Fits
  <2>2. now < MaxTime => now + 1 \in Time /\ now + 1 \in 0..MaxTime
    BY <1>0, BoundsAssumption DEF SideTypes, Time
  <2> QED BY <1>0, <1>5, <2>1, <2>2, AppendGoes DEF TableTypes, SideTypes
<1>6. CASE Latest(c)
  BY <1>1, <1>6, LatestGoes
<1>7. CASE Write(c)
  <2>1. req[c].a \in Conv
    BY <1>0, <1>7 DEF Write, Fits
  <2>2. UNCHANGED <<owner, mergedInto, lastAt, made, latestSplit, msgVars>>
    BY <1>7, WriteGoes
  <2>3. /\ req[c].cursor \in 0..MaxTime /\ req[c].extras \in SUBSET Extra /\ req[c].set \in {"open", "resolved"}
    BY <1>0, Fields
  <2>4. CASE WriteStatus(c)
    BY <1>0, <2>1, <2>2, <2>3, <2>4 DEF WriteStatus, TableTypes, SideTypes
  <2>5. CASE WriteAdded(c) \/ WriteRemoved(c)
    BY <1>0, <2>1, <2>2, <2>3, <2>5 DEF WriteAdded, WriteRemoved, TableTypes, SideTypes
  <2>6. CASE WriteRead(c)
    BY <1>0, <2>1, <2>2, <2>3, <2>6 DEF WriteRead, TableTypes, SideTypes
  <2>7. CASE UNCHANGED <<status, extras, readAt, excused>>
    BY <1>0, <2>2, <2>7 DEF TableTypes, SideTypes
  <2> QED BY <1>7, <2>4, <2>5, <2>6, <2>7, WriteGoes
<1>8. CASE ExtrasRead(c)
  BY <1>0, <1>1, <1>8, ExtrasReadGoes
<1>9. CASE ExtrasWrite(c)
  <2>1. /\ req[c].a \in Conv /\ req[c].b \in Conv /\ req[c].cursor \in 0..MaxTime
        /\ req[c].extras \in SUBSET Extra
    BY <1>0, <1>9, Fields DEF ExtrasWrite, Fits, MergeSteps
  <2>2. 0 \in 0..MaxTime /\ Null = 0
    BY BoundsAssumption DEF Null
  <2>3. \/ UNCHANGED <<extras, readAt>>
        \/ /\ extras' = [extras EXCEPT ![req[c].b] = @ \cup req[c].extras, ![req[c].a] = {}]
           /\ readAt' = [readAt EXCEPT ![req[c].b] = IF req[c].cursor = Null THEN @ ELSE req[c].cursor,
                                           ![req[c].a] = Null]
    BY <1>9, ExtrasWriteGoes
  <2>4. UNCHANGED <<rowVars, latestSplit, msgVars, excused>>
    BY <1>9, ExtrasWriteGoes
  <2>5. extras' \in [Conv -> SUBSET Extra] /\ readAt' \in [Conv -> 0..MaxTime]
    BY <1>0, <2>1, <2>2, <2>3 DEF SideTypes
  <2> QED BY <1>0, <2>4, <2>5 DEF TableTypes, SideTypes
<1>10. CASE MarkTarget(c)
  <2>1. req[c].b \in Conv /\ req[c].at \in 0..MaxTime
    BY <1>0, <1>10, Fields DEF MarkTarget, Fits, MergeSteps
  <2> QED BY <1>0, <1>10, <2>1, MarkTargetGoes DEF TableTypes, SideTypes
<1>11. CASE MarkSource(c)
  <2>1. req[c].a \in Conv /\ req[c].b \in Conv
    BY <1>0, <1>11 DEF MarkSource, Fits, MergeSteps
  <2> QED BY <1>0, <1>11, <2>1, MarkSourceGoes DEF TableTypes, SideTypes
<1>12. CASE InsertTarget(c)
  <2>1. owner[req[c].a] \in Person
    BY <1>0, <1>12 DEF InsertTarget, Fits, TypeOK
  <2> QED BY <1>2, <1>12, <2>1, InsertTargetGoes
<1>13. CASE Recheck(c)
  <2>1. req[c].b \in Conv /\ 0 \in 0..MaxTime /\ Null = 0
    BY <1>0, <1>13, BoundsAssumption DEF Recheck, Fits, TargetSteps, Null
  <2>2. CASE UNCHANGED <<rowVars, sideVars, home>>
    BY <1>0, <1>13, <2>2, RecheckGoes DEF TableTypes, SideTypes
  <2>3. CASE TakesBack(c)
    BY <1>0, <1>13, <2>1, <2>3, RecheckGoes DEF TableTypes, SideTypes, TakesBack
  <2> QED BY <1>13, <2>2, <2>3, RecheckGoes
<1>14. CASE Move(c)
  <2>1. req[c].b \in Conv
    BY <1>0, <1>14 DEF Move, Fits, TargetSteps
  <2>2. UNCHANGED <<rowVars, sideVars, now, sender, excused>>
    BY <1>14, MoveGoes
  <2>3. home' = [t \in Time |-> IF t \in Moved(c) THEN req[c].b ELSE home[t]]
    BY <1>14, MoveGoes
  <2>4. home' \in [Time -> Conv \cup {Null}]
    BY <1>0, <2>1, <2>3, Zenon DEF SideTypes
  <2> QED BY <1>0, <2>2, <2>4 DEF TableTypes, SideTypes
<1>15. CASE Remaining(c)
  BY <1>1, <1>15, RemainingGoes
<1>16. CASE Log(c)
  <2>1. req[c].a \in Conv /\ req[c].b \in Conv
    BY <1>0, <1>16 DEF Log, Fits, TargetSteps
  <2> QED BY <1>0, <1>16, <2>1, LogGoes DEF TableTypes, SideTypes
<1>17. ASSUME NEW x \in {"source", "target"}, Stamp(c, x)
       PROVE  TableTypes' /\ SideTypes'
  <2>1. /\ req[c].a \in Conv /\ req[c].b \in Conv /\ req[c].cursor \in 0..MaxTime
        /\ req[c].at \in 0..MaxTime
    BY <1>0, <1>17, Fields DEF Stamp, Fits, TargetSteps
  <2> QED BY <1>0, <1>17, <2>1, StampGoes DEF TableTypes, SideTypes
<1> QED BY <1>3, <1>4, <1>5, <1>6, <1>7, <1>8, <1>9, <1>10, <1>11, <1>12, <1>13, <1>14, <1>15,
           <1>16, <1>17 DEF StepOf

-----------------------------------------------------------------------------
(* The steps that change the rows, and the steps that change the homes.    *)
LEMMA RowSteps ==
  ASSUME TypeOK, RowsStand, LinksPersonal, RequestsFit, NEW c \in Caller, StepOf(c)
  PROVE  \/ UNCHANGED <<status, owner, mergedInto, made>>
         \/ Create(c)
         \/ InsertTarget(c)
         \/ Write(c) /\ Exists(req[c].a) /\ WriteStatus(c) /\ UNCHANGED <<owner, mergedInto, made>>
         \/ /\ MarkSource(c) /\ Exists(req[c].a) /\ Exists(req[c].b)
            /\ status' = [status EXCEPT ![req[c].a] = "merged"]
            /\ mergedInto' = [mergedInto EXCEPT ![req[c].a] = req[c].b]
            /\ UNCHANGED <<owner, made>>
         \/ Recheck(c) /\ TakesBack(c)
<1> DEFINE Goal ==
         \/ UNCHANGED <<status, owner, mergedInto, made>>
         \/ Create(c)
         \/ InsertTarget(c)
         \/ Write(c) /\ Exists(req[c].a) /\ WriteStatus(c) /\ UNCHANGED <<owner, mergedInto, made>>
         \/ /\ MarkSource(c) /\ Exists(req[c].a) /\ Exists(req[c].b)
            /\ status' = [status EXCEPT ![req[c].a] = "merged"]
            /\ mergedInto' = [mergedInto EXCEPT ![req[c].a] = req[c].b]
            /\ UNCHANGED <<owner, made>>
         \/ Recheck(c) /\ TakesBack(c)
<1>0. Fits(c)
  BY DEF RequestsFit
<1>1. UNCHANGED rowVars => UNCHANGED <<status, owner, mergedInto, made>>
  BY DEF rowVars
<1>3. CASE Begins(c)
  BY <1>1, <1>3, BeginIsBegun, BegunGoes
<1>5. CASE Append(c)
  BY <1>5, AppendGoes
<1>6. CASE Latest(c)
  BY <1>1, <1>6, LatestGoes
<1>7. CASE Write(c)
  BY <1>7, WriteGoes DEF WriteAdded, WriteRemoved, WriteRead
<1>8. CASE ExtrasRead(c)
  BY <1>0, <1>1, <1>8, ExtrasReadGoes
<1>9. CASE ExtrasWrite(c)
  BY <1>1, <1>9, ExtrasWriteGoes
<1>10. CASE MarkTarget(c)
  BY <1>10, MarkTargetGoes
<1>11. CASE MarkSource(c)
  BY <1>11, MarkSourceGoes
<1>13. CASE Recheck(c)
  BY <1>1, <1>13, RecheckGoes
<1>14. CASE Move(c)
  BY <1>1, <1>14, MoveGoes
<1>15. CASE Remaining(c)
  BY <1>1, <1>15, RemainingGoes
<1>16. CASE Log(c)
  BY <1>1, <1>16, LogGoes
<1>17. ASSUME NEW x \in {"source", "target"}, Stamp(c, x)
       PROVE  Goal
  BY <1>17, StampGoes
<1> QED BY <1>3, <1>5, <1>6, <1>7, <1>8, <1>9, <1>10, <1>11, <1>13, <1>14, <1>15, <1>16, <1>17
        DEF StepOf

LEMMA HomeSteps ==
  ASSUME TypeOK, RowsStand, LinksPersonal, RequestsFit, NEW c \in Caller, StepOf(c)
  PROVE  \/ UNCHANGED <<home, sender, now>>
         \/ /\ Append(c) /\ Exists(req[c].a) /\ now < MaxTime /\ now' = now + 1
            /\ home' = [home EXCEPT ![now + 1] = req[c].a]
            /\ sender' = [sender EXCEPT ![now + 1] = req[c].person]
            /\ UNCHANGED <<status, owner, mergedInto, made>>
         \/ Recheck(c) /\ TakesBack(c) /\ UNCHANGED <<sender, now>>
         \/ /\ Move(c) /\ Exists(req[c].b)
            /\ home' = [t \in Time |-> IF t \in Moved(c) THEN req[c].b ELSE home[t]]
            /\ UNCHANGED <<status, owner, mergedInto, made, sender, now>>
<1> DEFINE Goal ==
         \/ UNCHANGED <<home, sender, now>>
         \/ /\ Append(c) /\ Exists(req[c].a) /\ now < MaxTime /\ now' = now + 1
            /\ home' = [home EXCEPT ![now + 1] = req[c].a]
            /\ sender' = [sender EXCEPT ![now + 1] = req[c].person]
            /\ UNCHANGED <<status, owner, mergedInto, made>>
         \/ Recheck(c) /\ TakesBack(c) /\ UNCHANGED <<sender, now>>
         \/ /\ Move(c) /\ Exists(req[c].b)
            /\ home' = [t \in Time |-> IF t \in Moved(c) THEN req[c].b ELSE home[t]]
            /\ UNCHANGED <<status, owner, mergedInto, made, sender, now>>
<1>0. Fits(c)
  BY DEF RequestsFit
<1>1. UNCHANGED msgVars => UNCHANGED <<home, sender, now>>
  BY DEF msgVars
<1>3. CASE Begins(c)
  BY <1>1, <1>3, BeginIsBegun, BegunGoes
<1>4. CASE Create(c)
  BY <1>1, <1>4, CreateGoes
<1>5. CASE Append(c)
  BY <1>1, <1>5, AppendGoes
<1>6. CASE Latest(c)
  BY <1>1, <1>6, LatestGoes
<1>7. CASE Write(c)
  BY <1>1, <1>7, WriteGoes
<1>8. CASE ExtrasRead(c)
  BY <1>0, <1>1, <1>8, ExtrasReadGoes
<1>9. CASE ExtrasWrite(c)
  BY <1>1, <1>9, ExtrasWriteGoes
<1>10. CASE MarkTarget(c)
  BY <1>1, <1>10, MarkTargetGoes
<1>11. CASE MarkSource(c)
  BY <1>1, <1>11, MarkSourceGoes
<1>12. CASE InsertTarget(c)
  BY <1>1, <1>12, InsertTargetGoes
<1>13. CASE Recheck(c)
  BY <1>1, <1>13, RecheckGoes
<1>14. CASE Move(c)
  <2>1. UNCHANGED <<status, owner, mergedInto, made, sender, now>>
    BY <1>14, MoveGoes DEF rowVars
  <2> QED BY <1>14, <2>1, MoveGoes
<1>15. CASE Remaining(c)
  BY <1>1, <1>15, RemainingGoes
<1>16. CASE Log(c)
  BY <1>1, <1>16, LogGoes
<1>17. ASSUME NEW x \in {"source", "target"}, Stamp(c, x)
       PROVE  Goal
  BY <1>1, <1>17, StampGoes
<1> QED BY <1>3, <1>4, <1>5, <1>6, <1>7, <1>8, <1>9, <1>10, <1>11, <1>12, <1>13, <1>14, <1>15,
           <1>16, <1>17 DEF StepOf

(* A row keeps its owner.                                                  *)
LEMMA OwnersStay ==
  ASSUME TypeOK, RowsStand, LinksPersonal, RequestsFit, NEW c \in Caller, StepOf(c)
  PROVE  Made \subseteq Made' /\ \A k \in Made : owner'[k] = owner[k]
<1>1. UNCHANGED <<owner, made>> => Made \subseteq Made' /\ \A k \in Made : owner'[k] = owner[k]
  BY DEF Made
<1>2. ASSUME NEW p, InsertRow(p)
      PROVE  Made \subseteq Made' /\ \A k \in Made : owner'[k] = owner[k]
  <2>1. made' = made + 1 /\ made \in Nat /\ made + 1 \notin Made /\ Made \subseteq Conv
    BY <1>2, MadeAre DEF InsertRow
  <2>2. \A k \in Made : owner'[k] = owner[k]
    BY <1>2, <2>1 DEF InsertRow, TypeOK
  <2> QED BY <2>1, <2>2 DEF Made
<1> QED BY <1>1, <1>2, RowSteps, CreateGoes, InsertTargetGoes DEF TakesBack

-----------------------------------------------------------------------------
(* RowsStand.                                                              *)
LinksExist(k) ==
  /\ k \notin Made => status[k] = "none"
  /\ mergedInto[k] # Null => Exists(k) /\ Exists(mergedInto[k])

LEMMA LinksExistKept ==
  ASSUME TypeOK, RowsStand, LinksPersonal, RequestsFit, NEW c \in Caller, StepOf(c)
  PROVE  \A k \in Conv : LinksExist(k)'
<1>0. /\ \A k \in Conv : LinksExist(k)
      /\ Fits(c) /\ Made \subseteq Conv /\ \A k \in Conv : mergedInto[k] \in Conv \cup {Null}
  BY MadeAre DEF RequestsFit, RowsStand, LinksExist, TypeOK
<1>1. CASE UNCHANGED <<status, owner, mergedInto, made>>
  BY <1>0, <1>1 DEF LinksExist, Exists, Made
<1>2. ASSUME NEW p, InsertRow(p)
      PROVE  \A k \in Conv : LinksExist(k)'
  <2>1. /\ made + 1 \in Conv /\ made + 1 \notin Made /\ made' = made + 1 /\ UNCHANGED mergedInto
        /\ status' = [status EXCEPT ![made + 1] = "open"]
    BY <1>2, MadeAre DEF InsertRow
  <2>2. \A k \in Conv : status'[k] = IF k = made + 1 THEN "open" ELSE status[k]
    BY <2>1 DEF TypeOK
  <2>3. Made \subseteq Made' /\ made + 1 \in Made'
    BY <2>1 DEF Made, TypeOK
  <2>4. \A k \in Conv : Exists(k) => Exists(k)'
    BY <2>2 DEF Exists
  <2> QED BY <1>0, <2>1, <2>2, <2>3, <2>4 DEF LinksExist
<1>3. CASE Write(c) /\ WriteStatus(c) /\ Exists(req[c].a) /\ UNCHANGED <<owner, mergedInto, made>>
  <2>1. req[c].a \in Made /\ req[c].set \in {"open", "resolved"}
    BY <1>0, <1>3, Fields DEF Fits, Write, TypeOK
  <2>2. \A k \in Conv : status'[k] = IF k = req[c].a THEN req[c].set ELSE status[k]
    BY <1>3 DEF TypeOK, WriteStatus
  <2>3. \A k \in Conv : Exists(k) <=> Exists(k)'
    BY <1>3, <2>1, <2>2 DEF Exists
  <2> QED BY <1>0, <1>3, <2>1, <2>2, <2>3 DEF LinksExist, Made
<1>4. CASE /\ MarkSource(c) /\ Exists(req[c].a) /\ Exists(req[c].b)
           /\ status' = [status EXCEPT ![req[c].a] = "merged"]
           /\ mergedInto' = [mergedInto EXCEPT ![req[c].a] = req[c].b]
           /\ UNCHANGED <<owner, made>>
  <2>1. req[c].a \in Made /\ req[c].b \in Made
    BY <1>0, <1>4 DEF Fits, MarkSource, MergeSteps
  <2>2. \A k \in Conv : /\ status'[k] = IF k = req[c].a THEN "merged" ELSE status[k]
                        /\ mergedInto'[k] = IF k = req[c].a THEN req[c].b ELSE mergedInto[k]
    BY <1>4 DEF TypeOK
  <2>3. \A k \in Conv : Exists(k) <=> Exists(k)'
    BY <1>4, <2>1, <2>2 DEF Exists
  <2> QED BY <1>0, <1>4, <2>1, <2>2, <2>3 DEF LinksExist, Made
<1>5. CASE Recheck(c) /\ TakesBack(c)
  <2>1. req[c].b \in Made /\ made' = made
    BY <1>0, <1>5 DEF Fits, Recheck, TargetSteps, TakesBack
  <2>2. \A k \in Conv :
           /\ status'[k] = IF k = req[c].b THEN "none" ELSE status[k]
           /\ mergedInto'[k] = IF mergedInto[k] = req[c].b \/ k = req[c].b THEN Null ELSE mergedInto[k]
    BY <1>5 DEF TypeOK, TakesBack
  <2>3. \A k \in Conv : Exists(k)' <=> Exists(k) /\ k # req[c].b
    BY <1>0, <2>1, <2>2 DEF Exists
  <2> QED BY <1>0, <2>1, <2>2, <2>3 DEF LinksExist, Made
<1> QED BY <1>1, <1>2, <1>3, <1>4, <1>5, RowSteps, CreateGoes, InsertTargetGoes

LEMMA ExistsStays ==
  ASSUME TypeOK, RowsStand, LinksPersonal, RequestsFit, NEW c \in Caller, StepOf(c),
         NEW k \in Conv, Exists(k)
  PROVE  Exists(k)' \/ (Recheck(c) /\ TakesBack(c) /\ k = req[c].b)
<1>0. Fits(c) /\ Made \subseteq Conv
  BY MadeAre DEF RequestsFit
<1>1. CASE UNCHANGED <<status, owner, mergedInto, made>>
  BY <1>1 DEF Exists
<1>2. ASSUME NEW p, InsertRow(p)
      PROVE  Exists(k)'
  BY <1>2, MadeAre DEF InsertRow, Exists, TypeOK
<1>3. CASE Write(c) /\ WriteStatus(c)
  <2>1. req[c].set # "none"
    BY Fields DEF TypeOK
  <2> QED BY <1>3, <2>1 DEF WriteStatus, Exists, TypeOK
<1>4. CASE status' = [status EXCEPT ![req[c].a] = "merged"]
  BY <1>4 DEF Exists, TypeOK
<1>5. CASE Recheck(c) /\ TakesBack(c)
  BY <1>5 DEF TakesBack, Exists, TypeOK
<1> QED BY <1>1, <1>2, <1>3, <1>4, <1>5, RowSteps, CreateGoes, InsertTargetGoes

LEMMA RowsStandKept ==
  ASSUME TypeOK, RowsStand, LinksPersonal, RequestsFit, NEW c \in Caller, StepOf(c)
  PROVE  RowsStand'
<1>0. Fits(c) /\ Made \subseteq Conv /\ Made \subseteq Made'
  BY MadeAre, OwnersStay DEF RequestsFit
<1>1. \A k \in Conv : LinksExist(k)'
  BY LinksExistKept
<1>2. \A k \in Conv : latestSplit'[k] # Null => latestSplit'[k] \in Made'
  <2>1. CASE UNCHANGED latestSplit
    BY <1>0, <2>1 DEF RowsStand
  <2>2. CASE Log(c)
    <3>1. req[c].a \in Conv /\ req[c].b \in Made
      BY <1>0, <2>2 DEF Fits, Log, TargetSteps
    <3>2. latestSplit' = [latestSplit EXCEPT ![req[c].a] = req[c].b]
      BY <2>2, LogGoes
    <3> QED BY <1>0, <3>1, <3>2 DEF RowsStand, TypeOK
  <2>3. Begins(c) => UNCHANGED latestSplit
    BY BeginIsBegun, BegunGoes DEF sideVars
  <2>4. ASSUME NEW x \in {"source", "target"}, Stamp(c, x)
        PROVE  UNCHANGED latestSplit
    BY <2>4, StampGoes DEF sideVars
  <2> QED BY <1>0, <2>1, <2>2, <2>3, <2>4, CreateGoes, AppendGoes, LatestGoes, WriteGoes, ExtrasReadGoes,
             ExtrasWriteGoes, MarkTargetGoes, MarkSourceGoes, InsertTargetGoes, RecheckGoes, MoveGoes,
             RemainingGoes
          DEF StepOf, sideVars, TakesBack
<1>3. ASSUME NEW t \in Time, home'[t] # Null
      PROVE  status'[home'[t]] # "none"
  <2>1. ASSUME NEW k \in Conv, Exists(k), ~(Recheck(c) /\ TakesBack(c)), home'[t] = k
        PROVE  status'[home'[t]] # "none"
    BY <2>1, ExistsStays DEF Exists
  <2>2. home[t] # Null => home[t] \in Conv /\ Exists(home[t])
    BY DEF RowsStand, TypeOK
  <2>3. CASE Recheck(c) /\ TakesBack(c)
    <3>1. home[t] # req[c].b /\ home'[t] = home[t] /\ home[t] # Null
      BY <1>3, <2>3 DEF TakesBack
    <3>2. status'[home[t]] # "none"
      BY <2>2, <2>3, <3>1, ExistsStays DEF Exists
    <3> QED BY <3>1, <3>2 DEF Exists
  <2>4. CASE home'[t] = home[t]
    BY <1>3, <2>1, <2>2, <2>3, <2>4
  <2>5. CASE Append(c) /\ Exists(req[c].a) /\ home' = [home EXCEPT ![now + 1] = req[c].a]
    <3>1. req[c].a \in Conv /\ home'[t] \in {home[t], req[c].a}
      BY <1>0, <2>5 DEF Fits, Append, TypeOK
    <3> QED BY <2>1, <2>3, <2>4, <2>5, <3>1
  <2>6. CASE /\ Move(c) /\ Exists(req[c].b)
             /\ home' = [x \in Time |-> IF x \in Moved(c) THEN req[c].b ELSE home[x]]
    <3>1. req[c].b \in Conv /\ home'[t] \in {home[t], req[c].b}
      BY <1>0, <2>6 DEF Fits, Move, TargetSteps
    <3> QED BY <2>1, <2>3, <2>4, <2>6, <3>1
  <2> QED BY <2>3, <2>4, <2>5, <2>6, HomeSteps
<1> QED BY <1>1, <1>2, <1>3 DEF RowsStand, LinksExist, Exists

-----------------------------------------------------------------------------
(* Links and messages stay within a person.                                *)
LEMMA LinksPersonalKept ==
  ASSUME TypeOK, RowsStand, LinksPersonal, RequestsFit, NEW c \in Caller, StepOf(c)
  PROVE  LinksPersonal'
<1>0. Fits(c) /\ Made \subseteq Conv /\ \A k \in Made : owner'[k] = owner[k]
  BY MadeAre, OwnersStay DEF RequestsFit
<1>1. ASSUME NEW k \in Conv, mergedInto[k] # Null
      PROVE  k \in Made /\ mergedInto[k] \in Made /\ owner'[mergedInto[k]] = owner'[k]
  <2>1. Exists(k) /\ Exists(mergedInto[k]) /\ mergedInto[k] \in Conv /\ owner[mergedInto[k]] = owner[k]
    BY <1>1 DEF RowsStand, LinksPersonal, TypeOK
  <2>2. k \in Made /\ mergedInto[k] \in Made
    BY <2>1 DEF RowsStand, Exists
  <2> QED BY <1>0, <2>1, <2>2
<1>2. ASSUME NEW k \in Conv, mergedInto'[k] # Null
      PROVE  owner'[mergedInto'[k]] = owner'[k]
  <2>1. CASE mergedInto'[k] = mergedInto[k]
    BY <1>1, <1>2, <2>1
  <2>2. CASE MarkSource(c) /\ mergedInto' = [mergedInto EXCEPT ![req[c].a] = req[c].b]
    <3>1. req[c].a \in Made /\ req[c].b \in Made /\ owner[req[c].b] = owner[req[c].a]
      BY <1>0, <2>2 DEF Fits, MarkSource, MergeSteps
    <3>2. mergedInto'[k] = mergedInto[k] \/ (k = req[c].a /\ mergedInto'[k] = req[c].b)
      BY <2>2 DEF TypeOK
    <3> QED BY <1>0, <2>1, <3>1, <3>2
  <2>3. CASE TakesBack(c)
    BY <1>2, <2>1, <2>3 DEF TakesBack
  <2> QED BY <2>1, <2>2, <2>3, RowSteps, CreateGoes, InsertTargetGoes DEF InsertRow
<1> QED BY <1>2 DEF LinksPersonal

LEMMA HomesPersonalKept ==
  ASSUME TypeOK, RowsStand, LinksPersonal, RequestsFit, HomesPersonal, NEW c \in Caller, StepOf(c)
  PROVE  HomesPersonal'
<1>0. Fits(c) /\ Made \subseteq Conv /\ \A k \in Made : owner'[k] = owner[k]
  BY MadeAre, OwnersStay DEF RequestsFit
<1>1. ASSUME NEW t \in Time, home[t] # Null
      PROVE  home[t] \in Made /\ owner'[home[t]] = sender[t]
  <2>1. Exists(home[t]) /\ home[t] \in Conv /\ owner[home[t]] = sender[t]
    BY <1>1 DEF RowsStand, HomesPersonal, TypeOK
  <2>2. home[t] \in Made
    BY <2>1 DEF RowsStand, Exists
  <2> QED BY <1>0, <2>1, <2>2
<1>2. ASSUME NEW t \in Time, home'[t] # Null
      PROVE  owner'[home'[t]] = sender'[t]
  <2>1. CASE home'[t] = home[t] /\ sender'[t] = sender[t]
    BY <1>1, <1>2, <2>1
  <2>2. CASE /\ Append(c) /\ home' = [home EXCEPT ![now + 1] = req[c].a]
             /\ sender' = [sender EXCEPT ![now + 1] = req[c].person]
    <3>1. req[c].a \in Made /\ owner[req[c].a] = req[c].person
      BY <1>0, <2>2 DEF Fits, Append
    <3>2. \/ home'[t] = home[t] /\ sender'[t] = sender[t]
          \/ home'[t] = req[c].a /\ sender'[t] = req[c].person
      BY <2>2 DEF TypeOK
    <3> QED BY <1>0, <2>1, <3>1, <3>2
  <2>3. CASE TakesBack(c) /\ UNCHANGED sender
    BY <1>2, <2>1, <2>3 DEF TakesBack
  <2>4. CASE /\ Move(c) /\ UNCHANGED sender
             /\ home' = [x \in Time |-> IF x \in Moved(c) THEN req[c].b ELSE home[x]]
    <3>1. /\ req[c].b \in Made /\ req[c].a \in Made /\ owner[req[c].b] = owner[req[c].a]
          /\ \A k \in req[c].chain : owner[k] = owner[req[c].a]
      BY <1>0, <2>4 DEF Fits, Move, TargetSteps, SplitSteps
    <3>2. CASE t \in Moved(c)
      <4>1. home[t] \in req[c].chain /\ req[c].chain \subseteq Made
        BY <1>0, <2>4, <3>2 DEF Moved, In, Fits, Move, TargetSteps, SplitSteps
      <4>2. home[t] # Null /\ home[t] \in Made
        BY <4>1, MadeAre
      <4>3. owner[home[t]] = sender[t]
        BY <4>2 DEF HomesPersonal
      <4> QED BY <1>0, <2>4, <3>1, <3>2, <4>1, <4>3
    <3>3. CASE t \notin Moved(c)
      BY <2>1, <2>4, <3>3
    <3> QED BY <3>2, <3>3
  <2> QED BY <2>1, <2>2, <2>3, <2>4, HomeSteps
<1> QED BY <1>2 DEF HomesPersonal

-----------------------------------------------------------------------------
(* RequestsFit.                                                            *)
LEMMA FitsAsked ==
  ASSUME TypeOK, RowsStand, LinksPersonal, NEW r, NEW s, Asks(r, s)
  PROVE  /\ s \notin {"idle", "create"} => r.a \in Made
         /\ s = "create" => r.kind \in {"inbound", "own"}
         /\ s = "append" => r.kind \in {"inbound", "own", "session", "reply"} /\ owner[r.a] = r.person
         /\ s = "latest" => r.kind = "read"
         /\ s = "write" => r.kind \in {"status", "add", "remove", "read"}
         /\ s \in MergeSteps =>
              r.kind = "merge" /\ r.b \in Made /\ r.a # r.b /\ owner[r.a] = owner[r.b]
         /\ s \in SplitSteps =>
              r.kind = "split" /\ r.asked \in Made /\ r.chain \subseteq Made
              /\ \A k \in r.chain : owner[k] = owner[r.a]
         /\ s \notin TargetSteps
<1>1. ASSUME s = "insert"
      PROVE  r.chain \subseteq Made /\ \A k \in r.chain : owner[k] = owner[r.a]
  <2>1. r.asked \in Conv /\ r.a = Canonical(r.asked) /\ r.chain = Chain(r.asked)
    BY <1>1, MadeAre DEF Asks
  <2>2. r.chain \subseteq Made /\ \A k \in r.chain : k \in Conv /\ Canonical(k) = r.a
    BY <2>1, ChainIs, MadeAre
  <2>3. r.a \in Conv /\ owner[r.a] = owner[r.asked]
    BY <2>1, CanonicalTyped, CanonicalOwner
  <2>4. \A k \in r.chain : owner[r.a] = owner[k]
    BY <2>2, CanonicalOwner
  <2> QED BY <2>2, <2>4
<1>2. s \in SplitSteps => s = "insert"
  BY DEF Asks, SplitSteps, TargetSteps
<1> QED BY <1>1, <1>2 DEF Asks, MergeSteps, SplitSteps, TargetSteps

LEMMA FitsStays ==
  ASSUME TypeOK, RowsStand, LinksPersonal, RequestsFit, NEW c \in Caller, StepOf(c),
         NEW d \in Caller, SameAsk(req[d], req'[d]), req'[d].a = req[d].a,
         \/ pc'[d] = pc[d] /\ req'[d].b = req[d].b
         \/ pc[d] \in MergeSteps /\ pc'[d] \in MergeSteps /\ req'[d].b = req[d].b
         \/ pc[d] \in TargetSteps /\ pc'[d] \in TargetSteps /\ req'[d].b = req[d].b
         \/ pc[d] = "latest" /\ pc'[d] = "write"
  PROVE  Fits(d)'
<1>1. Fits(d) /\ Made \subseteq Made' /\ \A k \in Made : owner'[k] = owner[k]
  BY OwnersStay DEF RequestsFit
<1>2. /\ MergeSteps \cap {"idle", "create", "append", "latest", "write"} = {}
      /\ SplitSteps \cap {"idle", "create", "append", "latest", "write"} = {}
      /\ TargetSteps \subseteq SplitSteps /\ MergeSteps \cap SplitSteps = {}
  BY DEF MergeSteps, SplitSteps, TargetSteps
<1>3. CASE pc'[d] = pc[d] /\ req'[d].b = req[d].b
  BY <1>1, <1>2, <1>3 DEF Fits, SameAsk
<1>4. CASE pc[d] \in MergeSteps /\ pc'[d] \in MergeSteps /\ req'[d].b = req[d].b
  BY <1>1, <1>2, <1>4 DEF Fits, SameAsk
<1>5. CASE pc[d] \in TargetSteps /\ pc'[d] \in TargetSteps /\ req'[d].b = req[d].b
  BY <1>1, <1>2, <1>5 DEF Fits, SameAsk
<1>6. CASE pc[d] = "latest" /\ pc'[d] = "write"
  BY <1>1, <1>2, <1>6 DEF Fits, SameAsk
<1> QED BY <1>3, <1>4, <1>5, <1>6

LEMMA RequestsFitKept ==
  ASSUME TypeOK, RowsStand, LinksPersonal, RequestsFit, NEW c \in Caller, StepOf(c)
  PROVE  RequestsFit'
<1>0. /\ Fits(c) /\ Made \subseteq Conv /\ Made \subseteq Made' /\ \A k \in Made : owner'[k] = owner[k]
      /\ {"extrasRead", "extrasWrite", "marks"} \subseteq MergeSteps
      /\ {"recheck", "move", "remaining", "stamps", "log"} \subseteq TargetSteps
      /\ SameAsk(req[c], req[c])
  BY MadeAre, OwnersStay DEF RequestsFit, MergeSteps, TargetSteps, SameAsk
<1>1. ASSUME NEW d \in Caller \ {c}
      PROVE  Fits(d)'
  <2>1. pc'[d] = pc[d] /\ req'[d] = req[d] /\ SameAsk(req[d], req[d])
    BY Flow DEF Goes, SameAsk
  <2> QED BY <2>1, FitsStays
<1>2. ASSUME pc'[c] = "idle"
      PROVE  Fits(c)'
  BY <1>2 DEF Fits, MergeSteps, SplitSteps, TargetSteps
<1>3. CASE Begins(c)
  <2>1. Asks(req'[c], pc'[c]) /\ UNCHANGED <<owner, made>>
    BY <1>3, BeginIsBegun, BegunGoes DEF rowVars
  <2> DEFINE r == req'[c]
             s == pc'[c]
  <2> HIDE DEF r, s
  <2>2. Asks(r, s)
    BY <2>1 DEF r, s
  <2>3. /\ s \notin {"idle", "create"} => r.a \in Made
        /\ s = "create" => r.kind \in {"inbound", "own"}
        /\ s = "append" => r.kind \in {"inbound", "own", "session", "reply"} /\ owner[r.a] = r.person
        /\ s = "latest" => r.kind = "read"
        /\ s = "write" => r.kind \in {"status", "add", "remove", "read"}
        /\ s \in MergeSteps =>
             r.kind = "merge" /\ r.b \in Made /\ r.a # r.b /\ owner[r.a] = owner[r.b]
        /\ s \in SplitSteps =>
             r.kind = "split" /\ r.asked \in Made /\ r.chain \subseteq Made
             /\ \A k \in r.chain : owner[k] = owner[r.a]
        /\ s \notin TargetSteps
    BY <2>2, FitsAsked
  <2>4. Fits(c)'
    BY <2>1, <2>3 DEF r, s, Fits, Made
  <2> QED BY <1>1, <2>4 DEF RequestsFit
<1>4. CASE Create(c)
  <2>1. /\ pc'[c] = "append" /\ req'[c].a = made + 1 /\ req'[c].person = req[c].person
        /\ req'[c].kind \in {"inbound", "own"} /\ owner'[made + 1] = req[c].person
        /\ made + 1 \in Made'
    BY <1>0, <1>4, CreateGoes, MadeAre DEF Goes, Fits, SameAsk, InsertRow, TypeOK, Made
  <2>2. Fits(c)'
    BY <2>1 DEF Fits, MergeSteps, SplitSteps, TargetSteps
  <2> QED BY <1>1, <2>2 DEF RequestsFit
<1>5. CASE Append(c)
  <2>1. pc'[c] = "idle" \/ (pc'[c] = pc[c] /\ req'[c] = req[c])
    BY <1>5, AppendGoes DEF Goes
  <2>2. Fits(c)'
    BY <1>0, <1>2, <2>1, FitsStays
  <2> QED BY <1>1, <2>2 DEF RequestsFit
<1>6. CASE Latest(c)
  <2>1. pc[c] = "latest" /\ pc'[c] = "write" /\ SameAsk(req[c], req'[c]) /\ req'[c].a = req[c].a
    BY <1>6, LatestGoes DEF Goes
  <2>2. Fits(c)'
    BY <2>1, FitsStays
  <2> QED BY <1>1, <2>2 DEF RequestsFit
<1>7. CASE Write(c) \/ Log(c)
  <2>1. Fits(c)'
    BY <1>2, <1>7, WriteGoes, LogGoes DEF Goes
  <2> QED BY <1>1, <2>1 DEF RequestsFit
<1>8. CASE ExtrasRead(c) \/ ExtrasWrite(c) \/ MarkTarget(c) \/ MarkSource(c)
  <2>1. \/ pc'[c] = "idle"
        \/ /\ pc[c] \in MergeSteps /\ pc'[c] \in MergeSteps /\ SameAsk(req[c], req'[c])
           /\ req'[c].a = req[c].a /\ req'[c].b = req[c].b
    BY <1>0, <1>8, ExtrasReadGoes, ExtrasWriteGoes, MarkTargetGoes, MarkSourceGoes DEF Goes
  <2>2. Fits(c)'
    BY <1>2, <2>1, FitsStays
  <2> QED BY <1>1, <2>2 DEF RequestsFit
<1>9. CASE InsertTarget(c)
  <2>1. /\ pc[c] = "insert" /\ pc'[c] = "recheck" /\ SameAsk(req[c], req'[c])
        /\ req'[c].a = req[c].a /\ req'[c].b = made + 1 /\ InsertRow(owner[req[c].a])
    BY <1>9, InsertTargetGoes DEF Goes
  <2>2. made + 1 \in Made' /\ owner'[made + 1] = owner[req[c].a]
    BY <2>1, MadeAre DEF InsertRow, Made, TypeOK
  <2>3. /\ req[c].a \in Made /\ req[c].kind = "split" /\ req[c].asked \in Made
        /\ req[c].chain \subseteq Made /\ \A k \in req[c].chain : owner[k] = owner[req[c].a]
    BY <1>0, <2>1 DEF Fits, SplitSteps
  <2>4. Fits(c)'
    BY <1>0, <2>1, <2>2, <2>3 DEF Fits, SameAsk, MergeSteps
  <2> QED BY <1>1, <2>4 DEF RequestsFit
<1>10. CASE Recheck(c) \/ Move(c) \/ Remaining(c) \/ \E x \in {"source", "target"} : Stamp(c, x)
  <2> DEFINE Goal == \/ pc'[c] = "idle"
                     \/ /\ pc[c] \in TargetSteps /\ pc'[c] \in TargetSteps /\ SameAsk(req[c], req'[c])
                        /\ req'[c].a = req[c].a /\ req'[c].b = req[c].b
  <2>1. ASSUME NEW x \in {"source", "target"}, Stamp(c, x)
        PROVE  Goal
    BY <1>0, <2>1, StampGoes DEF Goes
  <2>2. ASSUME Recheck(c) \/ Move(c) \/ Remaining(c)
        PROVE  Goal
    BY <1>0, <2>2, RecheckGoes, MoveGoes, RemainingGoes DEF Goes, TakesBack
  <2>3. Fits(c)'
    BY <1>2, <1>10, <2>1, <2>2, FitsStays
  <2> QED BY <1>1, <2>3 DEF RequestsFit
<1> QED BY <1>3, <1>4, <1>5, <1>6, <1>7, <1>8, <1>9, <1>10 DEF StepOf

-----------------------------------------------------------------------------
(* Requests in flight together have met, so that one which has not is the  *)
(* one that takes the step, as long as it is in flight.                    *)
LEMMA OverlapKept ==
  ASSUME TypeOK, RowsStand, LinksPersonal, RequestsFit, Overlap, NEW c \in Caller, StepOf(c)
  PROVE  Overlap'
<1>0. Goes(c, pc'[c], req'[c])
  BY Flow
<1>1. CASE Begun(c)
  <2>1. pc[c] = "idle" /\ met' = IF Busy = {} THEN {} ELSE met \cup Busy \cup {c}
    BY <1>1, BegunGoes
  <2>2. \A d \in Caller : pc'[d] # "idle" => d = c \/ d \in Busy
    BY <1>0 DEF Goes, Busy
  <2> QED BY <2>1, <2>2 DEF Overlap, Busy
<1>2. CASE pc[c] # "idle" /\ (met' = met \/ (met' = met \ {c} /\ pc'[c] = "idle"))
  <2>1. \A d \in Caller : pc'[d] # "idle" => pc[d] # "idle"
    BY <1>0, <1>2 DEF Goes
  <2>2. \A d \in Caller : pc'[d] # "idle" /\ d \in met => d \in met'
    BY <1>2
  <2> QED BY <2>1, <2>2 DEF Overlap, Busy
<1> QED BY <1>1, <1>2, Flow

LEMMA AloneSteps ==
  ASSUME TypeOK, RowsStand, LinksPersonal, RequestsFit, Overlap, NEW c \in Caller, StepOf(c),
         NEW d \in Caller, d \notin met', pc'[d] # "idle"
  PROVE  /\ d = c
         /\ pc[c] # "idle" => c \notin met
         /\ pc[c] = "idle" => Busy = {}
<1>0. Goes(c, pc'[c], req'[c])
  BY Flow
<1>1. CASE Begun(c)
  <2>1. pc[c] = "idle" /\ met' = IF Busy = {} THEN {} ELSE met \cup Busy \cup {c}
    BY <1>1, BegunGoes
  <2>2. d = c \/ d \in Busy
    BY <1>0 DEF Goes, Busy
  <2> QED BY <2>1, <2>2
<1>2. CASE pc[c] # "idle" /\ (met' = met \/ (met' = met \ {c} /\ pc'[c] = "idle"))
  <2>1. pc[d] # "idle" /\ d \notin met
    BY <1>0, <1>2 DEF Goes
  <2>2. d = c
    BY <1>2, <2>1 DEF Overlap, Busy
  <2> QED BY <1>2, <2>1, <2>2
<1> QED BY <1>1, <1>2, Flow

(* The order of the steps.                                                 *)
Advances(c) ==
  \/ pc'[c] = "idle"
  \/ pc[c] \in {"create", "append"} /\ pc'[c] = "append"
  \/ pc[c] = "latest" /\ pc'[c] = "write"
  \/ pc[c] = "extrasRead" /\ pc'[c] = "extrasWrite"
  \/ pc[c] \in {"extrasWrite", "marks"} /\ pc'[c] = "marks"
  \/ pc[c] = "insert" /\ pc'[c] = "recheck"
  \/ pc[c] = "recheck" /\ pc'[c] = "move"
  \/ pc[c] = "move" /\ pc'[c] = "remaining"
  \/ pc[c] \in {"remaining", "stamps"} /\ pc'[c] = "stamps"
  \/ pc[c] = "stamps" /\ pc'[c] = "log"

LEMMA StepsAdvance ==
  ASSUME TypeOK, RowsStand, LinksPersonal, RequestsFit, NEW c \in Caller, StepOf(c)
  PROVE  Begun(c) \/ (pc[c] # "idle" /\ Advances(c))
<1> USE DEF Goes, Advances
<1>0. Fits(c)
  BY DEF RequestsFit
<1>3. CASE Begins(c)
  BY <1>3, BeginIsBegun
<1>4. CASE Create(c)
  BY <1>4, CreateGoes
<1>5. CASE Append(c)
  BY <1>5, AppendGoes
<1>6. CASE Latest(c)
  BY <1>6, LatestGoes
<1>7. CASE Write(c)
  BY <1>7, WriteGoes
<1>8. CASE ExtrasRead(c)
  BY <1>0, <1>8, ExtrasReadGoes
<1>9. CASE ExtrasWrite(c)
  BY <1>9, ExtrasWriteGoes
<1>10. CASE MarkTarget(c)
  BY <1>10, MarkTargetGoes
<1>11. CASE MarkSource(c)
  BY <1>11, MarkSourceGoes
<1>12. CASE InsertTarget(c)
  BY <1>12, InsertTargetGoes
<1>13. CASE Recheck(c)
  BY <1>13, RecheckGoes DEF TakesBack
<1>14. CASE Move(c)
  BY <1>14, MoveGoes
<1>15. CASE Remaining(c)
  BY <1>15, RemainingGoes
<1>16. CASE Log(c)
  BY <1>16, LogGoes
<1>17. ASSUME NEW x \in {"source", "target"}, Stamp(c, x)
       PROVE  pc[c] # "idle" /\ Advances(c)
  BY <1>17, StampGoes
<1> QED BY <1>3, <1>4, <1>5, <1>6, <1>7, <1>8, <1>9, <1>10, <1>11, <1>12, <1>13, <1>14, <1>15,
           <1>16, <1>17 DEF StepOf

-----------------------------------------------------------------------------
(* Nobody gets a second open conversation.                                 *)
LEMMA OpenOnceKept ==
  ASSUME TypeOK, RowsStand, LinksPersonal, RequestsFit, OpenOnce, CreatesAlone,
         NEW c \in Caller, StepOf(c)
  PROVE  OpenOnce'
<1>0. Fits(c) /\ Made \subseteq Conv /\ \A k \in Made : owner'[k] = owner[k]
  BY MadeAre, OwnersStay DEF RequestsFit
<1>1. ASSUME excused \subseteq excused',
             \A k \in Conv \ excused' : status'[k] = "open" => status[k] = "open"
      PROVE  OpenOnce'
  <2>1. \A k \in Conv \ excused' : status'[k] = "open" => k \in Made /\ status[k] = "open" /\ owner'[k] = owner[k]
    BY <1>0, <1>1 DEF RowsStand
  <2> QED BY <1>1, <2>1 DEF OpenOnce
<1>2. CASE UNCHANGED <<status, owner, mergedInto, made, excused>>
  BY <1>1, <1>2
<1>3. CASE Create(c)
  <2>1. /\ made + 1 \in Conv /\ made + 1 \notin Made
        /\ status' = [status EXCEPT ![made + 1] = "open"]
        /\ owner' = [owner EXCEPT ![made + 1] = req[c].person]
        /\ excused' = IF req[c].kind = "own" \/ c \in met THEN excused \cup {made + 1} ELSE excused
    BY <1>3, CreateGoes, MadeAre DEF InsertRow
  <2>2. \A k \in Conv : k # made + 1 => status'[k] = status[k] /\ owner'[k] = owner[k]
    BY <2>1 DEF TypeOK
  <2>3. CASE req[c].kind = "own" \/ c \in met
    BY <1>1, <2>1, <2>2, <2>3
  <2>4. CASE ~(req[c].kind = "own" \/ c \in met)
    <3>1. req[c].kind = "inbound" /\ pc[c] = "create"
      BY <1>0, <1>3, <2>4, CreateGoes DEF Fits
    <3>2. \A k \in Conv : ~(status[k] = "open" /\ owner[k] = req[c].person)
      BY <2>4, <3>1 DEF CreatesAlone, Candidates
    <3>3. owner'[made + 1] = req[c].person
      BY <2>1 DEF TypeOK
    <3> QED BY <2>1, <2>2, <2>4, <3>2, <3>3 DEF OpenOnce
  <2> QED BY <2>3, <2>4
<1>4. CASE InsertTarget(c)
  <2>1. /\ status' = [status EXCEPT ![made + 1] = "open"]
        /\ excused' = excused \cup {made + 1}
    BY <1>4, InsertTargetGoes DEF InsertRow
  <2> QED BY <1>1, <2>1 DEF TypeOK
<1>5. CASE WriteStatus(c)
  BY <1>1, <1>5 DEF WriteStatus, TypeOK
<1>6. CASE excused' = excused /\ status' = [status EXCEPT ![req[c].a] = "merged"]
  BY <1>1, <1>6 DEF TypeOK
<1>7. CASE excused' = excused /\ TakesBack(c)
  BY <1>1, <1>7 DEF TakesBack, TypeOK
<1>8. \/ UNCHANGED excused
      \/ Create(c) \/ InsertTarget(c) \/ WriteStatus(c)
  <2>1. Begins(c) => UNCHANGED excused
    BY BeginIsBegun, BegunGoes
  <2>2. ASSUME NEW x \in {"source", "target"}, Stamp(c, x)
        PROVE  UNCHANGED excused
    BY <2>2, StampGoes
  <2>3. Write(c) => UNCHANGED excused \/ WriteStatus(c)
    BY WriteGoes DEF WriteAdded, WriteRemoved, WriteRead
  <2> QED BY <1>0, <2>1, <2>2, <2>3, AppendGoes, LatestGoes, ExtrasReadGoes, ExtrasWriteGoes,
             MarkTargetGoes, MarkSourceGoes, RecheckGoes, MoveGoes, RemainingGoes, LogGoes
          DEF StepOf
<1> QED BY <1>2, <1>3, <1>4, <1>5, <1>6, <1>7, <1>8, RowSteps

LEMMA CreatesAloneKept ==
  ASSUME TypeOK, RowsStand, LinksPersonal, RequestsFit, Overlap, CreatesAlone,
         NEW c \in Caller, StepOf(c)
  PROVE  CreatesAlone'
<1>1. ASSUME NEW d \in Caller, d \notin met', pc'[d] = "create", req'[d].kind = "inbound"
      PROVE  \A k \in Conv : ~(status'[k] = "open" /\ owner'[k] = req'[d].person)
  <2>1. d = c
    BY <1>1, AloneSteps
  <2>2. Begun(c)
    BY <1>1, <2>1, StepsAdvance DEF Advances
  <2>3. Asks(req'[c], "create") /\ UNCHANGED <<status, owner>>
    BY <1>1, <2>1, <2>2, BegunGoes DEF rowVars
  <2> QED BY <1>1, <2>1, <2>3 DEF Asks, Candidates
<1> QED BY <1>1 DEF CreatesAlone, Candidates

-----------------------------------------------------------------------------
(* Who is at work on what: a request is of one kind from start to end.     *)
LEMMA OfSteps ==
  ASSUME TypeOK, RowsStand, LinksPersonal, RequestsFit, NEW c \in Caller, StepOf(c),
         NEW kind \in Kinds, NEW d \in Caller, pc'[d] # "idle", req'[d].kind = kind
  PROVE  d \in Of(kind) \/ (d = c /\ Begun(c))
<1>0. Goes(c, pc'[c], req'[c])
  BY Flow
<1>1. CASE d # c
  BY <1>0, <1>1 DEF Goes, Of, Busy
<1>2. CASE d = c
  BY <1>2, Flow DEF SameAsk, Of, Busy
<1> QED BY <1>1, <1>2

LEMMA MergesOf ==
  ASSUME RequestsFit, NEW c \in Caller, pc[c] \in MergeSteps
  PROVE  c \in Of("merge") /\ req[c].a \in Made /\ req[c].b \in Made /\ req[c].a # req[c].b
BY DEF RequestsFit, Fits, MergeSteps, Of, Busy

LEMMA ApartKept ==
  ASSUME TypeOK, RowsStand, LinksPersonal, RequestsFit, Apart, NEW c \in Caller, StepOf(c)
  PROVE  Apart'
<1> DEFINE K == {"merge", "split", "status"}
<1>0. Goes(c, pc'[c], req'[c]) /\ K \subseteq Kinds /\ "merge" \in K
  BY Flow DEF Kinds
<1>1. ASSUME ~raced', NEW d \in Caller, NEW e \in Caller, pc'[d] # "idle", req'[d].kind = "merge",
             pc'[e] # "idle", NEW kind \in K, req'[e].kind = kind
      PROVE  d = e
  <2>1. d \in Of("merge") \/ (d = c /\ Begun(c))
    BY <1>0, <1>1, OfSteps
  <2>2. e \in Of(kind) \/ (e = c /\ Begun(c))
    BY <1>0, <1>1, OfSteps
  <2>3. ~raced
    BY <1>1, Flow, BegunGoes DEF TypeOK
  <2>4. CASE d \in Of("merge") /\ e \in Of(kind)
    BY <2>3, <2>4 DEF Apart
  <2>5. CASE Begun(c) /\ d = c /\ e \in Of(kind)
    <3>1. ~Races("merge")
      BY <1>1, <2>5, BegunGoes
    <3> QED BY <2>5, <3>1 DEF Races
  <2>6. CASE Begun(c) /\ e = c /\ d \in Of("merge")
    <3>1. ~Races(kind)
      BY <1>1, <2>6, BegunGoes
    <3> QED BY <2>6, <3>1 DEF Races
  <2> QED BY <2>1, <2>2, <2>4, <2>5, <2>6
<1>2. crossed' => raced'
  <2>1. CASE Begun(c)
    <3>1. /\ raced' = (raced \/ Races(req'[c].kind))
          /\ req'[c].kind # "merge" => crossed' = crossed
          /\ req'[c].kind = "merge" => crossed' = (crossed \/ Of("merge") # {})
      BY <2>1, BegunGoes
    <3>2. Of("merge") # {} => Races("merge")
      BY DEF Races
    <3> QED BY <3>1, <3>2 DEF Apart
  <2>2. CASE UNCHANGED <<raced, crossed>>
    BY <2>2 DEF Apart
  <2> QED BY <2>1, <2>2, Flow
<1> QED BY <1>1, <1>2 DEF Apart, Of, Busy

-----------------------------------------------------------------------------
(* No cycle of merges.                                                     *)
LEMMA UnlinkedSteps ==
  ASSUME TypeOK, RowsStand, LinksPersonal, RequestsFit, NEW c \in Caller, StepOf(c),
         NEW d \in Caller,
         \/ pc'[d] \in {"extrasRead", "extrasWrite"}
         \/ pc'[d] = "marks" /\ "source" \in req'[d].left
  PROVE  /\ \/ Unlinked(d) /\ req'[d].a = req[d].a /\ req'[d].b = req[d].b
            \/ d = c /\ Begun(c)
         /\ d = c => ~MarkSource(c)
<1>0. Goes(c, pc'[c], req'[c]) /\ Fits(c)
  BY Flow DEF RequestsFit
<1>1. CASE d # c
  BY <1>0, <1>1 DEF Goes, Unlinked
<1>2. CASE d = c /\ Begun(c)
  BY <1>2, BegunGoes DEF MarkSource
<1>3. CASE d = c /\ pc[c] # "idle" /\ Advances(c)
  <2>1. pc[c] \in {"extrasRead", "extrasWrite", "marks"}
    BY <1>3 DEF Advances
  <2>2. ExtrasRead(c) \/ ExtrasWrite(c) \/ MarkTarget(c) \/ MarkSource(c)
    BY <2>1 DEF StepOf, Create, Append, Latest, Write, InsertTarget, Recheck, Move, Remaining, Log, Stamp
  <2>3. CASE ExtrasRead(c)
    BY <1>0, <1>3, <2>3, ExtrasReadGoes DEF Unlinked, MarkSource
  <2>4. CASE ExtrasWrite(c)
    BY <1>3, <2>4, ExtrasWriteGoes DEF Unlinked, MarkSource, Goes
  <2>5. CASE MarkSource(c)
    BY <1>3, <2>5, MarkSourceGoes DEF Goes
  <2>6. CASE MarkTarget(c) /\ ~MarkSource(c)
    BY <1>3, <2>6, MarkTargetGoes DEF Unlinked, Goes
  <2> QED BY <2>2, <2>3, <2>4, <2>5, <2>6
<1> QED BY <1>1, <1>2, <1>3, StepsAdvance

LEMMA ChainsStandKept ==
  ASSUME TypeOK, RowsStand, LinksPersonal, RequestsFit, ChainsStand, NEW c \in Caller, StepOf(c),
         TypeOK'
  PROVE  ChainsStand'
<1> SUFFICES ASSUME ~crossed'
             PROVE  ChainsStand'
  BY DEF ChainsStand
<1>0. /\ Goes(c, pc'[c], req'[c]) /\ "merge" \in Kinds /\ Made \subseteq Conv
      /\ Links(mergedInto) /\ DOMAIN mergedInto = Conv /\ Null = 0
      /\ mergedInto' \in [Conv -> Conv \cup {Null}]
  BY Flow, LinksOfConvs, MadeAre DEF Kinds, TypeOK
<1>1. ~crossed
  BY Flow, BegunGoes DEF TypeOK
<1>2. /\ Acyclic(mergedInto) /\ \A d, e \in Of("merge") : d = e
      /\ \A d \in Caller : Unlinked(d) => mergedInto[req[d].a] = Null /\ mergedInto[req[d].b] = Null
  BY <1>1 DEF ChainsStand
<1>3. ASSUME NEW d \in Caller, NEW e \in Caller, pc'[d] # "idle", req'[d].kind = "merge",
             pc'[e] # "idle", req'[e].kind = "merge"
      PROVE  d = e
  <2>1. d \in Of("merge") \/ (d = c /\ Begun(c))
    BY <1>0, <1>3, OfSteps
  <2>2. e \in Of("merge") \/ (e = c /\ Begun(c))
    BY <1>0, <1>3, OfSteps
  <2>3. CASE d = c /\ Begun(c)
    <3>1. Of("merge") = {}
      BY <1>3, <2>3, BegunGoes
    <3> QED BY <2>2, <2>3, <3>1
  <2>4. CASE e = c /\ Begun(c)
    <3>1. Of("merge") = {}
      BY <1>3, <2>4, BegunGoes
    <3> QED BY <2>1, <2>4, <3>1
  <2> QED BY <1>2, <2>1, <2>2, <2>3, <2>4
<1>4. ASSUME NEW d \in Caller, Unlinked(d)
      PROVE  d \in Of("merge") /\ req[d].a \in Conv /\ req[d].b \in Conv
  BY <1>0, <1>4, MergesOf DEF Unlinked, MergeSteps
<1>5. ASSUME \A k \in Conv : mergedInto'[k] \in {Null, mergedInto[k]},
             NEW d \in Caller,
             \/ pc'[d] \in {"extrasRead", "extrasWrite"}
             \/ pc'[d] = "marks" /\ "source" \in req'[d].left
      PROVE  mergedInto'[req'[d].a] = Null /\ mergedInto'[req'[d].b] = Null
  <2>1. CASE Unlinked(d) /\ req'[d].a = req[d].a /\ req'[d].b = req[d].b
    BY <1>2, <1>4, <1>5, <2>1
  <2>2. CASE d = c /\ Begun(c)
    <3>1. Asks(req'[c], pc'[c])
      BY <2>2, BegunGoes
    <3>2. req'[c].a \in Made /\ req'[c].b \in Made /\ mergedInto[req'[c].a] = Null /\ mergedInto[req'[c].b] = Null
      BY <1>5, <2>2, <3>1 DEF Asks
    <3> QED BY <1>0, <1>5, <2>2, <3>2
  <2> QED BY <1>5, <2>1, <2>2, UnlinkedSteps
<1>6. CASE \A k \in Conv : mergedInto'[k] \in {Null, mergedInto[k]}
  <2>1. Links(mergedInto') /\ DOMAIN mergedInto' = Conv
    BY <1>0, RowsAre DEF Links
  <2>2. Acyclic(mergedInto')
    BY <1>0, <1>2, <1>6, <2>1, LinksCut
  <2> QED BY <1>3, <1>5, <1>6, <2>2 DEF ChainsStand, Of, Busy, Unlinked
<1>7. CASE MarkSource(c) /\ mergedInto' = [mergedInto EXCEPT ![req[c].a] = req[c].b]
  <2>1. Unlinked(c) /\ pc[c] \in MergeSteps
    BY <1>7 DEF Unlinked, MarkSource, MergeSteps
  <2>2. /\ req[c].a \in Conv /\ req[c].b \in Conv /\ req[c].a # req[c].b
        /\ mergedInto[req[c].a] = 0 /\ mergedInto[req[c].b] = 0
    BY <1>0, <1>2, <1>4, <2>1, MergesOf
  <2>3. Acyclic(mergedInto')
    BY <1>0, <1>2, <1>7, <2>2, LinkAdded
  <2>4. ASSUME NEW d \in Caller,
               \/ pc'[d] \in {"extrasRead", "extrasWrite"}
               \/ pc'[d] = "marks" /\ "source" \in req'[d].left
        PROVE  FALSE
    <3>1. d # c
      BY <1>7, <2>4, UnlinkedSteps
    <3>2. Unlinked(d)
      BY <2>4, <3>1, UnlinkedSteps
    <3> QED BY <1>2, <1>4, <2>1, <3>1, <3>2
  <2> QED BY <1>3, <2>3, <2>4 DEF ChainsStand, Of, Busy, Unlinked
<1>8. CASE TakesBack(c)
  BY <1>6, <1>8 DEF TakesBack
<1> QED BY <1>6, <1>7, <1>8, RowSteps, CreateGoes, InsertTargetGoes DEF InsertRow

-----------------------------------------------------------------------------
(* A row is listed as merged when it is linked.                            *)
Listed(k) == Exists(k) => (status[k] = "merged" <=> mergedInto[k] # Null)

LEMMA ListedKept ==
  ASSUME TypeOK, RowsStand, LinksPersonal, RequestsFit, ListedOnce, NEW c \in Caller, StepOf(c),
         ~raced
  PROVE  \A k \in Conv : Listed(k)'
<1>0. /\ Fits(c) /\ Made \subseteq Conv
      /\ \A k \in Conv : Listed(k)
      /\ \A d \in Of("status") : mergedInto[req[d].a] = Null
      /\ \A d \in Of("split") : pc[d] = "recheck" => \A k \in Conv : mergedInto[k] # req[d].b
  BY MadeAre DEF RequestsFit, ListedOnce, Listed
<1>1. CASE UNCHANGED <<status, owner, mergedInto, made>>
  BY <1>0, <1>1 DEF Listed, Exists
<1>2. ASSUME NEW p, InsertRow(p)
      PROVE  \A k \in Conv : Listed(k)'
  <2>1. /\ made + 1 \in Conv /\ made + 1 \notin Made /\ UNCHANGED mergedInto
        /\ status' = [status EXCEPT ![made + 1] = "open"]
    BY <1>2, MadeAre DEF InsertRow
  <2>2. mergedInto[made + 1] = Null
    BY <2>1 DEF RowsStand, Exists
  <2>3. \A k \in Conv : status'[k] = IF k = made + 1 THEN "open" ELSE status[k]
    BY <2>1 DEF TypeOK
  <2> QED BY <1>0, <2>1, <2>2, <2>3 DEF Listed, Exists
<1>3. CASE Write(c) /\ WriteStatus(c) /\ Exists(req[c].a) /\ UNCHANGED <<owner, mergedInto, made>>
  <2>1. req[c].set \in {"open", "resolved"} /\ mergedInto[req[c].a] = Null
    BY <1>0, <1>3, Fields DEF Write, WriteStatus, Of, Busy, TypeOK
  <2>2. \A k \in Conv : status'[k] = IF k = req[c].a THEN req[c].set ELSE status[k]
    BY <1>3 DEF TypeOK, WriteStatus
  <2> QED BY <1>0, <1>3, <2>1, <2>2 DEF Listed, Exists
<1>4. CASE /\ MarkSource(c) /\ Exists(req[c].a) /\ Exists(req[c].b)
           /\ status' = [status EXCEPT ![req[c].a] = "merged"]
           /\ mergedInto' = [mergedInto EXCEPT ![req[c].a] = req[c].b]
           /\ UNCHANGED <<owner, made>>
  <2>1. req[c].b # Null
    BY <1>0, <1>4, MadeAre DEF Fits, MarkSource, MergeSteps
  <2>2. \A k \in Conv : /\ status'[k] = IF k = req[c].a THEN "merged" ELSE status[k]
                        /\ mergedInto'[k] = IF k = req[c].a THEN req[c].b ELSE mergedInto[k]
    BY <1>4 DEF TypeOK
  <2> QED BY <1>0, <2>1, <2>2 DEF Listed, Exists
<1>5. CASE Recheck(c) /\ TakesBack(c)
  <2>1. \A k \in Conv : mergedInto[k] # req[c].b
    BY <1>0, <1>5 DEF Fits, Recheck, TargetSteps, SplitSteps, Of, Busy
  <2>2. \A k \in Conv :
           /\ status'[k] = IF k = req[c].b THEN "none" ELSE status[k]
           /\ mergedInto'[k] = IF k = req[c].b THEN Null ELSE mergedInto[k]
    BY <1>5, <2>1 DEF TypeOK, TakesBack
  <2> QED BY <1>0, <2>2 DEF Listed, Exists
<1> QED BY <1>1, <1>2, <1>3, <1>4, <1>5, RowSteps, CreateGoes, InsertTargetGoes

LEMMA ListedOnceKept ==
  ASSUME TypeOK, RowsStand, LinksPersonal, RequestsFit, Apart, ListedOnce, NEW c \in Caller, StepOf(c)
  PROVE  ListedOnce'
<1> SUFFICES ASSUME ~raced'
             PROVE  ListedOnce'
  BY DEF ListedOnce
<1>0. /\ Goes(c, pc'[c], req'[c]) /\ Fits(c) /\ Made \subseteq Conv /\ Null \notin Made
      /\ {"merge", "split", "status"} \subseteq Kinds
      /\ ~raced
  BY Flow, BegunGoes, MadeAre DEF Kinds, RequestsFit, TypeOK
<1>1. /\ \A d \in Of("status") : mergedInto[req[d].a] = Null
      /\ \A d \in Of("split") : pc[d] = "recheck" => \A k \in Conv : mergedInto[k] # req[d].b
      /\ \A d \in Of("merge"), e \in Of("split") \cup Of("status") : d = e
  BY <1>0 DEF ListedOnce, Apart
<1>2. \A k \in Conv : Listed(k)'
  BY <1>0, ListedKept
<1>3. \/ \A k \in Conv : mergedInto'[k] \in {Null, mergedInto[k]}
      \/ c \in Of("merge")
  <2>1. CASE MarkSource(c)
    BY <2>1, MergesOf DEF MarkSource, MergeSteps
  <2>2. CASE TakesBack(c)
    BY <2>2 DEF TakesBack
  <2> QED BY <2>1, <2>2, RowSteps, CreateGoes, InsertTargetGoes DEF InsertRow
<1>4. Of("merge") \cap (Of("split") \cup Of("status")) = {}
  BY DEF Of
<1>5. ASSUME NEW d \in Caller, pc'[d] # "idle", req'[d].kind = "status"
      PROVE  mergedInto'[req'[d].a] = Null
  <2>1. CASE d \in Of("status") /\ ~Begun(c)
    <3>1. pc[d] # "idle" /\ req[d].a \in Made /\ mergedInto[req[d].a] = Null
      BY <1>0, <1>1, <2>1 DEF RequestsFit, Fits, Of, Busy
    <3>2. req'[d].a = req[d].a
      <4>1. CASE d # c
        BY <1>0, <4>1 DEF Goes
      <4>2. CASE d = c
        <5>1. pc[c] \in {"latest", "write"}
          BY <2>1, <4>2 DEF RequestsFit, Fits, Of, Busy, MergeSteps, SplitSteps, TargetSteps, TypeOK, Steps
        <5>2. pc[c] = "latest"
          BY <1>5, <4>2, <5>1, <2>1, StepsAdvance DEF Advances
        <5> QED BY <2>1, <4>2, <5>2 DEF RequestsFit, Fits, Of, Busy
      <4> QED BY <4>1, <4>2
    <3>3. c \notin Of("merge")
      BY <1>1, <1>4, <2>1
    <3> QED BY <1>0, <1>3, <3>1, <3>2, <3>3
  <2>2. CASE Begun(c)
    <3>1. CASE d = c
      <4>1. Asks(req'[c], pc'[c]) /\ UNCHANGED mergedInto
        BY <2>2, BegunGoes DEF rowVars
      <4> QED BY <1>5, <3>1, <4>1 DEF Asks
    <3>2. CASE d # c
      <4>1. d \in Of("status") /\ req'[d] = req[d] /\ UNCHANGED mergedInto
        BY <1>0, <1>5, <2>2, <3>2, OfSteps, BegunGoes DEF Goes, rowVars
      <4> QED BY <1>1, <4>1
    <3> QED BY <3>1, <3>2
  <2> QED BY <1>0, <1>5, <2>1, <2>2, OfSteps
<1>6. ASSUME NEW d \in Caller, req'[d].kind = "split", pc'[d] = "recheck", NEW k \in Conv
      PROVE  mergedInto'[k] # req'[d].b
  <2>1. CASE d # c
    <3>1. d \in Of("split") /\ pc[d] = "recheck" /\ req'[d] = req[d]
      BY <1>0, <1>6, <2>1 DEF Goes, Of, Busy
    <3>2. req[d].b # Null /\ mergedInto[k] # req[d].b
      BY <1>0, <1>1, <3>1 DEF RequestsFit, Fits, TargetSteps
    <3>3. c \notin Of("merge")
      BY <1>1, <1>4, <3>1
    <3> QED BY <1>3, <3>1, <3>2, <3>3
  <2>2. CASE d = c
    <3>1. pc[c] = "insert"
      BY <1>6, <2>2, StepsAdvance, BegunGoes DEF Advances, Asks
    <3>2. InsertTarget(c)
      BY <3>1 DEF StepOf, Create, Append, Latest, Write, ExtrasRead, ExtrasWrite, MarkTarget, MarkSource,
                  Recheck, Move, Remaining, Log, Stamp
    <3>3. req'[c].b = made + 1 /\ UNCHANGED mergedInto /\ made + 1 \in Conv /\ made + 1 \notin Made
          /\ made + 1 # Null
      BY <3>2, InsertTargetGoes, MadeAre, RowsAre DEF InsertRow
    <3>4. mergedInto[k] # made + 1
      BY <3>3 DEF RowsStand, Exists
    <3> QED BY <2>2, <3>3, <3>4
  <2> QED BY <2>1, <2>2
<1> QED BY <1>2, <1>5, <1>6 DEF ListedOnce, Listed, Of, Busy

-----------------------------------------------------------------------------
(* A merge that is alone.                                                  *)
LEMMA CursorsMeet ==
  ASSUME TypeOK, NEW a \in Conv, NEW b \in Conv, a # b, IsRead(a), IsRead(b)
  PROVE  /\ CursorOf(a, b) >= Larger(lastAt[a], lastAt[b])
         /\ CursorOf(a, b) = Null => readAt[b] >= Larger(lastAt[a], lastAt[b])
<1>1. readAt[a] \in Nat /\ readAt[b] \in Nat /\ lastAt[a] \in Nat /\ lastAt[b] \in Nat
  BY BoundsAssumption DEF TypeOK
<1> QED BY <1>1 DEF IsRead, CursorOf, Larger, Null

LEMMA MergeAloneKept ==
  ASSUME TypeOK, RowsStand, LinksPersonal, RequestsFit, MergesAlone, NEW c \in Caller, StepOf(c),
         pc[c] # "idle" => c \notin met, pc'[c] \in MergeSteps
  PROVE  MergeAlone(c)'
<1>0. Fits(c)
  BY DEF RequestsFit
<1>1. CASE Begun(c)
  <2>1. Asks(req'[c], pc'[c]) /\ UNCHANGED <<lastAt, extras, readAt>>
    BY <1>1, BegunGoes DEF rowVars, sideVars
  <2>2. pc'[c] = "extrasRead"
    BY <1>1, <2>1 DEF Asks, MergeSteps
  <2> QED BY <2>1, <2>2 DEF Asks, MergeAlone, IsRead
<1>2. CASE pc[c] # "idle" /\ Advances(c)
  <2>1. pc[c] \in MergeSteps
    BY <1>2 DEF Advances, MergeSteps
  <2>2. ExtrasRead(c) \/ ExtrasWrite(c) \/ MarkTarget(c) \/ MarkSource(c)
    BY <2>1 DEF StepOf, Create, Append, Latest, Write, InsertTarget, Recheck, Move, Remaining, Log, Stamp,
                MergeSteps
  <2>3. MergeAlone(c)
    BY <1>2, <2>1 DEF MergesAlone
  <2>4. req[c].a \in Conv /\ req[c].b \in Conv /\ req[c].a # req[c].b
    BY <2>1, MergesOf, MadeAre
  <2>5. CASE ExtrasRead(c)
    <3>1. /\ pc[c] = "extrasRead" /\ pc'[c] = "extrasWrite" /\ req'[c].found = req[c].found
          /\ req'[c].a = req[c].a /\ req'[c].b = req[c].b /\ req'[c].at = req[c].at
          /\ req'[c].extras = extras[req[c].a] /\ req'[c].cursor = CursorOf(req[c].a, req[c].b)
          /\ UNCHANGED <<lastAt, extras, readAt>>
      BY <1>0, <2>5, ExtrasReadGoes DEF Goes, SameAsk, rowVars, sideVars
    <3>2. /\ req[c].at = Larger(lastAt[req[c].a], lastAt[req[c].b])
          /\ req[c].found = [read |-> IsRead(req[c].a) /\ IsRead(req[c].b),
                             extras |-> extras[req[c].a] \cup extras[req[c].b]]
      BY <2>3, <3>1 DEF MergeAlone
    <3> QED BY <3>1, <3>2 DEF MergeAlone, IsRead, CursorOf
  <2>6. CASE ExtrasWrite(c)
    <3> DEFINE a == req[c].a
               b == req[c].b
    <3>1. /\ pc[c] = "extrasWrite" /\ pc'[c] = "marks" /\ req'[c].found = req[c].found
          /\ req'[c].a = a /\ req'[c].b = b /\ req'[c].at = req[c].at
          /\ req'[c].left = {"source", "target"}
          /\ extras' = [extras EXCEPT ![b] = @ \cup req[c].extras, ![a] = {}]
          /\ readAt' = [readAt EXCEPT ![b] = IF req[c].cursor = Null THEN @ ELSE req[c].cursor,
                                      ![a] = Null]
      BY <2>6, ExtrasWriteGoes DEF Goes, SameAsk, MergeSteps
    <3>2. /\ req[c].at = Larger(lastAt[a], lastAt[b])
          /\ req[c].found = [read |-> IsRead(a) /\ IsRead(b), extras |-> extras[a] \cup extras[b]]
          /\ req[c].extras = extras[a] /\ req[c].cursor = CursorOf(a, b)
      BY <2>3, <3>1 DEF MergeAlone
    <3>3. extras'[b] = extras[b] \cup extras[a]
      BY <2>4, <3>1, <3>2 DEF TypeOK
    <3>4. readAt'[b] = IF CursorOf(a, b) = Null THEN readAt[b] ELSE CursorOf(a, b)
      BY <2>4, <3>1, <3>2 DEF TypeOK
    <3>5. IsRead(a) /\ IsRead(b) => readAt'[b] >= req[c].at
      BY <2>4, <3>2, <3>4, CursorsMeet
    <3>6. req'[c].found.extras = extras'[b] /\ (req'[c].found.read => IsRead(a) /\ IsRead(b))
      <4> DEFINE f == [read |-> IsRead(a) /\ IsRead(b), extras |-> extras[a] \cup extras[b]]
      <4>1. f.extras = extras[a] \cup extras[b] /\ (f.read => IsRead(a) /\ IsRead(b))
        OBVIOUS
      <4>2. req'[c].found = f
        BY <3>1, <3>2
      <4> HIDE DEF f
      <4>3. f.extras = extras'[b]
        BY <3>3, <4>1
      <4> QED BY <4>1, <4>2, <4>3
    <3> QED BY <3>1, <3>5, <3>6 DEF MergeAlone
  <2>7. CASE MarkTarget(c)
    <3>1. /\ pc[c] = "marks" /\ pc'[c] = "marks" /\ req'[c].found = req[c].found
          /\ req'[c].b = req[c].b /\ req'[c].at = req[c].at /\ req'[c].left # {}
          /\ lastAt' = [lastAt EXCEPT ![req[c].b] = req[c].at]
          /\ UNCHANGED <<extras, readAt>>
      BY <2>7, MarkTargetGoes DEF Goes, SameAsk, MergeSteps, sideVars
    <3>2. lastAt'[req[c].b] = req[c].at
      BY <2>4, <3>1 DEF TypeOK
    <3> QED BY <2>3, <3>1, <3>2 DEF MergeAlone
  <2>8. CASE MarkSource(c)
    <3>1. /\ pc[c] = "marks" /\ pc'[c] = "marks" /\ req'[c].found = req[c].found
          /\ req'[c].b = req[c].b /\ req'[c].at = req[c].at /\ req'[c].left # {}
          /\ req'[c].left = req[c].left \ {"source"}
          /\ UNCHANGED <<lastAt, extras, readAt>>
      BY <2>8, MarkSourceGoes DEF Goes, SameAsk, MergeSteps, sideVars
    <3> QED BY <2>3, <3>1 DEF MergeAlone
  <2> QED BY <2>2, <2>5, <2>6, <2>7, <2>8
<1> QED BY <1>1, <1>2, StepsAdvance

LEMMA MergesAloneKept ==
  ASSUME TypeOK, RowsStand, LinksPersonal, RequestsFit, Overlap, MergesAlone, NEW c \in Caller, StepOf(c)
  PROVE  MergesAlone'
<1>1. ASSUME NEW d \in Caller, d \notin met', pc'[d] \in MergeSteps
      PROVE  MergeAlone(d)'
  <2>1. d = c /\ (pc[c] # "idle" => c \notin met)
    BY <1>1, AloneSteps DEF MergeSteps
  <2> QED BY <1>1, <2>1, MergeAloneKept
<1> QED BY <1>1 DEF MergesAlone

-----------------------------------------------------------------------------
(* A split that is alone.                                                  *)
LEMMA SplitAdvances ==
  ASSUME NEW c, StepOf(c), pc[c] \in SplitSteps
  PROVE  InsertTarget(c) \/ Recheck(c) \/ Move(c) \/ Remaining(c) \/ Log(c)
         \/ \E x \in {"source", "target"} : Stamp(c, x)
BY DEF StepOf, Create, Append, Latest, Write, ExtrasRead, ExtrasWrite, MarkTarget, MarkSource,
       SplitSteps, TargetSteps

(* The thread of a split that begins.                                      *)
LEMMA SplitBegins ==
  ASSUME TypeOK, NEW r, NEW s, Asks(r, s), s = "insert"
  PROVE  /\ mergedInto[r.a] = Null /\ r.a \in r.chain /\ r.msg \in Time /\ r.chain = Chain(r.a)
         /\ home[r.msg] \in r.chain /\ Ends(r.asked) /\ Canonical(r.asked) = r.a
<1>1. /\ r.a \in Made /\ r.asked \in Made /\ Ends(r.asked) /\ r.a = Canonical(r.asked)
      /\ r.chain = Chain(r.asked) /\ r.msg \in Time /\ home[r.msg] \in r.chain
  BY DEF Asks
<1>2. r.a \in Conv /\ r.asked \in Conv
  BY <1>1, MadeAre
<1>3. mergedInto[r.a] = Null
  BY <1>1, <1>2, EndsAre
<1>4. Canonical(r.a) = r.a /\ Ends(r.a)
  BY <1>2, <1>3, RootsResolve
<1>5. r.chain = Chain(r.a) /\ r.a \in r.chain
  BY <1>1, <1>4, ChainIs
<1> QED BY <1>1, <1>3, <1>5

(* What splits share: a and b are apart.                                   *)
LEMMA SplitParts ==
  ASSUME TypeOK, RequestsFit, NEW c \in Caller, SplitAlone(c), pc[c] \in TargetSteps
  PROVE  /\ req[c].a \in Conv /\ req[c].b \in Conv /\ req[c].a # req[c].b
         /\ req[c].b \notin req[c].chain /\ req[c].chain = Chain(req[c].a)
         /\ req[c].chain \subseteq Conv
<1>1. req[c].a \in Made /\ req[c].b \in Made
  BY DEF RequestsFit, Fits, TargetSteps
<1>2. pc[c] # "insert"
  BY DEF TargetSteps
<1>3. /\ req[c].a \in req[c].chain /\ req[c].b \notin Chain(req[c].a)
      /\ req[c].chain = Chain(req[c].a) \ {req[c].b}
  BY <1>2 DEF SplitAlone
<1> QED BY <1>1, <1>3, MadeAre, ChainIs

LEMMA SplitInsertKept ==
  ASSUME TypeOK, RowsStand, RequestsFit, NEW c \in Caller, InsertTarget(c), SplitAlone(c)
  PROVE  SplitAlone(c)'
<1> DEFINE a == req[c].a
           n == made + 1
<1>1. /\ pc[c] = "insert" /\ pc'[c] = "recheck" /\ UNCHANGED <<mergedInto, home>>
      /\ req'[c].a = a /\ req'[c].b = n /\ req'[c].msg = req[c].msg /\ req'[c].chain = req[c].chain
      /\ req'[c].asked = req[c].asked /\ made' = n
  BY InsertTargetGoes DEF Goes, SameAsk, InsertRow, msgVars
<1>2. /\ mergedInto[a] = Null /\ a \in req[c].chain /\ req[c].msg \in Time /\ req[c].chain = Chain(a)
      /\ home[req[c].msg] \in req[c].chain /\ Ends(req[c].asked) /\ Canonical(req[c].asked) = a
  BY <1>1 DEF SplitAlone
<1>3. n \in Conv /\ n \notin Made /\ a \in Made /\ a \in Conv /\ made \in Nat
  BY <1>1, MadeAre DEF InsertTarget, InsertRow, RequestsFit, Fits
<1>4. mergedInto[n] = Null /\ mergedInto[n] = mergedInto'[n]
  BY <1>1, <1>3 DEF RowsStand, Exists
<1>5. Root(mergedInto, n) = n /\ Root(mergedInto, a) = a
  BY <1>2, <1>3, <1>4, RootsResolve DEF Canonical
<1>6. {j \in 1..n : Ended(mergedInto, j) /\ Root(mergedInto, j) = Root(mergedInto, a)} = Chain(a)
  <2>1. 1..n = Made \cup {n}
    BY <1>3 DEF Made
  <2>2. n # a
    BY <1>3
  <2> QED BY <1>3, <1>5, <2>1, <2>2, ChainIs DEF Ends, Canonical
<1>7. n \notin Chain(a)
  BY <1>3, ChainIs
<1>8. {t \in Time : home[t] \in {n}} = {}
  <2>1. n # Null /\ status[n] = "none"
    BY <1>3, RowsAre DEF RowsStand
  <2>2. \A t \in Time : home[t] # n
    BY <2>1 DEF RowsStand, Exists
  <2> HIDE DEF n
  <2> QED BY <2>2
<1> HIDE DEF n, a
<1>9. Chain(req[c].a)' = Chain(a)
  BY <1>1, <1>6 DEF Chain, Ends, Canonical
<1>10. In({req[c].b})' = {}
  BY <1>1, <1>8 DEF In
<1>11. Ends(req[c].asked)' /\ Canonical(req[c].asked)' = a
  BY <1>1, <1>2 DEF Ends, Canonical
<1> QED BY <1>1, <1>2, <1>7, <1>9, <1>10, <1>11 DEF SplitAlone

LEMMA SplitRecheckKept ==
  ASSUME TypeOK, RowsStand, RequestsFit, NEW c \in Caller, Recheck(c), SplitAlone(c), pc'[c] # "idle"
  PROVE  SplitAlone(c)'
<1>1. /\ pc[c] = "recheck" /\ pc'[c] = "move" /\ req'[c] = req[c] /\ UNCHANGED <<mergedInto, made, home>>
  BY RecheckGoes DEF Goes, TakesBack, rowVars
<1>2. Chain(req[c].a)' = Chain(req[c].a) /\ In({req[c].b})' = In({req[c].b})
  BY <1>1 DEF Chain, Ends, Canonical, In
<1> QED BY <1>1, <1>2 DEF SplitAlone, TargetSteps

LEMMA SplitMoveKept ==
  ASSUME TypeOK, RowsStand, RequestsFit, NEW c \in Caller, Move(c), SplitAlone(c)
  PROVE  SplitAlone(c)'
<1> DEFINE a == req[c].a
           b == req[c].b
           M == Moved(c)
<1>1. /\ pc[c] = "move" /\ pc'[c] = "remaining" /\ UNCHANGED <<mergedInto, made>>
      /\ req'[c].a = a /\ req'[c].b = b /\ req'[c].msg = req[c].msg /\ req'[c].chain = req[c].chain
      /\ req'[c].at = Max(M \cup {req[c].msg})
      /\ home' = [t \in Time |-> IF t \in M THEN b ELSE home[t]]
  BY MoveGoes DEF Goes, SameAsk, rowVars
<1>2. /\ mergedInto[a] = Null /\ a \in req[c].chain /\ req[c].msg \in Time /\ req[c].chain = Chain(a)
      /\ home[req[c].msg] \in req[c].chain /\ In({b}) = {} /\ b \notin Chain(a)
  BY <1>1, SplitParts DEF SplitAlone, TargetSteps
<1>3. M = {t \in Time : home[t] \in req[c].chain /\ t >= req[c].msg} /\ req[c].msg \in M
      /\ \A t \in Time : t \in Nat
  BY <1>2, BoundsAssumption DEF Moved, In, Time
<1>4. M \cup {req[c].msg} = M
  BY <1>3
<1>5. Chain(req[c].a)' = Chain(a)
  BY <1>1 DEF Chain, Ends, Canonical
<1>6. {t \in Time : home'[t] \in {b}} = M
  BY <1>1, <1>2, <1>3 DEF In
<1>7. \A t \in Time : home'[t] \in req[c].chain => t < req[c].msg
  BY <1>1, <1>2, <1>3
<1> HIDE DEF a, b, M
<1>8. In({req[c].b})' = M
  BY <1>1, <1>6 DEF In
<1>9. \A t \in In(req[c].chain)' : t < req'[c].msg
  BY <1>1, <1>7 DEF In
<1>10. \A t \in M : t >= req[c].msg
  BY <1>3
<1> QED BY <1>1, <1>2, <1>3, <1>4, <1>5, <1>8, <1>9, <1>10 DEF SplitAlone

LEMMA SplitRemainingKept ==
  ASSUME TypeOK, RowsStand, RequestsFit, NEW c \in Caller, Remaining(c), SplitAlone(c)
  PROVE  SplitAlone(c)'
<1>1. /\ pc[c] = "remaining" /\ pc'[c] = "stamps" /\ UNCHANGED <<mergedInto, made, home>>
      /\ req'[c].a = req[c].a /\ req'[c].b = req[c].b /\ req'[c].msg = req[c].msg
      /\ req'[c].chain = req[c].chain /\ req'[c].at = req[c].at
      /\ req'[c].cursor = Newest(In(req[c].chain), 0) /\ req'[c].left = {"source", "target"}
  BY RemainingGoes DEF Goes, SameAsk, rowVars, msgVars
<1>2. /\ Chain(req[c].a)' = Chain(req[c].a) /\ In({req[c].b})' = In({req[c].b})
      /\ In(req[c].chain)' = In(req[c].chain)
  BY <1>1 DEF Chain, Ends, Canonical, In
<1> QED BY <1>1, <1>2 DEF SplitAlone, TargetSteps

LEMMA SplitStampKept ==
  ASSUME TypeOK, RowsStand, RequestsFit, NEW c \in Caller, NEW x \in {"source", "target"}, Stamp(c, x),
         SplitAlone(c)
  PROVE  SplitAlone(c)'
<1>1. /\ pc[c] = "stamps" /\ x \in req[c].left /\ UNCHANGED <<mergedInto, made, home>>
      /\ lastAt' = IF x = "source" THEN [lastAt EXCEPT ![req[c].a] = req[c].cursor]
                   ELSE [lastAt EXCEPT ![req[c].b] = req[c].at]
      /\ req'[c].a = req[c].a /\ req'[c].b = req[c].b /\ req'[c].msg = req[c].msg
      /\ req'[c].chain = req[c].chain /\ req'[c].at = req[c].at /\ req'[c].cursor = req[c].cursor
      /\ \/ req[c].left = {x} /\ pc'[c] = "log"
         \/ pc'[c] = "stamps" /\ req'[c].left = req[c].left \ {x} /\ req'[c].left # {}
  BY StampGoes DEF Goes, SameAsk, msgVars
<1>2. /\ Chain(req[c].a)' = Chain(req[c].a) /\ In({req[c].b})' = In({req[c].b})
      /\ In(req[c].chain)' = In(req[c].chain)
  BY <1>1 DEF Chain, Ends, Canonical, In
<1>3. req[c].a \in Conv /\ req[c].b \in Conv /\ req[c].a # req[c].b
  BY <1>1, SplitParts DEF TargetSteps
<1>4. /\ x = "source" => lastAt'[req[c].a] = req[c].cursor /\ lastAt'[req[c].b] = lastAt[req[c].b]
      /\ x = "target" => lastAt'[req[c].b] = req[c].at /\ lastAt'[req[c].a] = lastAt[req[c].a]
  BY <1>1, <1>3 DEF TypeOK
<1>5. /\ "source" \notin req[c].left => lastAt[req[c].a] = req[c].cursor
      /\ "target" \notin req[c].left => lastAt[req[c].b] = req[c].at
  BY <1>1 DEF SplitAlone
<1>6. /\ pc'[c] = "log" \/ "source" \notin req'[c].left => lastAt'[req[c].a] = req[c].cursor
      /\ pc'[c] = "log" \/ "target" \notin req'[c].left => lastAt'[req[c].b] = req[c].at
  BY <1>1, <1>4, <1>5
<1>7. pc'[c] \in {"stamps", "log"} /\ (pc'[c] = "stamps" => req'[c].left # {})
  BY <1>1
<1>8. /\ mergedInto[req[c].a] = Null /\ req[c].a \in req[c].chain /\ req[c].msg \in Time
      /\ req[c].chain = Chain(req[c].a) \ {req[c].b} /\ req[c].b \notin Chain(req[c].a)
      /\ \A t \in In(req[c].chain) : t < req[c].msg
      /\ req[c].msg \in In({req[c].b}) /\ \A t \in In({req[c].b}) : t >= req[c].msg
      /\ req[c].at = Max(In({req[c].b})) /\ req[c].cursor = Newest(In(req[c].chain), 0)
  BY <1>1 DEF SplitAlone, TargetSteps
<1> QED BY <1>1, <1>2, <1>6, <1>7, <1>8 DEF SplitAlone, TargetSteps

LEMMA SplitsAloneKept ==
  ASSUME TypeOK, RowsStand, LinksPersonal, RequestsFit, Overlap, SplitsAlone, NEW c \in Caller, StepOf(c)
  PROVE  SplitsAlone'
<1>1. ASSUME NEW d \in Caller, d \notin met', pc'[d] \in SplitSteps
      PROVE  SplitAlone(d)'
  <2>1. d = c /\ (pc[c] # "idle" => c \notin met)
    BY <1>1, AloneSteps DEF SplitSteps, TargetSteps
  <2>2. CASE Begun(c)
    <3>1. Asks(req'[c], pc'[c]) /\ UNCHANGED <<mergedInto, made, home>>
      BY <2>2, BegunGoes DEF rowVars, msgVars
    <3>2. pc'[c] = "insert"
      BY <1>1, <2>1, <3>1 DEF Asks, SplitSteps, TargetSteps
    <3> DEFINE r == req'[c]
               s == pc'[c]
    <3>3. Asks(r, s) /\ s = "insert"
      BY <3>1, <3>2
    <3> HIDE DEF r, s
    <3>4. /\ mergedInto[r.a] = Null /\ r.a \in r.chain /\ r.msg \in Time /\ r.chain = Chain(r.a)
          /\ home[r.msg] \in r.chain /\ Ends(r.asked) /\ Canonical(r.asked) = r.a
      BY <3>3, SplitBegins
    <3> QED BY <2>1, <3>1, <3>2, <3>4
            DEF r, SplitAlone, TargetSteps, Chain, Ends, Canonical
  <2>3. CASE pc[c] # "idle" /\ Advances(c)
    <3>1. pc[c] \in SplitSteps
      BY <1>1, <2>1, <2>3 DEF Advances, SplitSteps, TargetSteps
    <3>2. SplitAlone(c) /\ pc'[c] # "idle" /\ pc'[c] \in SplitSteps
      BY <1>1, <2>1, <2>3, <3>1 DEF SplitsAlone, SplitSteps, TargetSteps
    <3>3. Log(c) => pc'[c] = "idle"
      BY LogGoes DEF Goes
    <3> QED BY <2>1, <3>1, <3>2, <3>3, SplitAdvances, SplitInsertKept, SplitRecheckKept, SplitMoveKept,
               SplitRemainingKept, SplitStampKept
  <2> QED BY <2>2, <2>3, StepsAdvance
<1> QED BY <1>1 DEF SplitsAlone

-----------------------------------------------------------------------------
(* The initial states.                                                     *)
LEMMA InitTyped ==
  ASSUME Init
  PROVE  TypeOK
<1>1. 0 \in 0..MaxTime /\ 1 \in 0..MaxTime /\ 2 \in 0..MaxTime /\ 2 \in 2..MaxConvs
      /\ 0 \in 0..MaxCalls /\ 1 \in Conv /\ 2 \in Conv /\ 1 \in Time /\ 2 \in Time /\ Null = 0
  BY BoundsAssumption DEF Conv, Time, Null
<1>2. TableTypes
  BY <1>1, NobodyAsks DEF Init, TableTypes
<1>3. extras \in [Conv -> SUBSET Extra] /\ readAt \in [Conv -> 0..MaxTime]
      /\ latestSplit \in [Conv -> Conv \cup {Null}]
  BY <1>1 DEF Init, InitExtras, InitMarks
<1>4. home \in [Time -> Conv \cup {Null}] /\ now \in 0..MaxTime /\ excused \in SUBSET Conv
  BY <1>1 DEF Init
<1>5. sender \in [Time -> Person]
  BY <1>1, NobodyAsks DEF Init
<1>6. AskTypes
  BY <1>1, NobodyAsks DEF Init, AskTypes, Steps
<1> QED BY <1>2, <1>3, <1>4, <1>5, <1>6, TypesSplit DEF SideTypes

LEMMA InitThreads ==
  ASSUME Init
  PROVE  ThreadsInv
<1>1. TypeOK
  BY InitTyped
<1>2. /\ 1 \in Conv /\ 2 \in Conv /\ Null = 0 /\ made = 2 /\ Made = {1, 2}
      /\ status = [k \in Conv |-> IF k \in {1, 2} THEN "open" ELSE "none"]
      /\ mergedInto = [k \in Conv |-> Null] /\ latestSplit = [k \in Conv |-> Null]
      /\ home = [t \in Time |-> IF t \in {1, 2} THEN t ELSE Null]
      /\ pc = [c \in Caller |-> "idle"]
  BY RowsAre DEF Init, InitMarks, Made
<1>3. RowsStand
  BY <1>2 DEF RowsStand, Exists
<1>4. Busy = {} /\ \A kind : Of(kind) = {}
  BY <1>2 DEF Busy, Of
<1>5. RequestsFit /\ CreatesAlone /\ MergesAlone /\ SplitsAlone
  BY <1>2 DEF RequestsFit, Fits, CreatesAlone, MergesAlone, SplitsAlone, MergeSteps, SplitSteps, TargetSteps
<1>6. Overlap
  BY <1>4 DEF Overlap
<1>7. ChainsStand
  <2>1. Orders(DOMAIN mergedInto, mergedInto, {})
    BY <1>2 DEF Orders
  <2>2. \A c \in Caller : ~Unlinked(c)
    BY <1>2 DEF Unlinked
  <2> QED BY <1>4, <2>1, <2>2 DEF ChainsStand, Acyclic
<1>8. HomesPersonal
  <2>1. /\ \A k \in Conv \ {2} : owner[k] = AnyPerson
        /\ sender = [t \in Time |-> IF t = 2 THEN owner[2] ELSE AnyPerson]
    BY DEF Init
  <2>2. \A t \in Time : home[t] # Null => home[t] = t /\ t \in {1, 2}
    BY <1>2
  <2> QED BY <1>2, <2>1, <2>2 DEF HomesPersonal
<1>9. LinksPersonal
  BY <1>2 DEF LinksPersonal
<1>10. OpenOnce
  <2>1. excused = {2}
    BY DEF Init
  <2> QED BY <1>2, <2>1 DEF OpenOnce
<1>11. Apart /\ ListedOnce
  <2>1. crossed = FALSE
    BY DEF Init
  <2>2. \A k \in Conv : status[k] # "merged" /\ mergedInto[k] = Null
    BY <1>2
  <2> QED BY <1>4, <2>1, <2>2 DEF Apart, ListedOnce
<1> QED BY <1>1, <1>3, <1>5, <1>6, <1>7, <1>8, <1>9, <1>10, <1>11 DEF ThreadsInv

-----------------------------------------------------------------------------
(* The inductive invariant: every reachable state satisfies ThreadsInv.    *)
LEMMA ThreadsSteps ==
  ASSUME Next
  PROVE  \E c \in Caller : StepOf(c)
BY DEF Next, StepOf

LEMMA ThreadsKept ==
  ASSUME ThreadsInv, NEW c \in Caller, StepOf(c)
  PROVE  ThreadsInv'
<1>1. /\ TypeOK /\ RowsStand /\ RequestsFit /\ Overlap
      /\ ChainsStand /\ HomesPersonal /\ LinksPersonal /\ OpenOnce /\ CreatesAlone
      /\ Apart /\ ListedOnce /\ MergesAlone /\ SplitsAlone
  BY DEF ThreadsInv
<1>2. TypeOK'
  <2>1. TableTypes' /\ SideTypes' /\ AskTypes'
    BY <1>1, AskTypesKept, DataTypesKept
  <2> QED BY <2>1 DEF TypeOK, TableTypes, SideTypes, AskTypes
<1>3. RowsStand' /\ RequestsFit' /\ LinksPersonal'
  BY <1>1, RowsStandKept, RequestsFitKept, LinksPersonalKept
<1>4. Overlap' /\ HomesPersonal'
  BY <1>1, OverlapKept, HomesPersonalKept
<1>5. ChainsStand'
  BY <1>1, <1>2, ChainsStandKept
<1>6. OpenOnce' /\ CreatesAlone'
  BY <1>1, OpenOnceKept, CreatesAloneKept
<1>7. Apart' /\ ListedOnce'
  BY <1>1, ApartKept, ListedOnceKept
<1>8. MergesAlone' /\ SplitsAlone'
  BY <1>1, MergesAloneKept, SplitsAloneKept
<1> QED BY <1>2, <1>3, <1>4, <1>5, <1>6, <1>7, <1>8 DEF ThreadsInv

LEMMA ThreadsStutter ==
  ASSUME ThreadsInv, UNCHANGED vars
  PROVE  ThreadsInv'
<1> USE DEF vars, rowVars, sideVars, msgVars, histVars
<1>1. /\ TypeOK /\ RowsStand /\ RequestsFit /\ Overlap
      /\ ChainsStand /\ HomesPersonal /\ LinksPersonal /\ OpenOnce /\ CreatesAlone
      /\ Apart /\ ListedOnce /\ MergesAlone /\ SplitsAlone
  BY DEF ThreadsInv
<1>2. TypeOK' /\ RowsStand'
  BY <1>1 DEF TypeOK, RowsStand, Exists, Made
<1>3. RequestsFit' /\ CreatesAlone'
  BY <1>1 DEF RequestsFit, Fits, Made, CreatesAlone, Candidates
<1>4. Overlap' /\ Apart' /\ ListedOnce'
  BY <1>1 DEF Overlap, Apart, ListedOnce, Of, Busy, Exists
<1>5. ChainsStand'
  BY <1>1 DEF ChainsStand, Of, Busy, Unlinked
<1>6. HomesPersonal' /\ LinksPersonal' /\ OpenOnce'
  BY <1>1 DEF HomesPersonal, LinksPersonal, OpenOnce
<1>7. MergesAlone'
  BY <1>1 DEF MergesAlone, MergeAlone, IsRead, CursorOf
<1>8. ASSUME NEW c \in Caller, SplitAlone(c)
      PROVE  SplitAlone(c)'
  <2>1. /\ Chain(req[c].a)' = Chain(req[c].a) /\ In({req[c].b})' = In({req[c].b})
        /\ In(req[c].chain)' = In(req[c].chain) /\ Ends(req[c].asked)' = Ends(req[c].asked)
        /\ Canonical(req[c].asked)' = Canonical(req[c].asked)
    BY DEF Chain, Ends, Canonical, In
  <2>2. UNCHANGED <<pc, req, mergedInto, home, lastAt>>
    OBVIOUS
  <2> QED BY <1>8, <2>1, <2>2 DEF SplitAlone
<1>9. SplitsAlone'
  BY <1>1, <1>8 DEF SplitsAlone
<1> QED BY <1>2, <1>3, <1>4, <1>5, <1>6, <1>7, <1>9 DEF ThreadsInv

THEOREM ThreadsInductive == Spec => []ThreadsInv
<1>1. Init => ThreadsInv
  BY InitThreads
<1>2. ThreadsInv /\ [Next]_vars => ThreadsInv'
  BY ThreadsSteps, ThreadsKept, ThreadsStutter
<1> QED BY <1>1, <1>2, PTL DEF Spec

(* Every variable keeps its type.                                          *)
THEOREM ThreadsTyped == Spec => []TypeOK
<1>1. ThreadsInv => TypeOK
  BY DEF ThreadsInv
<1> QED BY <1>1, ThreadsInductive, PTL

(* Every chain of merges ends, unless two merges were under way at once:   *)
(* the one that is links two conversations that are both still roots.      *)
THEOREM ConversationChainsEnd == Spec => []ChainsEnd
<1>1. ThreadsInv => ChainsEnd
  <2> SUFFICES ASSUME ThreadsInv, ~crossed, NEW k \in Made
               PROVE  Ends(k)
    BY DEF ChainsEnd, Made
  <2>1. TypeOK /\ Acyclic(mergedInto)
    BY DEF ThreadsInv, ChainsStand
  <2>2. k \in Conv /\ Links(mergedInto) /\ DOMAIN mergedInto = Conv
    BY <2>1, MadeAre, LinksOfConvs
  <2> QED BY <2>1, <2>2, AcyclicEnds DEF Ends
<1> QED BY <1>1, ThreadsInductive, PTL

(* A resident's messages are together, nobody else's are among them, and   *)
(* nobody has a second open conversation that no split, no reopening and   *)
(* no race explains.                                                       *)
THEOREM ThreadsStayPersonal == Spec => []ThreadsArePersonal
<1>1. ThreadsInv => ThreadsArePersonal
  <2> SUFFICES ASSUME ThreadsInv
               PROVE  ThreadsArePersonal
    OBVIOUS
  <2>1. HomesPersonal /\ LinksPersonal /\ OpenOnce
    BY DEF ThreadsInv
  <2>2. ASSUME NEW p \in Person
        PROVE  Cardinality({k \in Conv : status[k] = "open" /\ owner[k] = p} \ excused) <= 1
    <3> DEFINE S == {k \in Conv : status[k] = "open" /\ owner[k] = p} \ excused
    <3>1. \A j, k \in S : j = k
      BY <2>1 DEF OpenOnce
    <3> HIDE DEF S
    <3>2. S = {} \/ \E x : S = {x}
      BY <3>1
    <3>3. Cardinality(S) \in {0, 1}
      BY <3>2, FS_EmptySet, FS_Singleton
    <3> QED BY <3>3 DEF S
  <2> QED BY <2>1, <2>2 DEF ThreadsArePersonal, HomesPersonal, LinksPersonal
<1> QED BY <1>1, ThreadsInductive, PTL

(* Every message is in exactly one thread of the inbox, unless a merge     *)
(* overlapped another merge, a split or a status change.                   *)
THEOREM MessagesShownOnce == Spec => []ShownOnce
<1>1. ThreadsInv => ShownOnce
  <2> SUFFICES ASSUME ThreadsInv, ~raced, NEW h \in {home[t] : t \in Time} \ {Null}
               PROVE  Cardinality({k \in Inbox : h \in Chain(k)}) = 1
    BY DEF ShownOnce
  <2>1. TypeOK /\ RowsStand /\ LinksPersonal /\ ~crossed /\ Acyclic(mergedInto)
    BY DEF ThreadsInv, ChainsStand, Apart
  <2>2. \A k \in Conv : Exists(k) => (status[k] = "merged" <=> mergedInto[k] # Null)
    BY DEF ThreadsInv, ListedOnce
  <2>3. h \in Conv /\ Exists(h)
    BY <2>1 DEF TypeOK, RowsStand
  <2>4. Ends(h)
    BY <2>1, <2>3, LinksOfConvs, AcyclicEnds DEF Ends
  <2> DEFINE r == Canonical(h)
  <2>5. r \in Conv /\ r \in Made /\ Exists(r) /\ h \in Made /\ mergedInto[r] = Null
    BY <2>1, <2>3, <2>4, CanonicalTyped, CanonicalExists, EndsAre
  <2>6. Canonical(r) = r
    BY <2>1, <2>5, RootsResolve
  <2>7. ASSUME NEW k \in Inbox, h \in Chain(k)
        PROVE  k = r
    <3>1. k \in Made /\ k \in Conv /\ mergedInto[k] = Null
      BY <2>1, <2>2, MadeAre DEF Inbox, Made
    <3>2. Canonical(k) = k /\ Canonical(h) = Canonical(k)
      BY <2>1, <2>7, <3>1, RootsResolve, ChainIs
    <3> QED BY <3>2
  <2>8. r \in Inbox
    BY <2>2, <2>5 DEF Inbox, Made
  <2>9. h \in Chain(r)
    BY <2>1, <2>4, <2>5, <2>6, ChainIs
  <2> HIDE DEF r
  <2>10. {k \in Inbox : h \in Chain(k)} = {r}
    BY <2>7, <2>8, <2>9
  <2> QED BY <2>10, FS_Singleton
<1> QED BY <1>1, ThreadsInductive, PTL

(* A merge that nothing overlapped loses nothing of either side.           *)
THEOREM MergesKeepAll == Spec => MergeKeeps
<1> DEFINE Kept(c) ==
      LET b == req[c].b IN
      /\ req[c].found.extras \subseteq extras'[b]
      /\ req[c].found.read => readAt'[b] >= lastAt'[b]
<1>1. ASSUME ThreadsInv, Next, NEW c \in Caller \ met, pc[c] = "marks", pc'[c] = "idle"
      PROVE  Kept(c)
  <2>1. TypeOK /\ RowsStand /\ LinksPersonal /\ RequestsFit /\ MergesAlone
    BY <1>1 DEF ThreadsInv
  <2>2. PICK d \in Caller : StepOf(d)
    BY <1>1, ThreadsSteps
  <2>3. d = c
    BY <1>1, <2>1, <2>2, Flow DEF Goes
  <2>4. MarkTarget(c) \/ MarkSource(c)
    BY <1>1, <2>2, <2>3
       DEF StepOf, Create, Append, Latest, Write, ExtrasRead, ExtrasWrite, InsertTarget, Recheck, Move,
           Remaining, Log, Stamp
  <2>5. /\ req[c].found.extras \subseteq extras[req[c].b]
        /\ req[c].found.read => readAt[req[c].b] >= req[c].at
        /\ "target" \notin req[c].left => lastAt[req[c].b] = req[c].at
        /\ req[c].b \in Conv
    BY <1>1, <2>1, MergesOf, MadeAre DEF MergesAlone, MergeAlone, MergeSteps
  <2>6. CASE MarkTarget(c)
    <3>1. lastAt' = [lastAt EXCEPT ![req[c].b] = req[c].at] /\ UNCHANGED <<extras, readAt>>
      BY <2>1, <2>6, MarkTargetGoes DEF sideVars
    <3>2. lastAt'[req[c].b] = req[c].at
      BY <2>1, <2>5, <3>1 DEF TypeOK
    <3> QED BY <2>5, <3>1, <3>2
  <2>7. CASE MarkSource(c)
    <3>1. UNCHANGED <<extras, readAt, lastAt>> /\ req[c].left = {"source"}
      BY <1>1, <2>1, <2>7, MarkSourceGoes DEF sideVars, Goes
    <3> QED BY <2>5, <3>1
  <2> QED BY <2>4, <2>6, <2>7
<1> DEFINE Keeps == \A c \in Caller \ met : Merging(c) /\ pc[c] = "marks" /\ pc'[c] = "idle" => Kept(c)
<1>2. ASSUME ThreadsInv, [Next]_vars
      PROVE  [Keeps]_vars
  <2> HIDE DEF Kept
  <2> QED BY <1>1, <1>2
<1> QED BY <1>2, ThreadsInductive, PTL DEF Spec, MergeKeeps

(* A split that nothing overlapped cuts the thread at the message.         *)
THEOREM SplitsCutThere == Spec => SplitCuts
<1> DEFINE Cut(c) ==
      LET r == req[c] IN
      /\ \A t \in In(Chain(r.a)) : t < r.msg
      /\ In({r.b}) # {} /\ \A t \in In({r.b}) : t >= r.msg
      /\ lastAt[r.b] = Max(In({r.b}))
      /\ lastAt[r.a] = Newest(In(Chain(r.a)), 0)
<1>1. ASSUME ThreadsInv, NEW c \in Caller \ met, Log(c)
      PROVE  Cut(c)
  <2>1. TypeOK /\ RequestsFit /\ pc[c] = "log" /\ SplitAlone(c)
    BY <1>1 DEF ThreadsInv, SplitsAlone, SplitSteps, TargetSteps, Log
  <2>2. req[c].chain = Chain(req[c].a)
    BY <2>1, SplitParts DEF TargetSteps
  <2>3. /\ \A t \in In(req[c].chain) : t < req[c].msg
        /\ req[c].msg \in In({req[c].b}) /\ \A t \in In({req[c].b}) : t >= req[c].msg
        /\ req[c].at = Max(In({req[c].b})) /\ req[c].cursor = Newest(In(req[c].chain), 0)
        /\ lastAt[req[c].a] = req[c].cursor /\ lastAt[req[c].b] = req[c].at
    BY <2>1 DEF SplitAlone
  <2> QED BY <2>2, <2>3
<1> DEFINE Cuts == \A c \in Caller \ met : Log(c) => Cut(c)
<1>2. ASSUME ThreadsInv, [Next]_vars
      PROVE  [Cuts]_vars
  <2> HIDE DEF Cut
  <2> QED BY <1>1, <1>2
<1> QED BY <1>2, ThreadsInductive, PTL DEF Spec, SplitCuts
=============================================================================
