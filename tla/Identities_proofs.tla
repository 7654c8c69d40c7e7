-------------------------- MODULE Identities_proofs --------------------------
(* Theorems about Identities, for any number of callers, contacts, rows    *)
(* and requests.                                                           *)
EXTENDS Identities, MergeChains_proofs

-----------------------------------------------------------------------------
(* What a request holds at each of its steps.                              *)

WithRow == {"mergeKeep", "mergeAway", "mark", "reread", "fill", "collide", "apply", "canonical",
            "write"}

HoldsRows ==
  \A c \in Caller :
    /\ pc[c] \in WithRow => have[c].id \in Row
    /\ pc[c] \in {"mergeKeep", "mergeAway", "mark"} => other[c] \in Row
    /\ pc[c] \in {"mergeAway", "mark"} => keep[c] \in Row

(* The steps of each kind of request.                                      *)
StepsFit ==
  \A c \in Caller :
    /\ pc[c] # "idle" => ask[c] \in Asks /\ answer[c] = NoRow
    /\ ask[c].kind = "find" => pc[c] \notin {"locate", "collide", "apply", "canonical", "write", "scrub"}
    /\ pc[c] = "write" => ask[c].kind = "convert"

(* Requests in flight together have met.                                   *)
Overlap == \A c, d \in Busy : c # d => c \in met

ErasedAreRows ==
  /\ erased \subseteq Rows
  /\ \A c \in Caller : picked[c] \subseteq Rows

-----------------------------------------------------------------------------
(* Chains end: until two merges are under way at once, the one that is has *)
(* two rows that are merged into nothing.                                  *)
Merges(c) == pc[c] \in {"mergeAway", "mark"}

ChainsStand ==
  ~crossed =>
    /\ Acyclic(mergedInto)
    /\ \A c, d \in Caller : Merges(c) /\ Merges(d) => c = d
    /\ \A c \in Caller : Merges(c) => mergedInto[keep[c]] = NoRow
    /\ \A c \in Caller : pc[c] = "mark" => other[c] # keep[c] /\ mergedInto[other[c]] = NoRow

(* What the requests in flight hold, and what that is merged into, is      *)
(* clear of the rows anonymized while nothing else was under way.          *)
Clear(T) ==
  /\ T \cap (erased \ hurried) = {}
  /\ \A r \in T : mergedInto[r] # NoRow => mergedInto[r] \in T
  /\ \A c \in Caller : pc[c] \notin {"idle", "write"} =>
       /\ have[c].id # NoRow => have[c].id \in T
       /\ pc[c] \in {"mergeKeep", "mergeAway", "mark"} => other[c] \in T
       /\ pc[c] \in {"mergeAway", "mark"} => keep[c] \in T

HeldAreClear == \E T \in SUBSET Row : Clear(T)

(* The unique indexes hold.                                                *)
Unique ==
  \A r, s \in Rows : r # s =>
    /\ mergedInto[r] = NoRow /\ mergedInto[s] = NoRow =>
         /\ contact[r].phone # NoValue => contact[r].phone # contact[s].phone
         /\ contact[r].email \notin {NoValue, Placeholder} => contact[r].email # contact[s].email
    /\ contact[r].resident # NoValue => contact[r].resident # contact[s].resident

(* An anonymizer that is alone has picked what it will match.              *)
PickedAll ==
  \A c \in Caller \ met :
    pc[c] = "scrub" => /\ picked[c] = Selected(ask[c].old)
                       /\ \A r \in Matching(ask[c].old) : Ends(r)

-----------------------------------------------------------------------------
(* A find that is alone.                                                   *)
Found(c, f) == Find(f, ask[c].new[f])

Bears(c, r) ==
  \E f \in {"phone", "email"} : ask[c].new[f] # NoValue /\ contact[r][f] = ask[c].new[f]

MineAlone(c, r) == Found(c, "phone") \subseteq {r} /\ Found(c, "email") \subseteq {r}

(* Why it may throw.                                                       *)
Thwarted(c) ==
  \/ \E s \in Rows : /\ s # have[c].id
                     /\ ask[c].new.resident # NoValue /\ contact[s].resident = ask[c].new.resident
  \/ \E s \in erased, f \in {"phone", "email"} :
        ask[c].new[f] # NoValue /\ contact[s][f] = ask[c].new[f]

ByPhone(c) == have[c].id \in Found(c, "phone") /\ have[c].contact = contact[have[c].id]

FindAlone(c) ==
  /\ pc[c] = "lookPhone" => have[c] = Nothing
  /\ pc[c] = "lookEmail" =>
       \/ have[c].id = NoRow /\ Found(c, "phone") = {}
       \/ ByPhone(c)
  /\ pc[c] \in {"mergeKeep", "mergeAway", "mark"} =>
       /\ ByPhone(c)
       /\ other[c] \in Found(c, "email") \ {have[c].id}
       /\ pc[c] # "mergeKeep" => keep[c] = have[c].id
  /\ pc[c] = "reread" => ByPhone(c) /\ MineAlone(c, have[c].id)
  /\ pc[c] = "fill" =>
       /\ have[c].id \in Rows /\ mergedInto[have[c].id] = NoRow
       /\ have[c].contact = contact[have[c].id]
       /\ Bears(c, have[c].id) /\ MineAlone(c, have[c].id)
  /\ pc[c] \in {"insert", "winner"} =>
       /\ have[c].id = NoRow
       /\ Found(c, "phone") = {} /\ Found(c, "email") = {}
  /\ pc[c] = "winner" => Thwarted(c)

FindsAlone == \A c \in Caller \ met : pc[c] # "idle" /\ ask[c].kind = "find" => FindAlone(c)

PeopleInv ==
  /\ TypeOK /\ HoldsRows /\ StepsFit /\ Overlap /\ ErasedAreRows
  /\ ChainsStand /\ HeldAreClear /\ Unique /\ PickedAll /\ FindsAlone

-----------------------------------------------------------------------------
(* The rows.                                                               *)
LEMMA RowsAre ==
  /\ NoRow \notin Row /\ IsFiniteSet(Row) /\ NoRow = 0 /\ Thrown \notin Row \cup {NoRow}
  /\ \A r \in Row : r \in Nat
BY BoundsAssumption, FS_Interval DEF Row, NoRow, Thrown

LEMMA LinksOfRows ==
  ASSUME NEW into \in [Row -> Row \cup {NoRow}]
  PROVE  Links(into) /\ DOMAIN into = Row
BY RowsAre DEF Links

LEMMA CanonicalTyped ==
  ASSUME TypeOK, NEW r \in Row
  PROVE  Canonical(r) \in Row
<1>1. Links(mergedInto) /\ DOMAIN mergedInto = Row
  BY LinksOfRows DEF TypeOK
<1> QED BY <1>1, RootTyped DEF Canonical

LEMMA NobodyTyped ==
  /\ Nobody \in Contacts /\ Nothing \in [id: Row \cup {NoRow}, contact: Contacts]
  /\ Nothing.id = NoRow /\ Nothing.contact = Nobody
  /\ [Nobody EXCEPT !.email = Placeholder] \in Contacts
BY DEF Nobody, Nothing, Contacts

LEMMA ReadTyped ==
  ASSUME TypeOK, NEW r \in Row
  PROVE  /\ Read(r) \in [id: Row \cup {NoRow}, contact: Contacts]
         /\ Read(r).id = r /\ Read(r).contact = contact[r]
BY DEF TypeOK, Read

LEMMA RowsTyped ==
  ASSUME TypeOK
  PROVE  Rows \subseteq Row /\ rows \in Nat /\ rows + 1 \notin Rows
BY BoundsAssumption DEF TypeOK, Rows, Row

LEMMA FindTyped ==
  ASSUME TypeOK, NEW f, NEW v
  PROVE  Find(f, v) \subseteq Row /\ Find(f, v) \subseteq Rows
BY RowsTyped DEF Find

-----------------------------------------------------------------------------
(* A step of one request.                                                  *)
StepOf(c) ==
  \/ \E a \in Asks : Begin(c, a) \/ BeginConvert(c, a)
  \/ LookPhone(c) \/ LookEmail(c) \/ MergeKeep(c) \/ MergeAway(c) \/ Mark(c) \/ Reread(c)
  \/ FillColumn(c) \/ AnswerCanonical(c) \/ Insert(c) \/ Winner(c)
  \/ Locate(c) \/ Collide(c) \/ Apply(c) \/ Write(c) \/ Scrub(c)

(* It leaves the other requests where they are.                            *)
OthersStay(c) ==
  \A d \in Caller \ {c} :
    /\ pc'[d] = pc[d] /\ ask'[d] = ask[d] /\ have'[d] = have[d] /\ other'[d] = other[d]
    /\ keep'[d] = keep[d] /\ picked'[d] = picked[d] /\ answer'[d] = answer[d]

LEMMA Others ==
  ASSUME TypeOK, NEW c \in Caller, StepOf(c)
  PROVE  OthersStay(c)
<1> USE DEF mergeVars, renameVars, Goto, Leave, Throw, Arrive
<1>1. ASSUME NEW a, Begin(c, a) \/ BeginConvert(c, a)
      PROVE  OthersStay(c)
  BY <1>1 DEF TypeOK, OthersStay, Begin, BeginConvert
<1>2. CASE LookPhone(c) \/ LookEmail(c)
  BY <1>2 DEF TypeOK, OthersStay, LookPhone, LookEmail
<1>3. CASE MergeKeep(c) \/ MergeAway(c) \/ Mark(c) \/ Reread(c)
  BY <1>3 DEF TypeOK, OthersStay, MergeKeep, MergeAway, Mark, Reread
<1>4. CASE FillColumn(c)
  BY <1>4 DEF TypeOK, OthersStay, FillColumn
<1>5. CASE AnswerCanonical(c) \/ Insert(c) \/ Winner(c)
  BY <1>5 DEF TypeOK, OthersStay, AnswerCanonical, Insert, Winner
<1>6. CASE Locate(c)
  BY <1>6 DEF TypeOK, OthersStay, Locate
<1>7. CASE Collide(c)
  BY <1>7 DEF TypeOK, OthersStay, Collide
<1>8. CASE Apply(c) \/ Write(c) \/ Scrub(c)
  BY <1>8 DEF TypeOK, OthersStay, Apply, Write, Scrub
<1> QED BY <1>1, <1>2, <1>3, <1>4, <1>5, <1>6, <1>7, <1>8 DEF StepOf

-----------------------------------------------------------------------------
(* Types.                                                                  *)
TableTypes ==
  /\ rows \in 0..MaxRows
  /\ contact \in [Row -> Contacts]
  /\ anonymous \in SUBSET Row
  /\ mergedInto \in [Row -> Row \cup {NoRow}]
  /\ erased \in SUBSET Row

LocalTypes ==
  /\ pc \in [Caller -> Steps]
  /\ ask \in [Caller -> Request]
  /\ have \in [Caller -> [id: Row \cup {NoRow}, contact: Contacts]]
  /\ other \in [Caller -> Row \cup {NoRow}]
  /\ keep \in [Caller -> Row \cup {NoRow}]
  /\ todo \in [Caller -> SUBSET {"phone", "email"}]
  /\ carried \in [Caller -> Contacts]
  /\ picked \in [Caller -> SUBSET Row]
  /\ answer \in [Caller -> Row \cup {NoRow, Thrown}]

HistTypes ==
  /\ met \in SUBSET Caller
  /\ hurried \in SUBSET Row
  /\ crossed \in BOOLEAN
  /\ calls \in 0..MaxCalls

LEMMA TypesSplit == TypeOK <=> TableTypes /\ LocalTypes /\ HistTypes
BY DEF TypeOK, TableTypes, LocalTypes, HistTypes

(* One column of a contact is set to that of another.                      *)
Columns == {"phone", "email", "resident"}

LEMMA ColumnSet ==
  ASSUME NEW q \in Contacts, NEW p \in Contacts, NEW f \in Columns
  PROVE  LET n == [q EXCEPT ![f] = p[f]] IN
         /\ n \in Contacts
         /\ n[f] = p[f]
         /\ \A g \in Columns \ {f} : n[g] = q[g]
<1>1. CASE f = "phone"
  BY <1>1 DEF Contacts, Columns
<1>2. CASE f = "email"
  BY <1>2 DEF Contacts, Columns
<1>3. CASE f = "resident"
  BY <1>3 DEF Contacts, Columns
<1> QED BY <1>1, <1>2, <1>3 DEF Columns

LEMMA ColumnsAre ==
  ASSUME NEW q \in Contacts
  PROVE  /\ q["phone"] = q.phone /\ q["email"] = q.email /\ q["resident"] = q.resident
         /\ q = [phone |-> q.phone, email |-> q.email, resident |-> q.resident]
         /\ q.phone \in Phone \cup {NoValue} /\ q.email \in Email \cup {NoValue, Placeholder}
         /\ q.resident \in Resident \cup {NoValue}
BY DEF Contacts

LEMMA AsksTyped ==
  ASSUME NEW a \in Asks
  PROVE  /\ a \in Request /\ a.new \in Contacts /\ a.old \in Contacts /\ a.kind \in Kinds
         /\ Entry(a.kind) \in Steps
BY AsksAssumption DEF Request, Kinds, Entry, Steps

LEMMA PickedTyped ==
  ASSUME TypeOK, NEW who
  PROVE  Selected(who) \in SUBSET Row /\ Selected(who) \subseteq Rows
BY RowsTyped DEF Selected, Chain

(* The requests' part.                                                     *)
LEMMA LocalTypesKept ==
  ASSUME TypeOK, HoldsRows, NEW c \in Caller, StepOf(c)
  PROVE  LocalTypes'
<1> USE RowsAre, FindTyped DEF mergeVars, renameVars
<1>1. LocalTypes
  BY TypesSplit
<1>2. ASSUME NEW a \in Asks, Arrive(c, a)
      PROVE  /\ pc' \in [Caller -> Steps] /\ ask' \in [Caller -> Request]
             /\ answer' \in [Caller -> Row \cup {NoRow, Thrown}]
             /\ UNCHANGED <<other, keep, todo, carried>>
  BY <1>1, <1>2, AsksTyped DEF LocalTypes, Arrive
<1>3. ASSUME NEW a \in Asks, Begin(c, a)
      PROVE  LocalTypes'
  <2>1. have' \in [Caller -> [id: Row \cup {NoRow}, contact: Contacts]]
    BY <1>1, <1>3, NobodyTyped DEF LocalTypes, Begin
  <2>2. picked' \in [Caller -> SUBSET Row]
    BY <1>1, <1>3, PickedTyped DEF LocalTypes, Begin
  <2> QED BY <1>1, <1>2, <1>3, <2>1, <2>2 DEF LocalTypes, Begin
<1>4. ASSUME NEW a \in Asks, BeginConvert(c, a)
      PROVE  LocalTypes'
  <2>1. \A r \in Pinnable : r \in Row /\ Read(r) \in [id: Row \cup {NoRow}, contact: Contacts]
    BY RowsTyped, ReadTyped DEF Pinnable
  <2>2. have' \in [Caller -> [id: Row \cup {NoRow}, contact: Contacts]]
    BY <1>1, <1>4, <2>1 DEF LocalTypes, BeginConvert
  <2>3. picked' \in [Caller -> SUBSET Row]
    BY <1>1, <1>4 DEF LocalTypes, BeginConvert
  <2> QED BY <1>1, <1>2, <1>4, <2>2, <2>3 DEF LocalTypes, BeginConvert
<1>5. ASSUME NEW s \in Steps, Goto(c, s)
      PROVE  /\ pc' \in [Caller -> Steps] /\ answer' \in [Caller -> Row \cup {NoRow, Thrown}]
  BY <1>1, <1>5 DEF LocalTypes, Goto
<1>6. ASSUME NEW a \in Row \cup {NoRow, Thrown}, Leave(c, a)
      PROVE  /\ pc' \in [Caller -> Steps] /\ answer' \in [Caller -> Row \cup {NoRow, Thrown}]
  BY <1>1, <1>6 DEF LocalTypes, Leave, Steps
<1>7. \A r \in Row : Read(r) \in [id: Row \cup {NoRow}, contact: Contacts]
  BY ReadTyped
<1>8. CASE LookPhone(c)
  <2>1. have' \in [Caller -> [id: Row \cup {NoRow}, contact: Contacts]]
    BY <1>1, <1>7, <1>8 DEF LocalTypes, LookPhone
  <2> QED BY <1>1, <1>5, <1>8, <2>1 DEF LocalTypes, LookPhone, Steps
<1>9. CASE LookEmail(c)
  <2>1. ByEmail(c) \subseteq Row
    BY DEF ByEmail
  <2>4. have' = have \/ \E r \in Row : have' = [have EXCEPT ![c] = Read(r)]
    BY <1>9, <2>1 DEF LookEmail
  <2>5. other' = other \/ \E r \in Row : other' = [other EXCEPT ![c] = r]
    BY <1>9, <2>1 DEF LookEmail
  <2>2. /\ have' \in [Caller -> [id: Row \cup {NoRow}, contact: Contacts]]
        /\ other' \in [Caller -> Row \cup {NoRow}]
    <3>1. have' \in [Caller -> [id: Row \cup {NoRow}, contact: Contacts]]
      <4> DEFINE S == [id: Row \cup {NoRow}, contact: Contacts]
      <4>1. have \in [Caller -> S] /\ \A r \in Row : Read(r) \in S
        BY <1>1, <1>7 DEF LocalTypes
      <4> HIDE DEF S
      <4>2. have' \in [Caller -> S]
        BY <4>1, <2>4
      <4> QED BY <4>2 DEF S
    <3>2. other' \in [Caller -> Row \cup {NoRow}]
      BY <1>1, <2>5 DEF LocalTypes
    <3> QED BY <3>1, <3>2
  <2>3. \E s \in Steps : Goto(c, s)
    BY <1>9 DEF LookEmail, Steps
  <2> QED BY <1>1, <1>5, <1>9, <2>2, <2>3 DEF LocalTypes, LookEmail
<1>10. CASE MergeKeep(c)
  <2>1. have[c].id \in Row
    BY <1>10 DEF MergeKeep, HoldsRows, WithRow
  <2>2. KeepOf(c) \in Row
    BY <2>1, CanonicalTyped DEF KeepOf
  <2> QED BY <1>1, <1>5, <1>10, <2>2 DEF LocalTypes, MergeKeep, Steps
<1>11. CASE MergeAway(c)
  <2>1. Canonical(other[c]) \in Row
    BY <1>11, CanonicalTyped DEF MergeAway, HoldsRows
  <2>2. other' \in [Caller -> Row \cup {NoRow}]
    BY <1>1, <1>11, <2>1 DEF LocalTypes, MergeAway
  <2>3. \E s \in Steps : Goto(c, s)
    BY <1>11 DEF MergeAway, Steps
  <2> QED BY <1>1, <1>5, <1>11, <2>2, <2>3 DEF LocalTypes, MergeAway
<1>12. CASE Mark(c)
  BY <1>1, <1>5, <1>12 DEF LocalTypes, Mark, Steps
<1>13. CASE Reread(c)
  <2>1. Canonical(have[c].id) \in Row
    BY <1>13, CanonicalTyped DEF Reread, HoldsRows, WithRow
  <2>2. have' \in [Caller -> [id: Row \cup {NoRow}, contact: Contacts]]
    BY <1>1, <1>7, <1>13, <2>1 DEF LocalTypes, Reread
  <2>3. \E s \in Steps : Goto(c, s)
    BY <1>13 DEF Reread, Steps
  <2> QED BY <1>1, <1>5, <1>13, <2>2, <2>3 DEF LocalTypes, Reread
<1>14. CASE FillColumn(c)
  <2> DEFINE f == NextColumn(Lacking(c))
  <2>1. f \in Columns /\ ask[c].new \in Contacts /\ have[c].contact \in Contacts
    BY <1>1 DEF NextColumn, Columns, LocalTypes, Request
  <2>2. [have[c].contact EXCEPT ![f] = ask[c].new[f]] \in Contacts
    BY <2>1, ColumnSet
  <2> DEFINE n == [have[c].contact EXCEPT ![f] = ask[c].new[f]]
  <2>3. have' = have \/ have' = [have EXCEPT ![c] = [have[c] EXCEPT !.contact = n]]
    BY <1>14 DEF FillColumn
  <2>4. have' \in [Caller -> [id: Row \cup {NoRow}, contact: Contacts]]
    <3> HIDE DEF n
    <3>1. [have[c] EXCEPT !.contact = n] \in [id: Row \cup {NoRow}, contact: Contacts]
      BY <1>1, <2>2 DEF LocalTypes, n
    <3> QED BY <1>1, <2>3, <3>1 DEF LocalTypes
  <2>5. Throw(c) \/ Goto(c, "fill")
    BY <1>14 DEF FillColumn
  <2>6. UNCHANGED <<ask, other, keep, todo, carried, picked>>
    BY <1>14 DEF FillColumn
  <2> QED BY <1>1, <1>5, <1>6, <2>4, <2>5, <2>6 DEF LocalTypes, Throw, Steps
<1>15. CASE AnswerCanonical(c)
  BY <1>1, <1>6, <1>15, CanonicalTyped DEF LocalTypes, AnswerCanonical, HoldsRows, WithRow
<1>16. CASE Insert(c)
  <2>1. rows + 1 \in Row
    BY <1>16, BoundsAssumption DEF Insert, TypeOK, Row
  <2>2. Leave(c, rows + 1) \/ Goto(c, "winner")
    BY <1>16 DEF Insert
  <2> QED BY <1>1, <1>5, <1>6, <1>16, <2>1, <2>2 DEF LocalTypes, Insert, Steps
<1>17. CASE Winner(c)
  <2>1. \E a \in Row \cup {NoRow, Thrown} : Leave(c, a)
    BY <1>17 DEF Winner, Throw
  <2> QED BY <1>1, <1>6, <1>17, <2>1 DEF LocalTypes, Winner
<1>18. CASE Locate(c)
  <2>1. Located(c) \subseteq Row
    BY DEF Located
  <2>2. have' \in [Caller -> [id: Row \cup {NoRow}, contact: Contacts]]
    BY <1>1, <1>7, <1>18, <2>1 DEF LocalTypes, Locate
  <2>3. todo' \in [Caller -> SUBSET {"phone", "email"}] /\ carried' \in [Caller -> Contacts]
    BY <1>1, <1>18, NobodyTyped DEF LocalTypes, Locate
  <2>4. (\E a \in Row \cup {NoRow, Thrown} : Leave(c, a)) \/ (\E s \in Steps : Goto(c, s))
    BY <1>18, <2>1 DEF Locate, Steps
  <2> QED BY <1>1, <1>5, <1>6, <1>18, <2>2, <2>3, <2>4 DEF LocalTypes, Locate
<1>19. CASE Collide(c)
  <2> DEFINE f == IF "email" \in todo[c] THEN "email" ELSE "phone"
             kept == IF f = "email" THEN "phone" ELSE "email"
             held == Find(f, ask[c].new[f]) \ {have[c].id}
  <2>1. held \subseteq Row /\ kept \in Columns
    BY DEF Columns
  <2>2. \E s \in Steps : Goto(c, s)
    BY <1>19 DEF Collide, Steps
  <2>3. \/ UNCHANGED <<other, todo, carried>>
        \/ /\ todo' = [todo EXCEPT ![c] = @ \ {f}]
           /\ UNCHANGED <<other, carried>>
        \/ /\ todo' = [todo EXCEPT ![c] = @ \ {f}]
           /\ \E r \in held : /\ other' = [other EXCEPT ![c] = r]
                              /\ carried' = [carried EXCEPT ![c] =
                                               [carried[c] EXCEPT ![kept] = contact[r][kept]]]
    BY <1>19 DEF Collide
  <2>4. \A r \in Row : [carried[c] EXCEPT ![kept] = contact[r][kept]] \in Contacts
    <3>1. \A r \in Row : carried[c] \in Contacts /\ contact[r] \in Contacts
      BY <1>1 DEF LocalTypes, TypeOK
    <3> HIDE DEF kept
    <3> QED BY <2>1, <3>1, ColumnSet
  <2> DEFINE n(r) == [carried[c] EXCEPT ![kept] = contact[r][kept]]
  <2>7. carried' = carried \/ \E r \in Row : carried' = [carried EXCEPT ![c] = n(r)]
    BY <2>1, <2>3
  <2>8. other' = other \/ \E r \in Row : other' = [other EXCEPT ![c] = r]
    BY <2>1, <2>3
  <2>9. todo' = todo \/ todo' = [todo EXCEPT ![c] = @ \ {f}]
    BY <2>3
  <2> HIDE DEF f, kept, held, n
  <2>5. /\ todo' \in [Caller -> SUBSET {"phone", "email"}] /\ carried' \in [Caller -> Contacts]
        /\ other' \in [Caller -> Row \cup {NoRow}]
    <3>1. \A r \in Row : n(r) \in Contacts
      BY <2>4 DEF n
    <3>2. carried' \in [Caller -> Contacts]
      BY <1>1, <2>7, <3>1 DEF LocalTypes
    <3>3. other' \in [Caller -> Row \cup {NoRow}]
      BY <1>1, <2>8 DEF LocalTypes
    <3>4. todo' \in [Caller -> SUBSET {"phone", "email"}]
      BY <1>1, <2>9 DEF LocalTypes
    <3> QED BY <3>2, <3>3, <3>4
  <2>6. UNCHANGED <<ask, have, keep, picked>>
    BY <1>19 DEF Collide
  <2> QED BY <1>1, <1>5, <2>2, <2>5, <2>6 DEF LocalTypes
<1>20. CASE Apply(c)
  <2>1. Throw(c) \/ Goto(c, "canonical")
    BY <1>20 DEF Apply
  <2> QED BY <1>1, <1>5, <1>6, <1>20, <2>1 DEF LocalTypes, Apply, Throw, Steps
<1>21. CASE Write(c)
  <2>1. Throw(c) \/ Leave(c, have[c].id)
    BY <1>21 DEF Write
  <2> QED BY <1>1, <1>6, <1>21, <2>1 DEF LocalTypes, Write, Throw
<1>22. CASE Scrub(c)
  BY <1>1, <1>6, <1>22 DEF LocalTypes, Scrub
<1> QED BY <1>3, <1>4, <1>8, <1>9, <1>10, <1>11, <1>12, <1>13, <1>14, <1>15, <1>16, <1>17, <1>18,
           <1>19, <1>20, <1>21, <1>22 DEF StepOf

-----------------------------------------------------------------------------
(* What a step does to the table: nothing, or one of four things.          *)
Rewrites(c) ==
  /\ pc[c] \in {"fill", "apply", "write"} /\ have[c].id \in Row
  /\ \E n \in Contacts :
       /\ contact' = [contact EXCEPT ![have[c].id] = n]
       /\ Collides(have[c].id, n) = {}
  /\ anonymous' \in {anonymous, anonymous \ {have[c].id}}
  /\ UNCHANGED <<rows, mergedInto, erased>>

Adds(c) ==
  /\ pc[c] = "insert" /\ rows < MaxRows
  /\ rows' = rows + 1
  /\ contact' = [contact EXCEPT ![rows + 1] = ask[c].new]
  /\ Collides(rows + 1, ask[c].new) = {}
  /\ anonymous' \in {anonymous, anonymous \cup {rows + 1}}
  /\ UNCHANGED <<mergedInto, erased>>

LEMMA TableMoves ==
  ASSUME TypeOK, HoldsRows, NEW c \in Caller, StepOf(c)
  PROVE  \/ UNCHANGED tableVars
         \/ Mark(c)
         \/ Rewrites(c) /\ UNCHANGED <<hurried, crossed, met>>
         \/ Adds(c) /\ UNCHANGED <<hurried, crossed, met>>
         \/ Scrub(c)
<1> DEFINE Goal == \/ UNCHANGED tableVars
                   \/ Mark(c)
                   \/ Rewrites(c) /\ UNCHANGED <<hurried, crossed, met>>
                   \/ Adds(c) /\ UNCHANGED <<hurried, crossed, met>>
                   \/ Scrub(c)
<1> USE DEF tableVars
<1>1. ASSUME NEW a, Begin(c, a) \/ BeginConvert(c, a)
      PROVE  UNCHANGED tableVars
  BY <1>1 DEF Begin, BeginConvert, Arrive
<1>2. CASE LookPhone(c) \/ LookEmail(c) \/ MergeKeep(c) \/ MergeAway(c) \/ Reread(c)
           \/ AnswerCanonical(c) \/ Winner(c) \/ Locate(c) \/ Collide(c)
  BY <1>2 DEF LookPhone, LookEmail, MergeKeep, MergeAway, Reread, AnswerCanonical, Winner, Locate, Collide
<1>3. ask[c].new \in Contacts /\ have[c].contact \in Contacts /\ carried[c] \in Contacts
  BY DEF TypeOK, Request
<1>4. CASE FillColumn(c)
  <2>1. have[c].id \in Row /\ pc[c] = "fill"
    BY <1>4 DEF FillColumn, HoldsRows, WithRow
  <2> DEFINE r == have[c].id
             f == NextColumn(Lacking(c))
             n == [contact[r] EXCEPT ![f] = ask[c].new[f]]
  <2>2. n \in Contacts
    <3>1. f \in Columns /\ contact[r] \in Contacts
      BY <2>1 DEF NextColumn, Columns, TypeOK
    <3> QED BY <1>3, <3>1, ColumnSet
  <2>3. /\ \/ contact' = contact
           \/ ~Refused(r, n, r \in anonymous) /\ contact' = [contact EXCEPT ![r] = n]
        /\ UNCHANGED <<rows, anonymous, mergedInto, erased, hurried, crossed, met>>
    BY <1>4 DEF FillColumn
  <2> HIDE DEF n
  <2> QED BY <2>1, <2>2, <2>3 DEF Refused, Rewrites
<1>5. CASE Apply(c)
  <2>1. have[c].id \in Row /\ pc[c] = "apply"
    BY <1>5 DEF Apply, HoldsRows, WithRow
  <2> DEFINE r == have[c].id
             n == [contact[r] EXCEPT
                    !.phone = IF Final(c, "phone") = have[c].contact.phone THEN @ ELSE Final(c, "phone"),
                    !.email = IF Final(c, "email") = have[c].contact.email THEN @ ELSE Final(c, "email")]
  <2>2. n \in Contacts
    <3>1. Final(c, "phone") \in Phone \cup {NoValue} /\ Final(c, "email") \in Email \cup {NoValue, Placeholder}
      BY <1>3, ColumnsAre DEF Final
    <3>2. contact[r] \in Contacts
      BY <2>1 DEF TypeOK
    <3> QED BY <3>1, <3>2 DEF Contacts
  <2>3. /\ \/ contact' = contact
           \/ ~Refused(r, n, r \in anonymous) /\ contact' = [contact EXCEPT ![r] = n]
        /\ UNCHANGED <<rows, anonymous, mergedInto, erased, hurried, crossed, met>>
    BY <1>5 DEF Apply
  <2> HIDE DEF n
  <2> QED BY <2>1, <2>2, <2>3 DEF Refused, Rewrites
<1>6. CASE Write(c)
  <2>1. have[c].id \in Row /\ pc[c] = "write"
    BY <1>6 DEF Write, HoldsRows, WithRow
  <2> DEFINE r == have[c].id
             own == have[c].contact
             given == ask[c].new
             n == [contact[r] EXCEPT
                    !.phone = IF given.phone # NoValue THEN given.phone ELSE own.phone,
                    !.email = IF given.email # NoValue THEN given.email ELSE own.email]
  <2>2. n \in Contacts
    <3>1. contact[r] \in Contacts
      BY <2>1 DEF TypeOK
    <3> QED BY <1>3, <3>1 DEF Contacts
  <2>3. /\ \/ UNCHANGED <<contact, anonymous>>
           \/ /\ ~Refused(r, n, FALSE) /\ contact' = [contact EXCEPT ![r] = n]
              /\ anonymous' = anonymous \ {r}
        /\ UNCHANGED <<rows, mergedInto, erased, hurried, crossed, met>>
    BY <1>6 DEF Write
  <2> HIDE DEF n
  <2> QED BY <2>1, <2>2, <2>3 DEF Refused, Rewrites
<1>7. CASE Insert(c)
  BY <1>7 DEF Insert, Adds
<1> QED BY <1>1, <1>2, <1>4, <1>5, <1>6, <1>7 DEF StepOf

LEMMA TableTypesKept ==
  ASSUME TypeOK, HoldsRows, NEW c \in Caller, StepOf(c)
  PROVE  TableTypes'
<1>1. TableTypes
  BY TypesSplit
<1>2. CASE UNCHANGED tableVars
  BY <1>1, <1>2 DEF tableVars, TableTypes
<1>3. CASE Mark(c)
  BY <1>1, <1>3 DEF Mark, TableTypes, HoldsRows
<1>4. CASE Rewrites(c)
  BY <1>1, <1>4 DEF Rewrites, TableTypes
<1>5. CASE Adds(c)
  <2>1. rows + 1 \in Row /\ rows + 1 \in 0..MaxRows
    BY <1>1, <1>5, BoundsAssumption DEF Adds, TableTypes, Row
  <2>2. ask[c].new \in Contacts
    BY DEF TypeOK, Request
  <2> QED BY <1>1, <1>5, <2>1, <2>2 DEF Adds, TableTypes
<1>6. CASE Scrub(c)
  BY <1>1, <1>6, NobodyTyped DEF Scrub, TableTypes, TypeOK
<1> QED BY <1>2, <1>3, <1>4, <1>5, <1>6, TableMoves

LEMMA HistTypesKept ==
  ASSUME TypeOK, NEW c \in Caller, StepOf(c)
  PROVE  HistTypes'
<1>1. HistTypes
  BY TypesSplit
<1>2. ASSUME NEW a \in Asks, Begin(c, a) \/ BeginConvert(c, a)
      PROVE  HistTypes'
  BY <1>1, <1>2, BoundsAssumption DEF HistTypes, Begin, BeginConvert, Arrive, Busy
<1>3. CASE MergeKeep(c)
  BY <1>1, <1>3 DEF HistTypes, MergeKeep
<1>4. CASE Scrub(c)
  BY <1>1, <1>4 DEF HistTypes, Scrub, TypeOK
<1>5. CASE LookPhone(c) \/ LookEmail(c) \/ MergeAway(c) \/ Mark(c) \/ Reread(c)
           \/ AnswerCanonical(c) \/ Winner(c) \/ Locate(c) \/ Collide(c)
  BY <1>1, <1>5
     DEF HistTypes, LookPhone, LookEmail, MergeAway, Mark, Reread, AnswerCanonical, Winner, Locate, Collide
<1>6. CASE FillColumn(c) \/ Insert(c) \/ Apply(c) \/ Write(c)
  BY <1>1, <1>6 DEF HistTypes, FillColumn, Insert, Apply, Write
<1> QED BY <1>2, <1>3, <1>4, <1>5, <1>6 DEF StepOf

-----------------------------------------------------------------------------
(* The plain parts of the invariant.                                       *)
LEMMA HoldsRowsKept ==
  ASSUME TypeOK, HoldsRows, NEW c \in Caller, StepOf(c)
  PROVE  HoldsRows'
<1> DEFINE Fine == /\ pc'[c] \in WithRow => have'[c].id \in Row
                   /\ pc'[c] \in {"mergeKeep", "mergeAway", "mark"} => other'[c] \in Row
                   /\ pc'[c] \in {"mergeAway", "mark"} => keep'[c] \in Row
<1> SUFFICES Fine
  <2>1. \A d \in Caller \ {c} : /\ pc'[d] = pc[d] /\ have'[d] = have[d]
                              /\ other'[d] = other[d] /\ keep'[d] = keep[d]
    BY Others DEF OthersStay
  <2> QED BY <2>1 DEF HoldsRows
<1> USE DEF mergeVars, renameVars, WithRow
<1>0. /\ pc = [d \in Caller |-> pc[d]] /\ have = [d \in Caller |-> have[d]]
      /\ other = [d \in Caller |-> other[d]] /\ keep = [d \in Caller |-> keep[d]]
  BY DEF TypeOK
<1>1. /\ pc[c] \in WithRow => have[c].id \in Row
      /\ pc[c] \in {"mergeKeep", "mergeAway", "mark"} => other[c] \in Row
      /\ pc[c] \in {"mergeAway", "mark"} => keep[c] \in Row
  BY DEF HoldsRows
<1>2. ASSUME NEW a \in Asks, Begin(c, a)
      PROVE  Fine
  <2>1. pc'[c] = Entry(a.kind) /\ a.kind \in Kinds /\ a.kind # "convert"
    BY <1>0, <1>2, AsksTyped DEF Begin, Arrive
  <2>2. pc'[c] \notin WithRow
    BY <2>1 DEF Entry, Kinds
  <2> QED BY <2>2
<1>3. ASSUME NEW a \in Asks, BeginConvert(c, a)
      PROVE  Fine
  <2>1. pc'[c] = "write"
    BY <1>0, <1>3 DEF BeginConvert, Arrive, Entry
  <2>2. have'[c].id \in Row
    BY <1>0, <1>3, RowsTyped, ReadTyped DEF BeginConvert, Pinnable
  <2> QED BY <2>1, <2>2
<1>4. ASSUME NEW a, Leave(c, a)
      PROVE  Fine
  BY <1>0, <1>4 DEF Leave
<1>5. CASE LookPhone(c)
  BY <1>0, <1>5 DEF LookPhone, Goto
<1>6. CASE LookEmail(c)
  <2>1. CASE pc'[c] = "insert"
    BY <2>1
  <2>5. ByEmail(c) \subseteq Row /\ have[c].id \in Row \cup {NoRow}
    BY FindTyped DEF ByEmail, TypeOK
  <2>2. CASE pc'[c] = "fill"
    <3>1. \/ have' = have /\ have[c].id # NoRow
          \/ \E r \in Row : have' = [have EXCEPT ![c] = Read(r)]
      BY <1>0, <1>6, <2>2, <2>5 DEF LookEmail, Goto
    <3>2. have'[c].id \in Row
      BY <1>0, <2>5, <3>1, ReadTyped
    <3> QED BY <2>2, <3>2
  <2>3. CASE pc'[c] = "mergeKeep"
    <3>1. /\ have' = have /\ have[c].id # NoRow
          /\ \E r \in Row : other' = [other EXCEPT ![c] = r]
      BY <1>0, <1>6, <2>3, <2>5 DEF LookEmail, Goto
    <3>2. have'[c].id \in Row /\ other'[c] \in Row
      BY <1>0, <2>5, <3>1
    <3> QED BY <2>3, <3>2
  <2>4. pc'[c] \in {"insert", "fill", "mergeKeep"}
    BY <1>0, <1>6 DEF LookEmail, Goto
  <2> QED BY <2>1, <2>2, <2>3, <2>4
<1>7. CASE MergeKeep(c)
  <2>1. KeepOf(c) \in Row
    BY <1>0, <1>1, <1>7, CanonicalTyped DEF KeepOf, MergeKeep
  <2> QED BY <1>0, <1>1, <1>7, <2>1 DEF MergeKeep, Goto
<1>8. CASE MergeAway(c)
  <2>1. Canonical(other[c]) \in Row
    BY <1>0, <1>1, <1>8, CanonicalTyped DEF MergeAway
  <2> QED BY <1>0, <1>1, <1>8, <2>1 DEF MergeAway, Goto
<1>9. CASE Mark(c)
  BY <1>0, <1>1, <1>9 DEF Mark, Goto
<1>10. CASE Reread(c)
  <2>1. Canonical(have[c].id) \in Row
    BY <1>0, <1>1, <1>10, CanonicalTyped DEF Reread
  <2>2. have'[c].id \in Row
    BY <1>0, <1>10, <2>1, ReadTyped DEF Reread
  <2> QED BY <1>0, <1>10, <2>2 DEF Reread, Goto
<1>11. CASE FillColumn(c)
  <2>1. CASE Throw(c)
    BY <1>0, <1>4, <2>1 DEF Throw
  <2>2. CASE Goto(c, "fill")
    <3>1. have'[c].id = have[c].id
      <4> DEFINE n == [have[c].contact EXCEPT ![NextColumn(Lacking(c))] = ask[c].new[NextColumn(Lacking(c))]]
      <4>1. have' = have \/ have' = [have EXCEPT ![c] = [have[c] EXCEPT !.contact = n]]
        BY <1>11 DEF FillColumn
      <4> HIDE DEF n
      <4>2. [have[c] EXCEPT !.contact = n].id = have[c].id
        BY DEF TypeOK
      <4> QED BY <1>0, <4>1, <4>2
    <3> QED BY <1>0, <1>1, <1>11, <2>2, <3>1 DEF FillColumn, Goto
  <2> QED BY <1>0, <1>11, <2>1, <2>2 DEF FillColumn
<1>12. CASE AnswerCanonical(c) \/ Winner(c) \/ Scrub(c) \/ Write(c)
  BY <1>0, <1>4, <1>12 DEF AnswerCanonical, Winner, Scrub, Write, Throw
<1>13. CASE Insert(c)
  BY <1>0, <1>4, <1>13 DEF Insert, Goto
<1>14. CASE Locate(c)
  <2>1. Located(c) \subseteq Row
    BY FindTyped DEF Located
  <2>2. \/ \E a : Leave(c, a)
        \/ Goto(c, "collide") /\ \E r \in Located(c) : have' = [have EXCEPT ![c] = Read(r)]
    BY <1>0, <1>14 DEF Locate
  <2>3. CASE Goto(c, "collide") /\ \E r \in Located(c) : have' = [have EXCEPT ![c] = Read(r)]
    <3>1. have'[c].id \in Row
      BY <1>0, <2>1, <2>3, ReadTyped
    <3> QED BY <1>0, <2>3, <3>1 DEF Goto
  <2> QED BY <1>0, <1>4, <2>2, <2>3
<1>15. CASE Collide(c)
  <2>1. have'[c].id \in Row
    BY <1>0, <1>1, <1>15 DEF Collide
  <2>2. pc'[c] \in {"apply", "collide", "mergeKeep"} /\ (pc'[c] = "mergeKeep" => other'[c] \in Row)
    BY <1>0, <1>15, FindTyped DEF Collide, Goto
  <2> QED BY <2>1, <2>2
<1>16. CASE Apply(c)
  <2>1. Throw(c) \/ (Goto(c, "canonical") /\ have' = have)
    BY <1>0, <1>16 DEF Apply
  <2> QED BY <1>0, <1>1, <1>4, <1>16, <2>1 DEF Apply, Throw, Goto
<1> QED BY <1>2, <1>3, <1>5, <1>6, <1>7, <1>8, <1>9, <1>10, <1>11, <1>12, <1>13, <1>14, <1>15, <1>16 DEF StepOf

(* A step that is not a request's first: where it leads.                   *)
LEMMA FlowOf ==
  ASSUME TypeOK, NEW c \in Caller, StepOf(c)
  PROVE  \/ \E a \in Asks : Arrive(c, a) /\ pc'[c] = Entry(a.kind)
         \/ /\ UNCHANGED <<ask, met, calls>> /\ pc[c] # "idle"
            /\ \/ \E a : Leave(c, a)
               \/ Goto(c, "lookEmail") /\ LookPhone(c)
               \/ (Goto(c, "insert") \/ Goto(c, "fill") \/ Goto(c, "mergeKeep")) /\ LookEmail(c)
               \/ Goto(c, "mergeAway") /\ MergeKeep(c)
               \/ (Goto(c, "reread") \/ Goto(c, "mark")) /\ MergeAway(c)
               \/ Goto(c, "reread") /\ Mark(c)
               \/ Goto(c, IF ask[c].kind = "rename" THEN "collide" ELSE "fill") /\ Reread(c)
               \/ Goto(c, "fill") /\ FillColumn(c)
               \/ Goto(c, "winner") /\ Insert(c)
               \/ Goto(c, "collide") /\ Locate(c)
               \/ (Goto(c, "apply") \/ Goto(c, "collide") \/ Goto(c, "mergeKeep")) /\ Collide(c)
               \/ Goto(c, "canonical") /\ Apply(c)
<1> DEFINE Flow ==
         \/ \E a \in Asks : Arrive(c, a) /\ pc'[c] = Entry(a.kind)
         \/ /\ UNCHANGED <<ask, met, calls>> /\ pc[c] # "idle"
            /\ \/ \E a : Leave(c, a)
               \/ Goto(c, "lookEmail") /\ LookPhone(c)
               \/ (Goto(c, "insert") \/ Goto(c, "fill") \/ Goto(c, "mergeKeep")) /\ LookEmail(c)
               \/ Goto(c, "mergeAway") /\ MergeKeep(c)
               \/ (Goto(c, "reread") \/ Goto(c, "mark")) /\ MergeAway(c)
               \/ Goto(c, "reread") /\ Mark(c)
               \/ Goto(c, IF ask[c].kind = "rename" THEN "collide" ELSE "fill") /\ Reread(c)
               \/ Goto(c, "fill") /\ FillColumn(c)
               \/ Goto(c, "winner") /\ Insert(c)
               \/ Goto(c, "collide") /\ Locate(c)
               \/ (Goto(c, "apply") \/ Goto(c, "collide") \/ Goto(c, "mergeKeep")) /\ Collide(c)
               \/ Goto(c, "canonical") /\ Apply(c)
<1>1. ASSUME NEW a \in Asks, Begin(c, a) \/ BeginConvert(c, a)
      PROVE  Flow
  <2>1. Arrive(c, a) /\ pc'[c] = Entry(a.kind)
    BY <1>1 DEF Begin, BeginConvert, Arrive, TypeOK
  <2> QED BY <2>1
<1>2. CASE LookPhone(c) \/ MergeKeep(c) \/ Mark(c)
  BY <1>2 DEF LookPhone, MergeKeep, Mark
<1>3. CASE LookEmail(c)
  BY <1>3 DEF LookEmail
<1>4. CASE MergeAway(c) \/ Reread(c)
  BY <1>4 DEF MergeAway, Reread
<1>5. CASE FillColumn(c) \/ Apply(c)
  BY <1>5 DEF FillColumn, Apply, Throw
<1>6. CASE AnswerCanonical(c) \/ Insert(c)
  BY <1>6 DEF AnswerCanonical, Insert
<1>7. CASE Locate(c)
  BY <1>7 DEF Locate
<1>8. CASE Collide(c)
  BY <1>8 DEF Collide
<1>9. CASE Winner(c) \/ Write(c) \/ Scrub(c)
  BY <1>9 DEF Winner, Write, Scrub, Throw
<1> QED BY <1>1, <1>2, <1>3, <1>4, <1>5, <1>6, <1>7, <1>8, <1>9 DEF StepOf

LEMMA StepsFitKept ==
  ASSUME TypeOK, StepsFit, NEW c \in Caller, StepOf(c)
  PROVE  StepsFit'
<1> DEFINE Fine == /\ pc'[c] # "idle" => ask'[c] \in Asks /\ answer'[c] = NoRow
                   /\ ask'[c].kind = "find" =>
                        pc'[c] \notin {"locate", "collide", "apply", "canonical", "write", "scrub"}
                   /\ pc'[c] = "write" => ask'[c].kind = "convert"
<1> SUFFICES Fine
  <2>1. \A d \in Caller \ {c} : pc'[d] = pc[d] /\ ask'[d] = ask[d] /\ answer'[d] = answer[d]
    BY Others DEF OthersStay
  <2> QED BY <2>1 DEF StepsFit
<1>0. /\ pc = [d \in Caller |-> pc[d]] /\ ask = [d \in Caller |-> ask[d]]
      /\ answer = [d \in Caller |-> answer[d]]
  BY DEF TypeOK
<1>1. /\ pc[c] # "idle" => ask[c] \in Asks /\ answer[c] = NoRow
      /\ ask[c].kind = "find" =>
           pc[c] \notin {"locate", "collide", "apply", "canonical", "write", "scrub"}
      /\ pc[c] = "write" => ask[c].kind = "convert"
  BY DEF StepsFit
<1>2. ASSUME NEW a \in Asks, Arrive(c, a), pc'[c] = Entry(a.kind)
      PROVE  Fine
  <2>1. ask'[c] = a /\ answer'[c] = NoRow /\ a.kind \in Kinds
    BY <1>0, <1>2, AsksTyped DEF Arrive
  <2> QED BY <1>2, <2>1 DEF Entry, Kinds
<1>3. ASSUME NEW a, Leave(c, a), UNCHANGED ask
      PROVE  Fine
  BY <1>0, <1>3 DEF Leave
<1>4. ASSUME NEW s, Goto(c, s), UNCHANGED ask, pc[c] # "idle",
             s \notin {"idle", "write", "scrub", "locate"},
             s \in {"collide", "apply", "canonical"} => ask[c].kind # "find"
      PROVE  Fine
  BY <1>0, <1>1, <1>4 DEF Goto
<1>5. ASSUME Collide(c) \/ Locate(c) \/ Apply(c)
      PROVE  ask[c].kind # "find"
  BY <1>1, <1>5 DEF Collide, Locate, Apply
<1> QED BY <1>2, <1>3, <1>4, <1>5, FlowOf

LEMMA OverlapKept ==
  ASSUME TypeOK, Overlap, NEW c \in Caller, StepOf(c)
  PROVE  Overlap'
<1>1. \A d \in Caller \ {c} : pc'[d] = pc[d]
  BY Others DEF OthersStay
<1>2. ASSUME NEW a, Arrive(c, a)
      PROVE  Overlap'
  BY <1>1, <1>2 DEF Arrive, Overlap, Busy, TypeOK
<1>3. ASSUME UNCHANGED met, pc[c] # "idle"
      PROVE  Overlap'
  BY <1>1, <1>3 DEF Overlap, Busy
<1> QED BY <1>2, <1>3, FlowOf

LEMMA ErasedAreRowsKept ==
  ASSUME TypeOK, HoldsRows, ErasedAreRows, NEW c \in Caller, StepOf(c)
  PROVE  ErasedAreRows'
<1>1. Rows \subseteq Rows'
  <2>1. rows' = rows \/ rows' = rows + 1
    BY TableMoves DEF tableVars, Mark, Rewrites, Adds, Scrub
  <2> QED BY <2>1 DEF Rows, TypeOK
<1>2. erased' \subseteq Rows
  BY TableMoves DEF ErasedAreRows, tableVars, Mark, Rewrites, Adds, Scrub
<1>3. \/ picked' = picked
      \/ picked' = [picked EXCEPT ![c] = picked'[c]] /\ picked'[c] \subseteq Rows
  <2>1. ASSUME NEW a, Begin(c, a) \/ BeginConvert(c, a)
        PROVE  picked' = [picked EXCEPT ![c] = picked'[c]] /\ picked'[c] \subseteq Rows
    BY <2>1, PickedTyped DEF Begin, BeginConvert, TypeOK
  <2>2. CASE LookPhone(c) \/ LookEmail(c) \/ MergeKeep(c) \/ MergeAway(c) \/ Mark(c) \/ Reread(c)
             \/ AnswerCanonical(c) \/ Winner(c) \/ Locate(c) \/ Collide(c) \/ Scrub(c)
    BY <2>2 DEF LookPhone, LookEmail, MergeKeep, MergeAway, Mark, Reread, AnswerCanonical, Winner,
                Locate, Collide, Scrub
  <2>3. CASE FillColumn(c) \/ Insert(c) \/ Apply(c) \/ Write(c)
    BY <2>3 DEF FillColumn, Insert, Apply, Write
  <2> QED BY <2>1, <2>2, <2>3 DEF StepOf
<1> QED BY <1>1, <1>2, <1>3 DEF ErasedAreRows, TypeOK

-----------------------------------------------------------------------------
(* Merge chains end.                                                       *)
LEMMA ChainsStandKept ==
  ASSUME TypeOK, HoldsRows, ChainsStand, NEW c \in Caller, StepOf(c)
  PROVE  ChainsStand'
<1> SUFFICES ASSUME ~crossed' PROVE /\ Acyclic(mergedInto')
                                    /\ \A d, e \in Caller : Merges(d)' /\ Merges(e)' => d = e
                                    /\ \A d \in Caller : Merges(d)' => mergedInto'[keep'[d]] = NoRow
                                    /\ \A d \in Caller : pc'[d] = "mark" =>
                                         other'[d] # keep'[d] /\ mergedInto'[other'[d]] = NoRow
  BY DEF ChainsStand
<1>1. crossed' = crossed \/ MergeKeep(c)
  <2>1. ASSUME NEW a, Begin(c, a) \/ BeginConvert(c, a)
        PROVE  crossed' = crossed
    BY <2>1 DEF Begin, BeginConvert, Arrive
  <2>2. CASE LookPhone(c) \/ LookEmail(c) \/ MergeAway(c) \/ Mark(c) \/ Reread(c)
             \/ AnswerCanonical(c) \/ Winner(c) \/ Locate(c) \/ Collide(c) \/ Scrub(c)
    BY <2>2 DEF LookPhone, LookEmail, MergeAway, Mark, Reread, AnswerCanonical, Winner,
                Locate, Collide, Scrub
  <2>3. CASE FillColumn(c) \/ Insert(c) \/ Apply(c) \/ Write(c)
    BY <2>3 DEF FillColumn, Insert, Apply, Write
  <2> QED BY <2>1, <2>2, <2>3 DEF StepOf
<1>2. ~crossed
  BY <1>1 DEF MergeKeep
<1>3. /\ Acyclic(mergedInto)
      /\ \A d, e \in Caller : Merges(d) /\ Merges(e) => d = e
      /\ \A d \in Caller : Merges(d) => mergedInto[keep[d]] = NoRow
      /\ \A d \in Caller : pc[d] = "mark" => other[d] # keep[d] /\ mergedInto[other[d]] = NoRow
  BY <1>2 DEF ChainsStand
<1>4. \A d \in Caller \ {c} : pc'[d] = pc[d] /\ other'[d] = other[d] /\ keep'[d] = keep[d]
  BY Others DEF OthersStay
<1>5. /\ pc = [d \in Caller |-> pc[d]] /\ keep = [d \in Caller |-> keep[d]]
      /\ other = [d \in Caller |-> other[d]]
  BY DEF TypeOK
<1>6. Links(mergedInto) /\ DOMAIN mergedInto = Row
  BY LinksOfRows DEF TypeOK
<1>7. CASE Mark(c)
  <2>1. /\ mergedInto' = [mergedInto EXCEPT ![other[c]] = keep[c]]
        /\ pc[c] = "mark" /\ pc'[c] = "reread" /\ UNCHANGED <<keep, other>>
    BY <1>5, <1>7 DEF Mark, Goto, mergeVars
  <2>2. /\ other[c] \in Row /\ keep[c] \in Row /\ other[c] # keep[c]
        /\ mergedInto[other[c]] = 0 /\ mergedInto[keep[c]] = 0
    BY <1>3, <2>1, RowsAre DEF HoldsRows, Merges
  <2>3. Acyclic(mergedInto')
    BY <1>3, <1>6, <2>1, <2>2, LinkAdded
  <2>4. \A d \in Caller : ~Merges(d)'
    BY <1>3, <1>4, <2>1 DEF Merges
  <2> QED BY <2>3, <2>4 DEF Merges
<1>8. CASE MergeKeep(c)
  <2>1. /\ pc[c] = "mergeKeep" /\ pc'[c] = "mergeAway" /\ keep'[c] = KeepOf(c) /\ Ends(have[c].id)
        /\ UNCHANGED <<mergedInto, other>> /\ ~(\E d \in Caller : Merges(d))
    BY <1>5, <1>8 DEF MergeKeep, Goto, tableVars, Merges
  <2>2. mergedInto[keep'[c]] = NoRow
    BY <2>1, RowsAre DEF Ends, Ended, KeepOf, Canonical
  <2>3. \A d \in Caller : Merges(d)' => d = c
    BY <1>4, <2>1 DEF Merges
  <2>4. \A d \in Caller : pc'[d] # "mark"
    BY <1>4, <2>1 DEF Merges
  <2> QED BY <1>3, <2>1, <2>2, <2>3, <2>4
<1>9. CASE MergeAway(c)
  <2>1. /\ pc[c] = "mergeAway" /\ Ends(other[c]) /\ other'[c] = Canonical(other[c])
        /\ UNCHANGED <<mergedInto, keep>>
        /\ pc'[c] = IF other'[c] = keep[c] THEN "reread" ELSE "mark"
    BY <1>5, <1>9 DEF MergeAway, Goto, tableVars
  <2>2. mergedInto'[other'[c]] = NoRow
    BY <2>1, RowsAre DEF Ends, Ended, Canonical
  <2>3. \A d \in Caller : Merges(d)' => Merges(d)
    BY <1>4, <2>1 DEF Merges
  <2>4. \A d \in Caller : pc'[d] = "mark" => d = c \/ pc[d] = "mark"
    BY <1>4
  <2> QED BY <1>3, <1>4, <2>1, <2>2, <2>3, <2>4
<1>10. ASSUME ~Mark(c), ~MergeKeep(c), ~MergeAway(c)
       PROVE  mergedInto' = mergedInto /\ ~Merges(c)'
  <2>1. mergedInto' = mergedInto
    BY <1>10, TableMoves DEF tableVars, Rewrites, Adds, Scrub
  <2>2. ASSUME NEW s, Goto(c, s), s \notin {"mergeAway", "mark"}
        PROVE  ~Merges(c)'
    BY <1>5, <2>2 DEF Goto, Merges
  <2>3. ASSUME NEW a, Leave(c, a)
        PROVE  ~Merges(c)'
    BY <1>5, <2>3 DEF Leave, Merges
  <2>4. ASSUME NEW a \in Asks, pc'[c] = Entry(a.kind)
        PROVE  ~Merges(c)'
    BY <2>4, AsksTyped DEF Entry, Kinds, Merges
  <2>5. ~Merges(c)'
    BY <1>10, <2>2, <2>3, <2>4, FlowOf
  <2> QED BY <2>1, <2>5
<1>11. CASE ~Mark(c) /\ ~MergeKeep(c) /\ ~MergeAway(c)
  <2>1. mergedInto' = mergedInto /\ \A d \in Caller : Merges(d)' => d # c /\ Merges(d)
    BY <1>4, <1>10, <1>11 DEF Merges
  <2>2. \A d \in Caller : pc'[d] = "mark" => d # c /\ pc[d] = "mark"
    BY <2>1 , <1>4 DEF Merges
  <2> QED BY <1>3, <1>4, <2>1, <2>2
<1> QED BY <1>7, <1>8, <1>9, <1>11

-----------------------------------------------------------------------------
(* What the requests hold stays clear of the anonymized rows.              *)
Mine(c, T) ==
  pc[c] \notin {"idle", "write"} =>
    /\ have[c].id # NoRow => have[c].id \in T
    /\ pc[c] \in {"mergeKeep", "mergeAway", "mark"} => other[c] \in T
    /\ pc[c] \in {"mergeAway", "mark"} => keep[c] \in T

LEMMA ClearGrows ==
  ASSUME TypeOK, NEW c \in Caller, StepOf(c), NEW T \in SUBSET Row, Clear(T),
         NEW U \in SUBSET Row, T \subseteq U, U \cap (erased' \ hurried') = {},
         \A r \in U : mergedInto'[r] # NoRow => mergedInto'[r] \in U,
         pc'[c] \notin {"idle", "write"} =>
            /\ have'[c].id # NoRow => have'[c].id \in U
            /\ pc'[c] \in {"mergeKeep", "mergeAway", "mark"} => other'[c] \in U
            /\ pc'[c] \in {"mergeAway", "mark"} => keep'[c] \in U
  PROVE  HeldAreClear'
<1>1. \A d \in Caller \ {c} : /\ pc'[d] = pc[d] /\ have'[d] = have[d]
                            /\ other'[d] = other[d] /\ keep'[d] = keep[d]
  BY Others DEF OthersStay
<1>2. Clear(U)'
  BY <1>1 DEF Clear
<1> QED BY <1>2 DEF HeldAreClear

LEMMA FoundAreRoots ==
  ASSUME TypeOK, NEW f, NEW v, NEW r \in Find(f, v)
  PROVE  r \in Row /\ r \in Rows /\ mergedInto[r] = NoRow /\ r \notin erased
BY FindTyped DEF Find

LEMMA HeldAreClearKept ==
  ASSUME TypeOK, HoldsRows, Overlap, HeldAreClear, NEW c \in Caller, StepOf(c)
  PROVE  HeldAreClear'
<1>1. PICK T \in SUBSET Row : Clear(T)
  BY DEF HeldAreClear
<1>2. /\ T \cap (erased \ hurried) = {}
      /\ \A r \in T : mergedInto[r] # NoRow => mergedInto[r] \in T
      /\ Mine(c, T)
  BY <1>1 DEF Clear, Mine
<1>3. /\ pc = [d \in Caller |-> pc[d]] /\ have = [d \in Caller |-> have[d]]
      /\ other = [d \in Caller |-> other[d]] /\ keep = [d \in Caller |-> keep[d]]
  BY DEF TypeOK
<1> DEFINE Ours(U) ==
      pc'[c] \notin {"idle", "write"} =>
         /\ have'[c].id # NoRow => have'[c].id \in U
         /\ pc'[c] \in {"mergeKeep", "mergeAway", "mark"} => other'[c] \in U
         /\ pc'[c] \in {"mergeAway", "mark"} => keep'[c] \in U
(* A step that neither marks nor scrubs may take a root that is not        *)
(* anonymized.                                                             *)
<1>4. ASSUME NEW r \in Row, mergedInto[r] = NoRow, r \notin erased, UNCHANGED <<mergedInto, erased, hurried>>,
             Ours(T \cup {r})
      PROVE  HeldAreClear'
  <2> DEFINE U == T \cup {r}
  <2>1. U \in SUBSET Row /\ T \subseteq U /\ U \cap (erased' \ hurried') = {}
    BY <1>2, <1>4
  <2>2. \A x \in U : mergedInto'[x] # NoRow => mergedInto'[x] \in U
    BY <1>2, <1>4
  <2> HIDE DEF U
  <2>3. Ours(U)
    BY <1>4 DEF U
  <2> QED BY <1>1, <2>1, <2>2, <2>3, ClearGrows
<1>5. ASSUME UNCHANGED <<mergedInto, erased, hurried>>, Ours(T)
      PROVE  HeldAreClear'
  BY <1>1, <1>2, <1>5, ClearGrows
<1>6. ASSUME ~Mark(c), ~Scrub(c)
      PROVE  UNCHANGED <<mergedInto, erased, hurried>>
  <2>1. UNCHANGED <<mergedInto, erased>>
    BY <1>6, TableMoves DEF tableVars, Rewrites, Adds
  <2>2. hurried' = hurried
    <3>1. ASSUME NEW a, Begin(c, a) \/ BeginConvert(c, a)
          PROVE  hurried' = hurried
      BY <3>1 DEF Begin, BeginConvert, Arrive
    <3>2. CASE LookPhone(c) \/ LookEmail(c) \/ MergeKeep(c) \/ MergeAway(c) \/ Reread(c)
               \/ AnswerCanonical(c) \/ Winner(c) \/ Locate(c) \/ Collide(c)
      BY <3>2 DEF LookPhone, LookEmail, MergeKeep, MergeAway, Reread, AnswerCanonical, Winner,
                  Locate, Collide
    <3>3. CASE FillColumn(c) \/ Insert(c) \/ Apply(c) \/ Write(c)
      BY <3>3 DEF FillColumn, Insert, Apply, Write
    <3> QED BY <1>6, <3>1, <3>2, <3>3 DEF StepOf
  <2> QED BY <2>1, <2>2
<1>7. CASE Mark(c)
  <2>1. /\ pc[c] = "mark" /\ pc'[c] = "reread" /\ UNCHANGED <<have, erased, hurried>>
        /\ mergedInto' = [mergedInto EXCEPT ![other[c]] = keep[c]]
    BY <1>3, <1>7 DEF Mark, Goto
  <2>2. keep[c] \in T /\ (have[c].id # NoRow => have[c].id \in T)
    BY <1>2, <2>1 DEF Mine
  <2>3. \A r \in T : mergedInto'[r] # NoRow => mergedInto'[r] \in T
    BY <1>2, <2>1, <2>2 DEF TypeOK
  <2> QED BY <1>1, <1>2, <2>1, <2>2, <2>3, ClearGrows
<1>8. CASE Scrub(c)
  <2>1. /\ pc'[c] = "idle" /\ pc[c] # "idle" /\ mergedInto' = mergedInto
        /\ erased' = erased \cup (picked[c] \ erased)
        /\ hurried' = IF Busy = {c} THEN hurried ELSE hurried \cup (picked[c] \ erased)
    BY <1>3, <1>8 DEF Scrub, Leave
  <2>2. CASE Busy = {c}
    <3>1. \A d \in Caller : pc'[d] = "idle"
      BY <2>1, <2>2, Others DEF Busy, OthersStay
    <3>2. Clear({})'
      BY <3>1 DEF Clear
    <3> QED BY <3>2 DEF HeldAreClear
  <2>3. CASE Busy # {c}
    <3>1. T \cap (erased' \ hurried') = {}
      BY <1>2, <2>1, <2>3
    <3> QED BY <1>1, <1>2, <2>1, <3>1, ClearGrows
  <2> QED BY <2>2, <2>3
<1>9. \A r \in T : Canonical(r) \in T
  <2>1. Links(mergedInto) /\ DOMAIN mergedInto = Row /\ NoRow = 0
    BY LinksOfRows DEF TypeOK, NoRow
  <2> QED BY <1>2, <2>1, RootStays DEF Canonical
<1>10. CASE LookPhone(c)
  <2>1. pc[c] = "lookPhone" /\ pc'[c] = "lookEmail"
    BY <1>3, <1>10 DEF LookPhone, Goto
  <2>2. UNCHANGED <<mergedInto, erased, hurried>>
    BY <1>6, <2>1 DEF Mark, Scrub
  <2>3. CASE have' = have
    BY <1>2, <1>5, <2>1, <2>2, <2>3 DEF Mine
  <2>4. ASSUME NEW r \in Find("phone", ask[c].new.phone), have' = [have EXCEPT ![c] = Read(r)]
        PROVE  HeldAreClear'
    <3>1. r \in Row /\ mergedInto[r] = NoRow /\ r \notin erased
      BY FoundAreRoots
    <3>2. have'[c].id = r
      BY <1>3, <2>4, <3>1, ReadTyped
    <3> QED BY <1>4, <2>1, <2>2, <3>1, <3>2
  <2> QED BY <1>10, <2>3, <2>4 DEF LookPhone
<1>11. CASE LookEmail(c)
  <2>1. pc[c] = "lookEmail"
    BY <1>11 DEF LookEmail
  <2>2. UNCHANGED <<mergedInto, erased, hurried>>
    BY <1>6, <2>1 DEF Mark, Scrub
  <2>3. CASE have' = have /\ pc'[c] \in {"insert", "fill"}
    BY <1>2, <1>5, <2>1, <2>2, <2>3 DEF Mine
  <2>4. ASSUME NEW r \in ByEmail(c), have' = [have EXCEPT ![c] = Read(r)], pc'[c] = "fill"
        PROVE  HeldAreClear'
    <3>1. r \in Row /\ mergedInto[r] = NoRow /\ r \notin erased
      BY FoundAreRoots DEF ByEmail
    <3>2. have'[c].id = r
      BY <1>3, <2>4, <3>1, ReadTyped
    <3> QED BY <1>4, <2>2, <2>4, <3>1, <3>2
  <2>5. ASSUME NEW r \in ByEmail(c), other' = [other EXCEPT ![c] = r], pc'[c] = "mergeKeep", have' = have
        PROVE  HeldAreClear'
    <3>1. r \in Row /\ mergedInto[r] = NoRow /\ r \notin erased
      BY FoundAreRoots DEF ByEmail
    <3>2. other'[c] = r
      BY <1>3, <2>5
    <3> QED BY <1>2, <1>4, <2>1, <2>2, <2>5, <3>1, <3>2 DEF Mine
  <2>6. \/ have' = have /\ pc'[c] \in {"insert", "fill"}
        \/ \E r \in ByEmail(c) : have' = [have EXCEPT ![c] = Read(r)] /\ pc'[c] = "fill"
        \/ \E r \in ByEmail(c) : /\ other' = [other EXCEPT ![c] = r]
                                 /\ pc'[c] = "mergeKeep" /\ have' = have
    BY <1>3, <1>11 DEF LookEmail, Goto
  <2> QED BY <2>3, <2>4, <2>5, <2>6
<1>12. CASE MergeKeep(c)
  <2>1. /\ pc[c] = "mergeKeep" /\ pc'[c] = "mergeAway" /\ keep'[c] = Canonical(have[c].id)
        /\ UNCHANGED <<have, other>>
    BY <1>3, <1>12 DEF MergeKeep, Goto, KeepOf
  <2>2. have[c].id # NoRow
    BY <2>1, RowsAre DEF HoldsRows, WithRow
  <2>3. Ours(T)
    BY <1>2, <1>9, <2>1, <2>2 DEF Mine
  <2> QED BY <1>5, <1>6, <2>1, <2>3 DEF Mark, Scrub
<1>13. CASE MergeAway(c)
  <2>1. /\ pc[c] = "mergeAway" /\ pc'[c] \in {"reread", "mark"} /\ other'[c] = Canonical(other[c])
        /\ UNCHANGED <<have, keep>>
    BY <1>3, <1>13 DEF MergeAway, Goto
  <2>2. Ours(T)
    BY <1>2, <1>9, <2>1 DEF Mine
  <2> QED BY <1>5, <1>6, <2>1, <2>2 DEF Mark, Scrub
<1>14. CASE Reread(c)
  <2>1. /\ pc[c] = "reread" /\ pc'[c] \in {"collide", "fill"}
        /\ have' = [have EXCEPT ![c] = Read(Canonical(have[c].id))]
    BY <1>3, <1>14 DEF Reread, Goto
  <2>2. have[c].id \in Row /\ Canonical(have[c].id) \in Row
    BY <2>1, CanonicalTyped DEF HoldsRows, WithRow
  <2>3. have'[c].id = Canonical(have[c].id) /\ have[c].id \in T
    BY <1>2, <1>3, <2>1, <2>2, ReadTyped, RowsAre DEF Mine
  <2>4. Ours(T)
    BY <1>9, <2>1, <2>3
  <2> QED BY <1>5, <1>6, <2>1, <2>4 DEF Mark, Scrub
<1>15. CASE FillColumn(c)
  <2> DEFINE n == [have[c].contact EXCEPT ![NextColumn(Lacking(c))] = ask[c].new[NextColumn(Lacking(c))]]
  <2>1. have' = have \/ have' = [have EXCEPT ![c] = [have[c] EXCEPT !.contact = n]]
    BY <1>15 DEF FillColumn
  <2> HIDE DEF n
  <2>2. [have[c] EXCEPT !.contact = n].id = have[c].id
    BY DEF TypeOK
  <2>3. have'[c].id = have[c].id
    BY <1>3, <2>1, <2>2
  <2>4. pc[c] = "fill" /\ pc'[c] \in {"idle", "fill"}
    BY <1>3, <1>15 DEF FillColumn, Throw, Leave, Goto
  <2> QED BY <1>2, <1>5, <1>6, <2>3, <2>4 DEF Mine, Mark, Scrub
<1>16. CASE Locate(c)
  <2>1. pc[c] = "locate"
    BY <1>16 DEF Locate
  <2>2. UNCHANGED <<mergedInto, erased, hurried>>
    BY <1>6, <2>1 DEF Mark, Scrub
  <2>3. \/ pc'[c] = "idle"
        \/ pc'[c] = "collide" /\ \E r \in Located(c) : have' = [have EXCEPT ![c] = Read(r)]
    BY <1>3, <1>16 DEF Locate, Leave, Goto
  <2>4. ASSUME NEW r \in Located(c), have' = [have EXCEPT ![c] = Read(r)], pc'[c] = "collide"
        PROVE  HeldAreClear'
    <3>1. r \in Row /\ mergedInto[r] = NoRow /\ r \notin erased
      BY FoundAreRoots DEF Located
    <3>2. have'[c].id = r
      BY <1>3, <2>4, <3>1, ReadTyped
    <3> QED BY <1>4, <2>2, <2>4, <3>1, <3>2
  <2> QED BY <1>5, <2>2, <2>3, <2>4
<1>17. CASE Collide(c)
  <2>1. pc[c] = "collide" /\ have' = have
    BY <1>17 DEF Collide
  <2>2. UNCHANGED <<mergedInto, erased, hurried>>
    BY <1>6, <2>1 DEF Mark, Scrub
  <2>3. \/ pc'[c] \in {"apply", "collide"}
        \/ /\ pc'[c] = "mergeKeep"
           /\ \E f, v : \E r \in Find(f, v) : other' = [other EXCEPT ![c] = r]
    BY <1>3, <1>17 DEF Collide, Goto
  <2>4. ASSUME NEW f, NEW v, NEW r \in Find(f, v), other' = [other EXCEPT ![c] = r], pc'[c] = "mergeKeep"
        PROVE  HeldAreClear'
    <3>1. r \in Row /\ mergedInto[r] = NoRow /\ r \notin erased
      BY FoundAreRoots
    <3>2. other'[c] = r
      BY <1>3, <2>4
    <3> QED BY <1>2, <1>4, <2>1, <2>2, <2>4, <3>1, <3>2 DEF Mine
  <2>5. CASE pc'[c] \in {"apply", "collide"}
    BY <1>2, <1>5, <2>1, <2>2, <2>5 DEF Mine
  <2> QED BY <2>3, <2>4, <2>5
<1>18. CASE Apply(c) \/ Insert(c)
  <2>1. have' = have /\ pc[c] \in {"apply", "insert"} /\ pc'[c] \in {"idle", "canonical", "winner"}
    BY <1>3, <1>18 DEF Apply, Insert, Throw, Leave, Goto
  <2>2. UNCHANGED <<mergedInto, erased, hurried>>
    BY <1>6, <2>1 DEF Mark, Scrub
  <2> QED BY <1>2, <1>5, <2>1, <2>2 DEF Mine
<1>19. CASE AnswerCanonical(c) \/ Winner(c) \/ Write(c)
  <2>1. pc[c] \in {"fill", "canonical", "winner", "write"} /\ pc'[c] = "idle"
    BY <1>3, <1>19 DEF AnswerCanonical, Winner, Write, Throw, Leave
  <2> QED BY <1>5, <1>6, <2>1 DEF Mark, Scrub
<1>20. ASSUME NEW a \in Asks, Begin(c, a)
       PROVE  HeldAreClear'
  <2>1. pc[c] = "idle" /\ pc'[c] = Entry(a.kind) /\ have'[c] = Nothing
    BY <1>3, <1>20 DEF Begin, Arrive
  <2>2. pc'[c] \notin {"mergeKeep", "mergeAway", "mark"}
    BY <2>1, AsksTyped DEF Entry, Kinds
  <2> QED BY <1>5, <1>6, <2>1, <2>2, NobodyTyped DEF Mark, Scrub
<1>21. ASSUME NEW a \in Asks, BeginConvert(c, a)
       PROVE  HeldAreClear'
  <2>1. pc[c] = "idle" /\ pc'[c] = "write"
    BY <1>3, <1>21 DEF BeginConvert, Arrive, Entry
  <2> QED BY <1>5, <1>6, <2>1 DEF Mark, Scrub
<1> QED BY <1>7, <1>8, <1>10, <1>11, <1>12, <1>13, <1>14, <1>15, <1>16, <1>17, <1>18, <1>19, <1>20, <1>21
        DEF StepOf

-----------------------------------------------------------------------------
(* The unique indexes.                                                     *)
Apart(r, s) ==
  /\ mergedInto[r] = NoRow /\ mergedInto[s] = NoRow =>
       /\ contact[r].phone # NoValue => contact[r].phone # contact[s].phone
       /\ contact[r].email \notin {NoValue, Placeholder} => contact[r].email # contact[s].email
  /\ contact[r].resident # NoValue => contact[r].resident # contact[s].resident

(* A row written with what collides with none.                             *)
LEMMA WrittenApart ==
  ASSUME NEW r, NEW n, Collides(r, n) = {}, NEW s \in Rows \ {r}
  PROVE  /\ mergedInto[s] = NoRow /\ mergedInto[r] = NoRow =>
              /\ n.phone # NoValue => contact[s].phone # n.phone
              /\ n.email \notin {NoValue, Placeholder} => contact[s].email # n.email
         /\ n.resident # NoValue => contact[s].resident # n.resident
BY DEF Collides

LEMMA UniqueKept ==
  ASSUME TypeOK, HoldsRows, ErasedAreRows, Unique, NEW c \in Caller, StepOf(c)
  PROVE  Unique'
<1>1. \A r, s \in Rows : r # s => Apart(r, s)
  BY DEF Unique, Apart
<1>2. Rows \subseteq Row /\ rows \in Nat /\ Rows = 1..rows
  BY RowsTyped DEF Rows
<1>3. CASE UNCHANGED tableVars
  BY <1>3 DEF Unique, tableVars, Rows
<1>4. CASE Mark(c)
  <2>1. keep[c] # NoRow /\ mergedInto' = [mergedInto EXCEPT ![other[c]] = keep[c]]
        /\ UNCHANGED <<rows, contact>>
    BY <1>4, RowsAre DEF Mark, HoldsRows
  <2>2. \A r \in Row : mergedInto'[r] = NoRow => mergedInto[r] = NoRow
    BY <2>1 DEF TypeOK
  <2> QED BY <1>2, <2>1, <2>2 DEF Unique, Rows
<1>5. CASE Rewrites(c)
  <2> DEFINE i == have[c].id
  <2>1. PICK n \in Contacts : contact' = [contact EXCEPT ![i] = n] /\ Collides(i, n) = {}
    BY <1>5 DEF Rewrites
  <2>2. i \in Row /\ UNCHANGED <<rows, mergedInto>>
    BY <1>5 DEF Rewrites
  <2>3. contact'[i] = n /\ \A r \in Row \ {i} : contact'[r] = contact[r]
    BY <2>1, <2>2 DEF TypeOK
  <2> HIDE DEF i
  <2>4. ASSUME NEW s \in Rows \ {i}
        PROVE  /\ mergedInto[s] = NoRow /\ mergedInto[i] = NoRow =>
                    /\ n.phone # NoValue => contact[s].phone # n.phone
                    /\ n.email \notin {NoValue, Placeholder} => contact[s].email # n.email
               /\ n.resident # NoValue => contact[s].resident # n.resident
    BY <2>1, WrittenApart
  <2>5. ASSUME NEW r \in Rows, NEW s \in Rows, r # s
        PROVE  Apart(r, s)'
    <3>1. CASE r = i
      BY <1>2, <2>2, <2>3, <2>4, <2>5, <3>1 DEF Apart
    <3>2. CASE s = i
      BY <1>2, <2>2, <2>3, <2>4, <2>5, <3>2 DEF Apart
    <3>3. CASE r # i /\ s # i
      BY <1>1, <1>2, <2>2, <2>3, <2>5, <3>3 DEF Apart
    <3> QED BY <3>1, <3>2, <3>3
  <2> QED BY <2>2, <2>5 DEF Unique, Apart, Rows
<1>6. CASE Adds(c)
  <2> DEFINE i == rows + 1
             n == ask[c].new
  <2>1. /\ contact' = [contact EXCEPT ![i] = n] /\ Collides(i, n) = {} /\ rows' = i
        /\ mergedInto' = mergedInto
    BY <1>6 DEF Adds
  <2>2. i \in Row
    BY <1>2, <1>6, BoundsAssumption DEF Adds, Row, TypeOK
  <2>3. contact'[i] = n /\ \A r \in Row \ {i} : contact'[r] = contact[r]
    BY <2>1, <2>2 DEF TypeOK
  <2>4. Rows' = Rows \cup {i} /\ i \notin Rows
    BY <1>2, <2>1 DEF Rows
  <2> HIDE DEF i, n
  <2>5. ASSUME NEW s \in Rows
        PROVE  /\ mergedInto[s] = NoRow /\ mergedInto[i] = NoRow =>
                    /\ n.phone # NoValue => contact[s].phone # n.phone
                    /\ n.email \notin {NoValue, Placeholder} => contact[s].email # n.email
               /\ n.resident # NoValue => contact[s].resident # n.resident
    BY <2>1, <2>4, WrittenApart
  <2>6. ASSUME NEW r \in Rows', NEW s \in Rows', r # s
        PROVE  Apart(r, s)'
    <3>1. CASE r = i
      BY <1>2, <2>1, <2>3, <2>4, <2>5, <2>6, <3>1 DEF Apart
    <3>2. CASE s = i
      BY <1>2, <2>1, <2>3, <2>4, <2>5, <2>6, <3>2 DEF Apart
    <3>3. CASE r # i /\ s # i
      BY <1>1, <1>2, <2>1, <2>3, <2>4, <2>6, <3>3 DEF Apart
    <3> QED BY <3>1, <3>2, <3>3
  <2> QED BY <2>6 DEF Unique, Apart
<1>7. CASE Scrub(c)
  <2> DEFINE S == picked[c] \ erased
             p == [Nobody EXCEPT !.email = Placeholder]
  <2>1. UNCHANGED <<rows, mergedInto>>
        /\ \A r \in Row : contact'[r] = IF r \in S THEN p ELSE contact[r]
    BY <1>7 DEF Scrub
  <2>2. p.phone = NoValue /\ p.email = Placeholder /\ p.resident = NoValue
    BY DEF Nobody
  <2> HIDE DEF S, p
  <2>3. ASSUME NEW r \in Rows, NEW s \in Rows, r # s
        PROVE  Apart(r, s)'
    BY <1>1, <1>2, <2>1, <2>2, <2>3 DEF Apart
  <2> QED BY <2>1, <2>3 DEF Unique, Apart, Rows
<1> QED BY <1>3, <1>4, <1>5, <1>6, <1>7, TableMoves

-----------------------------------------------------------------------------
(* A request that is alone.                                                *)
LEMMA AloneSteps ==
  ASSUME TypeOK, Overlap, NEW c \in Caller, StepOf(c), NEW d \in Caller \ met', pc'[d] # "idle"
  PROVE  /\ d = c
         /\ pc[c] # "idle" => c \notin met
<1>1. d # c => pc'[d] = pc[d]
  BY Others DEF OthersStay
<1>2. ASSUME NEW a, Arrive(c, a)
      PROVE  d = c /\ pc[c] = "idle"
  BY <1>1, <1>2 DEF Arrive, Busy
<1>3. ASSUME UNCHANGED met, pc[c] # "idle"
      PROVE  d = c /\ c \notin met
  BY <1>1, <1>3 DEF Overlap, Busy
<1> QED BY <1>2, <1>3, FlowOf

LEMMA PickedAllKept ==
  ASSUME TypeOK, HoldsRows, Overlap, PickedAll, NEW c \in Caller, StepOf(c)
  PROVE  PickedAll'
<1> SUFFICES ASSUME NEW d \in Caller \ met', pc'[d] = "scrub"
             PROVE  /\ picked'[d] = Selected(ask[d].old)'
                    /\ \A r \in Matching(ask[d].old)' : Ends(r)'
  BY DEF PickedAll
<1>1. d = c
  BY AloneSteps
<1>2. pc = [e \in Caller |-> pc[e]] /\ picked = [e \in Caller |-> picked[e]]
      /\ ask = [e \in Caller |-> ask[e]]
  BY DEF TypeOK
<1>3. PICK a \in Asks : Begin(c, a) \/ BeginConvert(c, a)
  <2>1. ASSUME NEW b, Leave(c, b)
        PROVE  FALSE
    BY <1>1, <1>2, <2>1 DEF Leave
  <2>2. ASSUME NEW s, Goto(c, s), s # "scrub"
        PROVE  FALSE
    BY <1>1, <1>2, <2>2 DEF Goto
  <2>3. \E b : Arrive(c, b)
    BY <2>1, <2>2, FlowOf
  <2>4. pc[c] = "idle"
    BY <2>3 DEF Arrive
  <2> QED BY <2>4 DEF StepOf, LookPhone, LookEmail, MergeKeep, MergeAway, Mark, Reread, FillColumn,
                      AnswerCanonical, Insert, Winner, Locate, Collide, Apply, Write, Scrub
<1>4. Arrive(c, a) /\ pc'[c] = Entry(a.kind) /\ a.kind \in Kinds /\ ask'[c] = a
  BY <1>2, <1>3, AsksTyped DEF Begin, BeginConvert, Arrive
<1>5. a.kind = "erase"
  BY <1>1, <1>4 DEF Entry, Kinds
<1>6. picked'[c] = Selected(a.old) /\ \A r \in Matching(a.old) : Ends(r)
  BY <1>2, <1>3, <1>5 DEF Begin, BeginConvert
<1>7. UNCHANGED <<rows, contact, mergedInto, erased>>
  BY <1>4 DEF Arrive, tableVars
<1>8. Selected(ask[d].old)' = Selected(a.old) /\ Matching(ask[d].old)' = Matching(a.old)
      /\ \A r : Ends(r)' = Ends(r)
  BY <1>1, <1>4, <1>7
     DEF Selected, Matching, Chain, Rows, Ends, Canonical
<1> QED BY <1>1, <1>6, <1>8

-----------------------------------------------------------------------------
(* A find that is alone.                                                   *)
Contactable == {"phone", "email"}

LEMMA RootsResolve ==
  ASSUME TypeOK, NEW r \in Row, mergedInto[r] = NoRow
  PROVE  Canonical(r) = r
<1>1. Links(mergedInto) /\ DOMAIN mergedInto = Row /\ NoRow = 0
  BY LinksOfRows DEF TypeOK, NoRow
<1> QED BY <1>1, RootOfRoot DEF Canonical

LEMMA FoundIs ==
  ASSUME TypeOK, NEW c \in Caller, NEW f \in Contactable
  PROVE  Found(c, f) = {r \in Rows : /\ ask[c].new[f] # NoValue /\ contact[r][f] = ask[c].new[f]
                                     /\ mergedInto[r] = NoRow /\ r \notin erased}
BY DEF Found, Find

(* No two rows are found for one column.                                   *)
LEMMA FoundOnce ==
  ASSUME TypeOK, StepsFit, Unique, NEW c \in Caller, pc[c] # "idle", NEW f \in Contactable,
         NEW r \in Found(c, f), NEW s \in Found(c, f)
  PROVE  r = s
<1>1. ask[c].new.email # Placeholder
  BY AsksAssumption DEF StepsFit
<1> QED BY <1>1, FoundIs DEF Contactable, Unique

(* A step that leaves the table alone leaves what is found.                *)
LEMMA FoundSame ==
  ASSUME UNCHANGED tableVars, UNCHANGED ask, NEW c
  PROVE  /\ \A f : Found(c, f)' = Found(c, f)
         /\ \A r : MineAlone(c, r)' = MineAlone(c, r)
         /\ \A r : Bears(c, r)' = Bears(c, r)
         /\ Rows' = Rows
BY DEF Found, Find, MineAlone, Bears, tableVars, Rows

(* Every column a find brings and nobody bears collides only with rows the *)
(* finders do not see.                                                     *)
LEMMA InsertThwarted ==
  ASSUME TypeOK, NEW c \in Caller, have[c].id = NoRow,
         Found(c, "phone") = {}, Found(c, "email") = {},
         Collides(rows + 1, ask[c].new) # {}
  PROVE  Thwarted(c)
<1>1. PICK s \in Rows \ {rows + 1} :
        \/ /\ mergedInto[s] = NoRow
           /\ \/ ask[c].new.phone # NoValue /\ contact[s].phone = ask[c].new.phone
              \/ ask[c].new.email \notin {NoValue, Placeholder} /\ contact[s].email = ask[c].new.email
        \/ ask[c].new.resident # NoValue /\ contact[s].resident = ask[c].new.resident
  BY DEF Collides
<1>2. s \in Row /\ s # have[c].id
  BY RowsTyped, RowsAre
<1>3. CASE ask[c].new.resident # NoValue /\ contact[s].resident = ask[c].new.resident
  BY <1>2, <1>3 DEF Thwarted
<1>4. CASE mergedInto[s] = NoRow /\ ask[c].new.phone # NoValue /\ contact[s].phone = ask[c].new.phone
  <2>1. s \in erased
    BY <1>4, FoundIs DEF Contactable
  <2> QED BY <1>4, <2>1 DEF Thwarted
<1>5. CASE mergedInto[s] = NoRow /\ ask[c].new.email # NoValue /\ contact[s].email = ask[c].new.email
  <2>1. s \in erased
    BY <1>5, FoundIs DEF Contactable
  <2> QED BY <1>5, <2>1 DEF Thwarted
<1> QED BY <1>1, <1>3, <1>4, <1>5

(* The column a fill writes.                                               *)
LEMMA FillWrites ==
  ASSUME TypeOK, NEW c \in Caller, Lacking(c) # {}, have[c].contact = contact[have[c].id],
         have[c].id \in Row
  PROVE  LET f == NextColumn(Lacking(c))
             n == [contact[have[c].id] EXCEPT ![f] = ask[c].new[f]]
         IN /\ f \in Columns /\ ask[c].new[f] # NoValue /\ contact[have[c].id][f] = NoValue
            /\ n \in Contacts /\ n[f] = ask[c].new[f]
            /\ \A g \in Columns \ {f} : n[g] = contact[have[c].id][g]
            /\ [have[c].contact EXCEPT ![f] = ask[c].new[f]] = n
<1> DEFINE f == NextColumn(Lacking(c))
<1>1. f \in Lacking(c)
  BY DEF NextColumn, Lacking
<1>2. contact[have[c].id] \in Contacts /\ ask[c].new \in Contacts
  BY DEF TypeOK, Request
<1>3. f \in Columns /\ ask[c].new[f] # NoValue /\ contact[have[c].id][f] = NoValue
  BY <1>1 DEF Lacking, Columns
<1> HIDE DEF f
<1>4. LET n == [contact[have[c].id] EXCEPT ![f] = ask[c].new[f]] IN
      /\ n \in Contacts /\ n[f] = ask[c].new[f]
      /\ \A g \in Columns \ {f} : n[g] = contact[have[c].id][g]
  <2> DEFINE q == contact[have[c].id]
             p == ask[c].new
  <2>1. q \in Contacts /\ p \in Contacts
    BY <1>2
  <2> HIDE DEF q, p
  <2>2. LET n == [q EXCEPT ![f] = p[f]] IN
        n \in Contacts /\ n[f] = p[f] /\ \A g \in Columns \ {f} : n[g] = q[g]
    BY <1>3, <2>1, ColumnSet
  <2> QED BY <2>2 DEF q, p
<1> QED BY <1>3, <1>4 DEF f

LEMMA FindsAloneKept ==
  ASSUME TypeOK, HoldsRows, StepsFit, Overlap, Unique, FindsAlone, NEW c \in Caller, StepOf(c)
  PROVE  FindsAlone'
<1> SUFFICES ASSUME c \notin met', pc'[c] # "idle", ask'[c].kind = "find"
             PROVE  FindAlone(c)'
  BY AloneSteps DEF FindsAlone
<1>1. /\ pc = [d \in Caller |-> pc[d]] /\ have = [d \in Caller |-> have[d]]
      /\ other = [d \in Caller |-> other[d]] /\ keep = [d \in Caller |-> keep[d]]
      /\ ask = [d \in Caller |-> ask[d]]
  BY DEF TypeOK
<1>2. ASSUME NEW a \in Asks, Begin(c, a)
      PROVE  FindAlone(c)'
  <2>1. ask'[c] = a /\ pc'[c] = Entry(a.kind) /\ have'[c] = Nothing
    BY <1>1, <1>2 DEF Begin, Arrive
  <2>2. pc'[c] = "lookPhone"
    BY <2>1 DEF Entry
  <2> QED BY <2>1, <2>2 DEF FindAlone
<1>3. ASSUME NEW a \in Asks, BeginConvert(c, a)
      PROVE  FALSE
  BY <1>1, <1>3 DEF BeginConvert, Arrive
<1> SUFFICES ASSUME ~ \E a \in Asks : Begin(c, a) \/ BeginConvert(c, a)
             PROVE  FindAlone(c)'
  BY <1>2, <1>3
<1>4. pc[c] # "idle" /\ UNCHANGED ask
  <2>1. pc[c] # "idle"
    BY DEF StepOf, LookPhone, LookEmail, MergeKeep, MergeAway, Mark, Reread, FillColumn,
           AnswerCanonical, Insert, Winner, Locate, Collide, Apply, Write, Scrub
  <2> QED BY <2>1, FlowOf DEF Arrive
<1>5. ask[c].kind = "find" /\ c \notin met /\ FindAlone(c)
  BY <1>4, AloneSteps DEF FindsAlone
<1>6. \A f \in Contactable : \A r \in Found(c, f) :
         r \in Row /\ r \in Rows /\ mergedInto[r] = NoRow /\ Found(c, f) \subseteq {r}
         /\ ask[c].new[f] # NoValue /\ contact[r][f] = ask[c].new[f]
  BY <1>4, FoundIs, FoundOnce, RowsTyped
<1>7. CASE LookPhone(c)
  <2>1. /\ pc[c] = "lookPhone" /\ pc'[c] = "lookEmail" /\ UNCHANGED tableVars
        /\ \/ \E r \in Found(c, "phone") : have' = [have EXCEPT ![c] = Read(r)]
           \/ Found(c, "phone") = {} /\ have' = have
    BY <1>1, <1>7 DEF LookPhone, Goto, Found
  <2>2. have[c].id = NoRow
    BY <1>5, <2>1, NobodyTyped DEF FindAlone
  <2>3. CASE Found(c, "phone") = {} /\ have' = have
    BY <1>4, <2>1, <2>2, <2>3, FoundSame DEF FindAlone
  <2>4. ASSUME NEW r \in Found(c, "phone"), have' = [have EXCEPT ![c] = Read(r)]
        PROVE  FindAlone(c)'
    <3>1. have'[c].id = r /\ have'[c].contact = contact'[r]
      BY <1>1, <1>6, <2>1, <2>4, ReadTyped DEF Contactable, tableVars
    <3>2. ByPhone(c)'
      BY <1>4, <2>1, <2>4, <3>1, FoundSame DEF ByPhone
    <3> QED BY <2>1, <3>2 DEF FindAlone
  <2> QED BY <2>1, <2>3, <2>4
<1>8. CASE LookEmail(c)
  <2>1. pc[c] = "lookEmail" /\ UNCHANGED tableVars /\ ByEmail(c) = Found(c, "email")
    BY <1>8 DEF LookEmail, Found, ByEmail
  <2>2. \/ have[c].id = NoRow /\ Found(c, "phone") = {}
        \/ ByPhone(c) /\ have[c].id # NoRow
    BY <1>5, <1>6, <2>1, RowsAre DEF FindAlone, ByPhone, Contactable
  <2>3. CASE /\ have' = have /\ Found(c, "email") \subseteq {have[c].id}
             /\ pc'[c] = IF have[c].id = NoRow THEN "insert" ELSE "fill"
    <3>1. CASE have[c].id = NoRow
      <4>1. Found(c, "phone") = {} /\ Found(c, "email") = {}
        BY <1>6, <2>2, <2>3, <3>1, RowsAre DEF Contactable
      <4> QED BY <1>4, <2>1, <2>3, <3>1, <4>1, FoundSame DEF FindAlone
    <3>2. CASE have[c].id # NoRow
      <4> DEFINE i == have[c].id
      <4>1. i \in Found(c, "phone") /\ have[c].contact = contact[i]
        BY <2>2, <3>2 DEF ByPhone
      <4>2. i \in Rows /\ mergedInto[i] = NoRow /\ Bears(c, i) /\ MineAlone(c, i)
        BY <1>6, <2>3, <4>1 DEF Bears, MineAlone, Contactable
      <4>3. /\ i \in Rows' /\ mergedInto'[i] = NoRow /\ Bears(c, i)' /\ MineAlone(c, i)'
            /\ have'[c].contact = contact'[i]
        BY <1>4, <2>1, <2>3, <4>1, <4>2, FoundSame DEF tableVars
      <4> QED BY <2>3, <3>2, <4>3 DEF FindAlone
    <3> QED BY <3>1, <3>2
  <2>4. ASSUME NEW r \in Found(c, "email"), have' = [have EXCEPT ![c] = Read(r)],
               have[c].id = NoRow, pc'[c] = "fill"
        PROVE  FindAlone(c)'
    <3>1. have'[c].id = r /\ have'[c].contact = contact[r]
      BY <1>1, <1>6, <2>4, ReadTyped DEF Contactable
    <3>2. Found(c, "phone") = {}
      BY <1>6, <2>2, <2>4, RowsAre DEF ByPhone
    <3>3. r \in Rows /\ mergedInto[r] = NoRow /\ Bears(c, r) /\ MineAlone(c, r)
      BY <1>6, <2>4, <3>2 DEF Bears, MineAlone, Contactable
    <3>4. r \in Rows' /\ mergedInto'[r] = NoRow /\ Bears(c, r)' /\ MineAlone(c, r)'
          /\ have'[c].contact = contact'[r]
      BY <1>4, <2>1, <3>1, <3>3, FoundSame DEF tableVars
    <3> QED BY <2>4, <3>1, <3>4 DEF FindAlone
  <2>5. ASSUME NEW r \in Found(c, "email") \ {have[c].id}, other' = [other EXCEPT ![c] = r],
               have' = have, have[c].id # NoRow, pc'[c] = "mergeKeep"
        PROVE  FindAlone(c)'
    <3>1. ByPhone(c) /\ other'[c] = r
      BY <1>1, <2>2, <2>5
    <3>2. ByPhone(c)' /\ other'[c] \in Found(c, "email")' \ {have'[c].id}
      BY <1>4, <2>1, <2>5, <3>1, FoundSame DEF ByPhone, tableVars
    <3> QED BY <2>5, <3>2 DEF FindAlone
  <2>6. \/ /\ have' = have /\ Found(c, "email") \subseteq {have[c].id}
           /\ pc'[c] = IF have[c].id = NoRow THEN "insert" ELSE "fill"
        \/ \E r \in Found(c, "email") : /\ have' = [have EXCEPT ![c] = Read(r)]
                                        /\ have[c].id = NoRow /\ pc'[c] = "fill"
        \/ \E r \in Found(c, "email") \ {have[c].id} :
              /\ other' = [other EXCEPT ![c] = r] /\ have' = have
              /\ have[c].id # NoRow /\ pc'[c] = "mergeKeep"
    BY <1>1, <1>8, <2>1 DEF LookEmail, Goto
  <2> QED BY <2>3, <2>4, <2>5, <2>6
<1>9. CASE MergeKeep(c)
  <2>1. /\ pc[c] = "mergeKeep" /\ pc'[c] = "mergeAway" /\ keep'[c] = Canonical(have[c].id)
        /\ UNCHANGED <<have, other, tableVars>>
    BY <1>1, <1>9 DEF MergeKeep, Goto, KeepOf
  <2>2. ByPhone(c) /\ other[c] \in Found(c, "email") \ {have[c].id}
    BY <1>5, <2>1 DEF FindAlone
  <2>3. keep'[c] = have'[c].id
    BY <1>6, <2>1, <2>2, RootsResolve DEF ByPhone, Contactable
  <2>4. ByPhone(c)' /\ other'[c] \in Found(c, "email")' \ {have'[c].id}
    BY <1>4, <2>1, <2>2, FoundSame DEF ByPhone, tableVars
  <2> QED BY <2>1, <2>3, <2>4 DEF FindAlone
<1>10. CASE MergeAway(c)
  <2>1. /\ pc[c] = "mergeAway" /\ other'[c] = Canonical(other[c]) /\ UNCHANGED <<have, keep, tableVars>>
        /\ pc'[c] = IF other'[c] = keep[c] THEN "reread" ELSE "mark"
    BY <1>1, <1>10 DEF MergeAway, Goto
  <2>2. ByPhone(c) /\ other[c] \in Found(c, "email") \ {have[c].id} /\ keep[c] = have[c].id
    BY <1>5, <2>1 DEF FindAlone
  <2>3. other'[c] = other[c] /\ pc'[c] = "mark"
    BY <1>6, <2>1, <2>2, RootsResolve DEF Contactable
  <2>4. ByPhone(c)' /\ other'[c] \in Found(c, "email")' \ {have'[c].id}
    BY <1>4, <2>1, <2>2, <2>3, FoundSame DEF ByPhone, tableVars
  <2> QED BY <2>1, <2>2, <2>3, <2>4 DEF FindAlone
<1>11. CASE Mark(c)
  <2> DEFINE i == have[c].id
  <2>1. /\ pc[c] = "mark" /\ pc'[c] = "reread" /\ UNCHANGED <<have, rows, contact, erased>>
        /\ mergedInto' = [mergedInto EXCEPT ![other[c]] = keep[c]]
    BY <1>1, <1>11 DEF Mark, Goto
  <2>2. ByPhone(c) /\ other[c] \in Found(c, "email") \ {i} /\ keep[c] = i
    BY <1>5, <2>1 DEF FindAlone
  <2>3. i \in Found(c, "phone") /\ have[c].contact = contact[i] /\ i \in Row /\ mergedInto[i] = NoRow
    BY <1>6, <2>2 DEF ByPhone, Contactable
  <2>4. /\ mergedInto'[other[c]] # NoRow /\ mergedInto'[i] = NoRow
        /\ \A r \in Row \ {other[c]} : mergedInto'[r] = mergedInto[r]
    BY <1>6, <2>1, <2>2, <2>3, RowsAre DEF TypeOK, Contactable
  <2>5. Rows' = Rows /\ Rows \subseteq Row
    BY <2>1, RowsTyped DEF Rows
  <2>6. \A f \in Contactable : Found(c, f)' = Found(c, f) \ {other[c]}
    BY <1>4, <2>1, <2>4, <2>5 DEF Found, Find
  <2>7. i \in Found(c, "phone")' /\ Found(c, "phone")' \subseteq {i} /\ Found(c, "email")' \subseteq {i}
    BY <1>6, <2>2, <2>3, <2>6 DEF Contactable
  <2> QED BY <2>1, <2>3, <2>7 DEF FindAlone, ByPhone, MineAlone
<1>12. CASE Reread(c)
  <2> DEFINE i == have[c].id
  <2>1. /\ pc[c] = "reread" /\ pc'[c] = "fill" /\ UNCHANGED tableVars
        /\ have' = [have EXCEPT ![c] = Read(Canonical(i))]
    BY <1>1, <1>5, <1>12 DEF Reread, Goto
  <2>2. i \in Found(c, "phone") /\ MineAlone(c, i)
    BY <1>5, <2>1 DEF FindAlone, ByPhone
  <2>3. i \in Row /\ i \in Rows /\ mergedInto[i] = NoRow /\ Bears(c, i) /\ Canonical(i) = i
    BY <1>6, <2>2, RootsResolve DEF Bears, Contactable
  <2>4. have'[c].id = i /\ have'[c].contact = contact[i]
    BY <1>1, <2>1, <2>3, ReadTyped
  <2>5. /\ i \in Rows' /\ mergedInto'[i] = NoRow /\ Bears(c, i)' /\ MineAlone(c, i)'
        /\ have'[c].contact = contact'[i]
    BY <1>4, <2>1, <2>2, <2>3, <2>4, FoundSame DEF tableVars
  <2> QED BY <2>1, <2>4, <2>5 DEF FindAlone
<1>13. CASE FillColumn(c)
  <2>10. PICK i \in Row : i = have[c].id
    BY <1>13 DEF FillColumn, HoldsRows, WithRow
  <2> DEFINE f == NextColumn(Lacking(c))
             n == [contact[i] EXCEPT ![f] = ask[c].new[f]]
             h == [have[c].contact EXCEPT ![f] = ask[c].new[f]]
  <2>1. /\ pc[c] = "fill" /\ Lacking(c) # {} /\ UNCHANGED <<rows, mergedInto, erased>>
        /\ pc'[c] = "fill" /\ contact' = [contact EXCEPT ![i] = n]
        /\ have' = [have EXCEPT ![c] = [have[c] EXCEPT !.contact = h]]
    BY <1>1, <1>13, <2>10 DEF FillColumn, Throw, Leave, Goto
  <2>2. /\ i \in Rows /\ mergedInto[i] = NoRow /\ have[c].contact = contact[i]
        /\ Bears(c, i) /\ MineAlone(c, i)
    BY <1>5, <2>1, <2>10 DEF FindAlone
  <2>3. i \in Row /\ Rows' = Rows /\ Rows \subseteq Row
    BY <2>1, <2>2, RowsTyped DEF Rows
  <2>4. /\ f \in Columns /\ ask[c].new[f] # NoValue /\ contact[i][f] = NoValue
        /\ n[f] = ask[c].new[f] /\ h = n
        /\ \A g \in Columns \ {f} : n[g] = contact[i][g]
    BY <2>1, <2>2, <2>3, <2>10, FillWrites
  <2> HIDE DEF f, n, h
  <2>5. have'[c].id = i /\ have'[c].contact = n
    <3>1. have[c] \in [id: Row \cup {NoRow}, contact: Contacts]
      BY DEF TypeOK
    <3>2. [have[c] EXCEPT !.contact = h].id = have[c].id /\ [have[c] EXCEPT !.contact = h].contact = h
      BY <3>1
    <3> QED BY <1>1, <2>1, <2>4, <2>10, <3>2
  <2>6. contact'[i] = n /\ \A r \in Row \ {i} : contact'[r] = contact[r]
    BY <2>1, <2>3 DEF TypeOK
  <2>7. Bears(c, i)'
    BY <1>4, <2>2, <2>4, <2>6 DEF Bears, Columns
  <2>8. \A g \in Contactable : Found(c, g)' \subseteq Found(c, g) \cup {i}
    BY <1>4, <2>1, <2>3, <2>6 DEF Found, Find
  <2>9. MineAlone(c, i)'
    BY <2>2, <2>8 DEF MineAlone, Contactable
  <2> QED BY <2>1, <2>2, <2>3, <2>5, <2>6, <2>7, <2>9 DEF FindAlone
<1>14. CASE Insert(c)
  <2>1. /\ pc[c] = "insert" /\ pc'[c] = "winner" /\ Collides(rows + 1, ask[c].new) # {}
        /\ UNCHANGED <<tableVars, have>>
    BY <1>1, <1>14 DEF Insert, Leave, Goto, tableVars
  <2>2. have[c].id = NoRow /\ Found(c, "phone") = {} /\ Found(c, "email") = {}
    BY <1>5, <2>1 DEF FindAlone
  <2>3. Thwarted(c)
    BY <2>1, <2>2, InsertThwarted
  <2>4. Thwarted(c)'
    BY <1>4, <2>1, <2>3 DEF Thwarted, tableVars, Rows
  <2> QED BY <1>4, <2>1, <2>2, <2>4, FoundSame DEF FindAlone
<1>15. CASE AnswerCanonical(c) \/ Winner(c) \/ Write(c) \/ Scrub(c)
  BY <1>1, <1>15 DEF AnswerCanonical, Winner, Write, Scrub, Throw, Leave
<1>16. CASE Locate(c) \/ Collide(c) \/ Apply(c)
  BY <1>5, <1>16 DEF StepsFit, Locate, Collide, Apply
<1> QED BY <1>7, <1>8, <1>9, <1>10, <1>11, <1>12, <1>13, <1>14, <1>15, <1>16 DEF StepOf

-----------------------------------------------------------------------------
(* The invariant.                                                          *)
LEMMA PeopleStart ==
  ASSUME Init
  PROVE  PeopleInv
<1> USE DEF Init
<1>1. TypeOK
  <2>1. /\ rows \in 0..MaxRows /\ calls \in 0..MaxCalls
    BY BoundsAssumption
  <2>2. contact \in [Row -> Contacts] /\ carried \in [Caller -> Contacts]
        /\ have \in [Caller -> [id: Row \cup {NoRow}, contact: Contacts]]
    BY NobodyTyped
  <2>3. [kind |-> "visit", new |-> Nobody, old |-> Nobody] \in Request
    BY NobodyTyped DEF Request, Kinds
  <2>4. ask \in [Caller -> Request]
    BY <2>3
  <2> QED BY <2>1, <2>2, <2>4 DEF TypeOK, Steps
<1>2. \A c \in Caller : pc[c] = "idle" /\ ask[c].kind = "visit" /\ picked[c] = {}
  OBVIOUS
<1>3. HoldsRows /\ StepsFit /\ Overlap /\ PickedAll /\ FindsAlone
  BY <1>2 DEF HoldsRows, WithRow, StepsFit, Overlap, Busy, PickedAll, FindsAlone
<1>4. ErasedAreRows
  BY <1>2 DEF ErasedAreRows
<1>5. ChainsStand
  <2>1. Links(mergedInto) /\ DOMAIN mergedInto = Row /\ NoRow = 0
    BY <1>1, LinksOfRows DEF TypeOK, NoRow
  <2>2. Orders(DOMAIN mergedInto, mergedInto, {})
    BY <2>1 DEF Orders
  <2> QED BY <1>2, <2>2 DEF ChainsStand, Acyclic, Merges
<1>6. HeldAreClear
  <2>1. Clear({})
    BY <1>2 DEF Clear
  <2> QED BY <2>1 DEF HeldAreClear
<1>7. Unique
  <2>1. Rows = {}
    BY DEF Rows
  <2> QED BY <2>1 DEF Unique
<1> QED BY <1>1, <1>3, <1>4, <1>5, <1>6, <1>7 DEF PeopleInv

LEMMA PeopleSteps ==
  ASSUME Next
  PROVE  \E c \in Caller : StepOf(c)
BY DEF Next, StepOf

LEMMA PeopleStep ==
  ASSUME PeopleInv, Next
  PROVE  PeopleInv'
<1>1. PICK c \in Caller : StepOf(c)
  BY PeopleSteps
<1> USE DEF PeopleInv
<1>2. TypeOK'
  <2>1. TableTypes' /\ LocalTypes' /\ HistTypes'
    BY <1>1, TableTypesKept, LocalTypesKept, HistTypesKept
  <2> QED BY <2>1 DEF TypeOK, TableTypes, LocalTypes, HistTypes
<1>3. HoldsRows' /\ StepsFit' /\ Overlap' /\ ErasedAreRows'
  BY <1>1, HoldsRowsKept, StepsFitKept, OverlapKept, ErasedAreRowsKept
<1>4. ChainsStand' /\ HeldAreClear'
  BY <1>1, ChainsStandKept, HeldAreClearKept
<1>5. Unique' /\ PickedAll' /\ FindsAlone'
  BY <1>1, UniqueKept, PickedAllKept, FindsAloneKept
<1> QED BY <1>2, <1>3, <1>4, <1>5

LEMMA PeopleStutter ==
  ASSUME PeopleInv, UNCHANGED vars
  PROVE  PeopleInv'
<1> USE DEF vars, tableVars, localVars, mergeVars, renameVars, histVars
<1>1. TypeOK' /\ HoldsRows' /\ StepsFit' /\ Overlap' /\ ErasedAreRows'
  BY DEF PeopleInv, TypeOK, HoldsRows, StepsFit, Overlap, ErasedAreRows, Busy, Rows
<1>2. ChainsStand' /\ HeldAreClear' /\ Unique'
  <2>1. ChainsStand'
    BY DEF PeopleInv, ChainsStand, Merges
  <2>2. HeldAreClear'
    BY DEF PeopleInv, HeldAreClear, Clear
  <2>3. Unique'
    BY DEF PeopleInv, Unique, Rows
  <2> QED BY <2>1, <2>2, <2>3
<1>3. PickedAll'
  BY DEF PeopleInv, PickedAll, Selected, Matching, Chain, Rows, Ends, Canonical
<1>4. FindsAlone'
  BY DEF PeopleInv, FindsAlone, FindAlone, ByPhone, Found, Find, MineAlone, Bears, Thwarted, Rows
<1> QED BY <1>1, <1>2, <1>3, <1>4 DEF PeopleInv

(* The inductive invariant of the identities of one tenant: what each      *)
(* request holds at each of its steps, that merges under way have roots in *)
(* hand, that nobody holds an anonymized row, that the unique indexes      *)
(* hold, and what a find or an anonymizer that is alone knows.             *)
THEOREM PeopleInductive == Spec => []PeopleInv
<1>1. Init => PeopleInv
  BY PeopleStart
<1>2. PeopleInv /\ [Next]_vars => PeopleInv'
  BY PeopleStep, PeopleStutter
<1> QED BY <1>1, <1>2, PTL DEF Spec

(* Every variable of the identities keeps its type.                        *)
THEOREM PeopleTyped == Spec => []TypeOK
<1>1. PeopleInv => TypeOK
  BY DEF PeopleInv
<1> QED BY <1>1, PeopleInductive, PTL

(* Unless two merges were under way at once, every chain of merges ends,   *)
(* and with it every loop of resolve_identity_id.                          *)
THEOREM ChainsAlwaysEnd == Spec => []ChainsEnd
<1>1. PeopleInv => ChainsEnd
  <2> SUFFICES ASSUME PeopleInv, ~crossed, NEW r \in Rows PROVE Ends(r)
    BY DEF ChainsEnd
  <2>1. Links(mergedInto) /\ DOMAIN mergedInto = Row /\ r \in Row
    BY LinksOfRows, RowsTyped DEF PeopleInv, TypeOK
  <2>2. Acyclic(mergedInto)
    BY DEF PeopleInv, ChainsStand
  <2> QED BY <2>1, <2>2, AcyclicEnds DEF Ends
<1> QED BY <1>1, PeopleInductive, PTL

(* A row anonymized while nothing else was under way gets no contact back  *)
(* but from the conversion of the chat session that still names it.        *)
THEOREM AnonymizedStays == Spec => ErasedStays
<1> DEFINE Stays == \A r \in erased \ hurried :
              contact'[r] # contact[r] => \E c \in Caller : ask[c].kind = "convert" /\ Write(c)
<1>1. ASSUME PeopleInv, Next
      PROVE  Stays
  <2>1. PICK c \in Caller : StepOf(c)
    BY <1>1, PeopleSteps
  <2> SUFFICES ASSUME NEW r \in erased \ hurried, contact'[r] # contact[r]
               PROVE  ask[c].kind = "convert" /\ Write(c)
    OBVIOUS
  <2>2. TypeOK /\ HoldsRows /\ StepsFit /\ ErasedAreRows
    BY <1>1 DEF PeopleInv
  <2>3. r \in Row /\ r \in Rows /\ rows + 1 \notin Rows
    BY <2>2, RowsTyped DEF ErasedAreRows
  <2>4. ~Scrub(c)
    BY <2>3 DEF Scrub
  <2>5. ~Mark(c) /\ contact' # contact
    BY DEF Mark
  <2>6. ~Adds(c)
    BY <2>2, <2>3 DEF Adds, TypeOK
  <2>7. Rewrites(c)
    BY <2>1, <2>2, <2>4, <2>5, <2>6, TableMoves DEF tableVars
  <2>8. r = have[c].id
    BY <2>2, <2>3, <2>7 DEF Rewrites, TypeOK
  <2>9. pc[c] \notin {"fill", "apply"}
    <3>1. PICK T \in SUBSET Row : Clear(T)
      BY <1>1 DEF PeopleInv, HeldAreClear
    <3>2. r \notin T
      BY <3>1 DEF Clear
    <3> QED BY <2>3, <2>8, <3>1, <3>2, RowsAre DEF Clear
  <2>10. pc[c] = "write"
    BY <2>7, <2>9 DEF Rewrites
  <2>11. Write(c)
    BY <2>1, <2>10 DEF StepOf, Begin, BeginConvert, Arrive, LookPhone, LookEmail, MergeKeep, MergeAway,
       Mark, Reread, FillColumn, AnswerCanonical, Insert, Winner, Locate, Collide, Apply, Scrub
  <2> QED BY <2>2, <2>10, <2>11 DEF StepsFit
<1>2. ASSUME PeopleInv, [Next]_vars
      PROVE  [Stays]_vars
  BY <1>1, <1>2
<1> QED BY <1>2, PeopleInductive, PTL DEF Spec, ErasedStays

(* An anonymizer that was alone leaves nothing that matches its subject,   *)
(* on any row of the merge chains.                                         *)
THEOREM AnonymizedTogether == Spec => ErasedTogether
<1> DEFINE Together == \A c \in Caller \ met :
              Scrub(c) => /\ Matching(ask[c].old)' = {}
                          /\ \A r \in picked[c] : Chain(r) \subseteq erased'
<1>1. ASSUME PeopleInv, NEW c \in Caller \ met, Scrub(c)
      PROVE  Matching(ask[c].old)' = {} /\ \A r \in picked[c] : Chain(r) \subseteq erased'
  <2> DEFINE who == ask[c].old
  <2>1. TypeOK /\ picked[c] = Selected(who) /\ \A r \in Matching(who) : Ends(r)
    BY <1>1 DEF PeopleInv, PickedAll, Scrub
  <2>2. /\ erased' = erased \cup (picked[c] \ erased) /\ UNCHANGED <<rows, ask>>
        /\ \A r \in Row : contact'[r] = IF r \in picked[c] \ erased
                                        THEN [Nobody EXCEPT !.email = Placeholder] ELSE contact[r]
    BY <1>1 DEF Scrub
  <2>3. Matching(who) \subseteq picked[c]
    BY <2>1 DEF Selected, Chain, Matching
  <2>4. Matching(ask[c].old)' = {}
    <3> SUFFICES ASSUME NEW r \in Matching(ask[c].old)' PROVE FALSE
      OBVIOUS
    <3>1. r \in Rows /\ r \in Row /\ r \notin erased /\ r \notin picked[c]
      BY <2>1, <2>2, RowsTyped DEF Matching, Rows
    <3>2. contact'[r] = contact[r]
      BY <2>2, <3>1
    <3>3. r \in Matching(who)
      BY <2>2, <3>1, <3>2 DEF Matching, Rows
    <3> QED BY <2>3, <3>1, <3>3
  <2>5. ASSUME NEW r \in picked[c]
        PROVE  Chain(r) \subseteq erased'
    <3>1. PICK m \in Matching(who) : r \in Chain(m)
      BY <2>1, <2>5 DEF Selected
    <3>2. Chain(r) \subseteq Chain(m)
      BY <3>1 DEF Chain
    <3>3. Chain(m) \subseteq picked[c]
      BY <2>1 DEF Selected
    <3> QED BY <2>2, <3>2, <3>3
  <2> QED BY <2>4, <2>5
<1>2. ASSUME PeopleInv, [Next]_vars
      PROVE  [Together]_vars
  <2> SUFFICES ASSUME NEW c \in Caller \ met, Scrub(c)
               PROVE  Matching(ask[c].old)' = {} /\ \A r \in picked[c] : Chain(r) \subseteq erased'
    OBVIOUS
  <2> QED BY <1>1, <1>2
<1> QED BY <1>2, PeopleInductive, PTL DEF Spec, ErasedTogether

(* A find that no other request overlapped answers a row that bears what   *)
(* was asked for, leaves it on no second person, and throws only because   *)
(* of a resident id another row holds or a contact on an anonymized row.   *)
THEOREM FindsSettle == Spec => FindSettles
<1> DEFINE Settled(c) ==
      LET r == answer'[c]
          new == ask[c].new
      IN /\ r \in Row =>
              /\ \E f \in {"phone", "email"} : new[f] # NoValue /\ contact'[r][f] = new[f]
              /\ \A f \in {"phone", "email"} : Find(f, new[f])' \subseteq {r}
         /\ r = Thrown =>
              \/ \E s \in Rows : /\ s # have[c].id
                                /\ new.resident # NoValue /\ contact[s].resident = new.resident
              \/ \E s \in erased, f \in {"phone", "email"} :
                    new[f] # NoValue /\ contact[s][f] = new[f]
<1>1. ASSUME PeopleInv, NEW c \in Caller \ met, pc[c] # "idle", ask[c].kind = "find", StepOf(c),
             answer'[c] # NoRow
      PROVE  Settled(c)
  <2>1. TypeOK /\ HoldsRows /\ StepsFit /\ Unique /\ FindAlone(c)
    BY <1>1 DEF PeopleInv, FindsAlone
  <2>2. /\ answer = [d \in Caller |-> answer[d]] /\ answer[c] = NoRow
        /\ \A s : ~Goto(c, s)
    BY <1>1, <2>1 DEF TypeOK, StepsFit, Goto
  <2>3. \A f \in Contactable : \A r \in Found(c, f) :
         r \in Row /\ r \in Rows /\ mergedInto[r] = NoRow /\ Found(c, f) \subseteq {r}
         /\ ask[c].new[f] # NoValue /\ contact[r][f] = ask[c].new[f]
    BY <1>1, <2>1, FoundIs, FoundOnce, RowsTyped
  <2>4. CASE AnswerCanonical(c)
    <3>1. pc[c] = "fill" /\ UNCHANGED <<tableVars, ask>> /\ answer'[c] = Canonical(have[c].id)
      BY <1>1, <2>1, <2>2, <2>4 DEF AnswerCanonical, Leave, StepsFit
    <3>2. PICK i \in Row : i = have[c].id
      BY <2>1, <3>1 DEF HoldsRows, WithRow
    <3>3. mergedInto[i] = NoRow /\ Bears(c, i) /\ MineAlone(c, i)
      BY <2>1, <3>1, <3>2 DEF FindAlone
    <3>4. answer'[c] = i /\ i # Thrown
      BY <2>1, <3>1, <3>2, <3>3, RootsResolve, RowsAre
    <3>5. Bears(c, i)' /\ MineAlone(c, i)'
      BY <3>1, <3>3, FoundSame
    <3> QED BY <3>1, <3>4, <3>5 DEF Bears, MineAlone, Found
  <2>5. CASE FillColumn(c)
    <3> DEFINE f == NextColumn(Lacking(c))
    <3>1. PICK i \in Row : i = have[c].id
      BY <2>1, <2>5 DEF FillColumn, HoldsRows, WithRow
    <3> DEFINE n == [contact[i] EXCEPT ![f] = ask[c].new[f]]
    <3>2. pc[c] = "fill" /\ Lacking(c) # {} /\ Refused(i, n, i \in anonymous) /\ answer'[c] = Thrown
      BY <2>2, <2>5, <3>1 DEF FillColumn, Throw, Leave
    <3>3. /\ i \in Rows /\ mergedInto[i] = NoRow /\ have[c].contact = contact[i]
          /\ Bears(c, i) /\ MineAlone(c, i)
      BY <2>1, <3>1, <3>2 DEF FindAlone
    <3>4. /\ f \in Columns /\ ask[c].new[f] # NoValue /\ contact[i][f] = NoValue
          /\ n \in Contacts /\ n[f] = ask[c].new[f]
          /\ \A g \in Columns \ {f} : n[g] = contact[i][g]
      BY <2>1, <3>1, <3>2, <3>3, FillWrites
    <3> HIDE DEF f, n
    <3>5. n.phone # NoValue \/ n.email # NoValue
      BY <3>3, <3>4 DEF Bears, Columns
    <3>6. PICK s \in Rows \ {i} :
            \/ /\ mergedInto[s] = NoRow
               /\ \/ n.phone # NoValue /\ contact[s].phone = n.phone
                  \/ n.email \notin {NoValue, Placeholder} /\ contact[s].email = n.email
            \/ n.resident # NoValue /\ contact[s].resident = n.resident
      BY <3>2, <3>5 DEF Refused, Collides
    <3>7. answer'[c] \notin Row
      BY <3>2, RowsAre
    <3>8. CASE n.resident # NoValue /\ contact[s].resident = n.resident
      <4>1. f = "resident"
        BY <2>1, <3>3, <3>4, <3>6, <3>8 DEF Unique, Columns
      <4> QED BY <3>1, <3>4, <3>6, <3>7, <3>8, <4>1
    <3>9. CASE mergedInto[s] = NoRow /\ n.phone # NoValue /\ contact[s].phone = n.phone
      <4>1. f = "phone"
        BY <2>1, <3>3, <3>4, <3>6, <3>9 DEF Unique, Columns
      <4>2. s \notin Found(c, "phone")
        BY <3>3, <3>6 DEF MineAlone
      <4>3. s \in erased
        BY <2>1, <3>4, <3>6, <3>9, <4>1, <4>2, FoundIs DEF Contactable
      <4> QED BY <3>4, <3>7, <3>9, <4>1, <4>3
    <3>10. CASE mergedInto[s] = NoRow /\ n.email \notin {NoValue, Placeholder} /\ contact[s].email = n.email
      <4>1. f = "email"
        BY <2>1, <3>3, <3>4, <3>6, <3>10 DEF Unique, Columns
      <4>2. s \notin Found(c, "email")
        BY <3>3, <3>6 DEF MineAlone
      <4>3. s \in erased
        BY <2>1, <3>4, <3>6, <3>10, <4>1, <4>2, FoundIs DEF Contactable
      <4> QED BY <3>4, <3>7, <3>10, <4>1, <4>3
    <3> QED BY <3>6, <3>8, <3>9, <3>10
  <2>6. CASE Insert(c)
    <3> DEFINE i == rows + 1
    <3>1. /\ pc[c] = "insert" /\ rows < MaxRows /\ answer'[c] = i /\ rows' = i
          /\ contact' = [contact EXCEPT ![i] = ask[c].new]
          /\ UNCHANGED <<mergedInto, erased, ask>>
      BY <2>2, <2>6 DEF Insert, Leave
    <3>2. i \in Row /\ i # Thrown /\ rows \in Nat
      BY <2>1, <3>1, BoundsAssumption, RowsAre DEF TypeOK, Row
    <3>3. contact'[i] = ask[c].new /\ \A r \in Row \ {i} : contact'[r] = contact[r]
      BY <2>1, <3>1, <3>2 DEF TypeOK
    <3>4. Rows' = Rows \cup {i} /\ Rows \subseteq Row /\ i \notin Rows
      BY <2>1, <3>1, <3>2, RowsTyped DEF Rows
    <3>5. Found(c, "phone") = {} /\ Found(c, "email") = {}
      BY <2>1, <3>1 DEF FindAlone
    <3> HIDE DEF i
    <3>6. ask[c].new.phone # NoValue \/ ask[c].new.email # NoValue
      BY <1>1, <2>1, AsksAssumption DEF StepsFit
    <3>7. \A f \in Contactable : Find(f, ask[c].new[f])' \subseteq {answer'[c]}
      BY <3>1, <3>3, <3>4, <3>5 DEF Contactable, Found, Find
    <3> QED BY <3>1, <3>2, <3>3, <3>6, <3>7 DEF Contactable
  <2>7. CASE Winner(c)
    <3>1. pc[c] = "winner" /\ Found(c, "phone") = {} /\ Found(c, "email") = {} /\ Thwarted(c)
      BY <2>1, <2>7 DEF FindAlone, Winner
    <3>2. answer'[c] = Thrown
      BY <2>2, <2>7, <3>1 DEF Winner, Throw, Leave, Found
    <3> QED BY <3>1, <3>2, RowsAre DEF Thwarted
  <2>8. CASE Locate(c) \/ Collide(c) \/ Apply(c) \/ Write(c) \/ Scrub(c)
    BY <1>1, <2>1, <2>8 DEF StepsFit, Locate, Collide, Apply, Write, Scrub
  <2>9. CASE LookPhone(c) \/ LookEmail(c) \/ MergeKeep(c) \/ MergeAway(c) \/ Mark(c) \/ Reread(c)
    BY <2>2, <2>9 DEF LookPhone, LookEmail, MergeKeep, MergeAway, Mark, Reread
  <2>10. ASSUME NEW a, Begin(c, a) \/ BeginConvert(c, a)
         PROVE  FALSE
    BY <1>1, <2>10 DEF Begin, BeginConvert, Arrive
  <2> QED BY <1>1, <2>4, <2>5, <2>6, <2>7, <2>8, <2>9, <2>10 DEF StepOf
<1>2. ASSUME PeopleInv, Next, NEW c \in Caller \ met, pc[c] # "idle", ask[c].kind = "find"
      PROVE  Settled(c)
  <2>1. PICK d \in Caller : StepOf(d)
    BY <1>2, PeopleSteps
  <2>2. CASE answer'[c] = NoRow
    BY <2>2, RowsAre
  <2>3. CASE d # c
    <3>1. answer'[c] = NoRow
      BY <1>2, <2>1, <2>3, Others DEF PeopleInv, OthersStay, StepsFit
    <3> QED BY <2>2, <3>1
  <2> QED BY <1>1, <1>2, <2>1, <2>2, <2>3
<1> DEFINE Settles == \A c \in Caller \ met : pc[c] # "idle" /\ ask[c].kind = "find" => Settled(c)
<1>3. ASSUME PeopleInv, [Next]_vars
      PROVE  [Settles]_vars
  <2> HIDE DEF Settled
  <2> QED BY <1>2, <1>3
<1> QED BY <1>3, PeopleInductive, PTL DEF Spec, FindSettles
=============================================================================
