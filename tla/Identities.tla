----------------------------- MODULE Identities -----------------------------
(***************************************************************************)
(* The people of one tenant: rows of the identities table that are found   *)
(* or created by contact, merged, renamed, converted from anonymous chat   *)
(* visitors, and anonymized.  A merge only points one row at another; the  *)
(* canonical row of a person is the end of that chain.                     *)
(*                                                                         *)
(* One action is one database statement; the reads a method makes before   *)
(* it decides anything are one step.  Callers are requests in flight: no   *)
(* method takes a lock, and only the anonymizer runs in a transaction.     *)
(* Names, the merge log and the conversion log are left out.               *)
(***************************************************************************)
EXTENDS Integers, FiniteSets, MergeChains

CONSTANTS
  Caller,     \* requests in flight at once
  Phone,      \* normalized numbers
  Email,      \* normalized addresses
  Resident,   \* resident ids of reside
  NoValue,    \* the null of every column
  Asks,       \* the requests a caller may bring
  MaxRows,    \* bound: identities rows
  MaxCalls    \* bound: requests

ASSUME ValuesAssumption == NoValue \notin Phone \cup Email \cup Resident
ASSUME BoundsAssumption == MaxRows \in Nat \ {0} /\ MaxCalls \in Nat

Row == 1..MaxRows
NoRow == 0
Thrown == -1

VARIABLES
  \* the identities table
  rows,      \* ids 1..rows exist
  contact,   \* row -> phone, email, resident: the unique columns
  anonymous, \* is_anonymous
  mergedInto,\* merged_into_id
  erased,    \* rows with anonymized_at set
  \* a request
  pc,
  ask,       \* what it was asked
  have,      \* the row it works on, with the contact it read there
  other,     \* the row it is about to merge away
  keep,      \* the canonical row it resolved to keep
  todo,      \* columns a rename has yet to look for a collision on
  carried,   \* contact of the collided rows, to put on the survivor
  picked,    \* rows the anonymizer selected
  \* history and budget
  answer,    \* the row it answered, or "threw"
  met,       \* requests that overlapped another one
  hurried,   \* rows scrubbed while another request was under way
  crossed,   \* two merges were under way at once
  calls

tableVars == <<rows, contact, anonymous, mergedInto, erased>>
mergeVars == <<other, keep>>
renameVars == <<todo, carried>>
localVars == <<pc, ask, have, mergeVars, renameVars, picked>>
histVars  == <<answer, met, hurried, crossed, calls>>
vars == <<tableVars, localVars, histVars>>

Placeholder == "anonymized.invalid"  \* the address an anonymized row is given
Contacts == [phone: Phone \cup {NoValue}, email: Email \cup {NoValue, Placeholder},
             resident: Resident \cup {NoValue}]
Nobody == [phone |-> NoValue, email |-> NoValue, resident |-> NoValue]
Nothing == [id |-> NoRow, contact |-> Nobody]

Kinds == {"find", "visit", "rename", "convert", "erase"}
Steps == {"idle", "lookPhone", "lookEmail", "mergeKeep", "mergeAway", "mark", "reread",
          "fill", "insert", "winner", "locate", "collide", "apply", "canonical",
          "write", "scrub"}

(* A request: the contact a find, a visit or a convert brings; the old and *)
(* the new contact of a rename; the contact an erase looks for.            *)
Request == [kind: Kinds, new: Contacts, old: Contacts]

(* Nobody's own address is a placeholder, and no find is without a phone   *)
(* and an address (identityContactSchema).                                 *)
ASSUME AsksAssumption ==
  /\ Asks \subseteq Request
  /\ \A a \in Asks : /\ a.new.email # Placeholder
                     /\ a.kind = "find" => a.new.phone # NoValue \/ a.new.email # NoValue

TypeOK ==
  /\ rows \in 0..MaxRows
  /\ contact \in [Row -> Contacts]
  /\ anonymous \in SUBSET Row
  /\ mergedInto \in [Row -> Row \cup {NoRow}]
  /\ erased \in SUBSET Row
  /\ pc \in [Caller -> Steps]
  /\ ask \in [Caller -> Request]
  /\ have \in [Caller -> [id: Row \cup {NoRow}, contact: Contacts]]
  /\ other \in [Caller -> Row \cup {NoRow}]
  /\ keep \in [Caller -> Row \cup {NoRow}]
  /\ todo \in [Caller -> SUBSET {"phone", "email"}]
  /\ carried \in [Caller -> Contacts]
  /\ picked \in [Caller -> SUBSET Row]
  /\ answer \in [Caller -> Row \cup {NoRow, Thrown}]
  /\ met \in SUBSET Caller
  /\ hurried \in SUBSET Row
  /\ crossed \in BOOLEAN
  /\ calls \in 0..MaxCalls

Init ==
  /\ rows = 0
  /\ contact = [r \in Row |-> Nobody]
  /\ anonymous = {}
  /\ mergedInto = [r \in Row |-> NoRow]
  /\ erased = {}
  /\ pc = [c \in Caller |-> "idle"]
  /\ ask = [c \in Caller |-> [kind |-> "visit", new |-> Nobody, old |-> Nobody]]
  /\ have = [c \in Caller |-> Nothing]
  /\ other = [c \in Caller |-> NoRow]
  /\ keep = [c \in Caller |-> NoRow]
  /\ todo = [c \in Caller |-> {}]
  /\ carried = [c \in Caller |-> Nobody]
  /\ picked = [c \in Caller |-> {}]
  /\ answer = [c \in Caller |-> NoRow]
  /\ met = {}
  /\ hurried = {}
  /\ crossed = FALSE
  /\ calls = 0

-----------------------------------------------------------------------------
(* The table.                                                              *)

Rows == 1..rows

(* resolve_identity_id, which loops for ever on a row whose chain has no   *)
(* end, and identity_merge_chain_ids.                                      *)
Ends(r) == Ended(mergedInto, r)

Canonical(r) == Root(mergedInto, r)

Chain(r) == {s \in Rows : Ends(s) /\ Canonical(s) = Canonical(r)}

Read(r) == [id |-> r, contact |-> contact[r]]

(* findIdentityByPhone, ByEmail, ByResideResidentId; the mutant matches    *)
(* anonymized rows too.                                                    *)
FindErased(column, value) ==
  {r \in Rows : value # NoValue /\ contact[r][column] = value /\ mergedInto[r] = NoRow}

Find(column, value) ==
  {r \in Rows : /\ value # NoValue /\ contact[r][column] = value
                /\ mergedInto[r] = NoRow /\ r \notin erased}

(* The unique indexes.  Phone and email are unique among the rows that are *)
(* not merged away, the resident id among all.                             *)
Collides(r, new) ==
  {s \in Rows \ {r} :
     \/ /\ mergedInto[s] = NoRow /\ mergedInto[r] = NoRow
        /\ \/ new.phone # NoValue /\ contact[s].phone = new.phone
           \/ new.email \notin {NoValue, Placeholder} /\ contact[s].email = new.email
     \/ new.resident # NoValue /\ contact[s].resident = new.resident}

-----------------------------------------------------------------------------
(* A request begins and ends.                                              *)

Busy == {c \in Caller : pc[c] # "idle"}

Entry(kind) ==
  CASE kind = "find" -> "lookPhone" [] kind = "visit" -> "insert" [] kind = "rename" -> "locate"
    [] kind = "convert" -> "write" [] kind = "erase" -> "scrub"

Goto(c, s) == pc' = [pc EXCEPT ![c] = s] /\ UNCHANGED answer

Leave(c, a) ==
  /\ pc' = [pc EXCEPT ![c] = "idle"]
  /\ answer' = [answer EXCEPT ![c] = a]

Throw(c) == Leave(c, Thrown)

(* anonymizeIdentities: the rows that match, with the whole merge chain of *)
(* each.  The mutant takes the matching rows only.                         *)
Matching(who) ==
  {r \in Rows \ erased : \E f \in {"phone", "email", "resident"} :
                          who[f] # NoValue /\ contact[r][f] = who[f]}

SelectedAlone(who) == Matching(who)

Selected(who) == UNION {Chain(r) : r \in Matching(who)}

(* The rows a chat session may have been opened for. *)
Pinnable == {r \in Rows : r \in anonymous \/ contact[r].email # NoValue}

(* A request comes in. *)
Arrive(c, a) ==
  /\ pc[c] = "idle"
  /\ calls < MaxCalls
  /\ ask' = [ask EXCEPT ![c] = a]
  /\ pc' = [pc EXCEPT ![c] = Entry(a.kind)]
  /\ answer' = [answer EXCEPT ![c] = NoRow]
  /\ met' = IF Busy = {} THEN {} ELSE met \cup Busy \cup {c}
  /\ calls' = calls + 1
  /\ UNCHANGED <<tableVars, mergeVars, renameVars, hurried, crossed>>

(* Over HTTP.  An erase reads in this step the rows it is about to write.  *)
Begin(c, a) ==
  /\ a.kind # "convert"
  /\ a.kind = "erase" => \A r \in Matching(a.old) : Ends(r)
  /\ Arrive(c, a)
  /\ have' = [have EXCEPT ![c] = Nothing]
  /\ picked' = [picked EXCEPT ![c] = IF a.kind = "erase" THEN Selected(a.old) ELSE {}]

(* capture_contact_info, a tool call in a visitor's chat session, for the  *)
(* identity the session pinned, which is read in this step.  What the      *)
(* conversion throws is the tool's output.                                 *)
BeginConvert(c, a) ==
  /\ a.kind = "convert"
  /\ Arrive(c, a)
  /\ \E r \in Pinnable : have' = [have EXCEPT ![c] = Read(r)]
  /\ picked' = [picked EXCEPT ![c] = {}]

-----------------------------------------------------------------------------
(* findOrCreateIdentity                                                    *)

LookPhone(c) ==
  /\ pc[c] = "lookPhone"
  /\ \/ \E r \in Find("phone", ask[c].new.phone) : have' = [have EXCEPT ![c] = Read(r)]
     \/ Find("phone", ask[c].new.phone) = {} /\ UNCHANGED have
  /\ Goto(c, "lookEmail")
  /\ UNCHANGED <<tableVars, ask, mergeVars, renameVars, picked, met, hurried, crossed, calls>>

(* The mutant looks by email only when the phone found nobody. *)
ByEmailElse(c) == IF have[c].id = NoRow THEN Find("email", ask[c].new.email) ELSE {}

ByEmail(c) == Find("email", ask[c].new.email)

LookEmail(c) ==
  /\ pc[c] = "lookEmail"
  /\ LET found == ByEmail(c) IN
     \/ /\ found \subseteq {have[c].id}
        /\ Goto(c, IF have[c].id = NoRow THEN "insert" ELSE "fill")
        /\ UNCHANGED <<have, other>>
     \/ /\ have[c].id = NoRow
        /\ \E r \in found : have' = [have EXCEPT ![c] = Read(r)]
        /\ Goto(c, "fill")
        /\ UNCHANGED other
     \/ /\ have[c].id # NoRow
        /\ \E r \in found \ {have[c].id} : other' = [other EXCEPT ![c] = r]
        /\ Goto(c, "mergeKeep")
        /\ UNCHANGED have
  /\ UNCHANGED <<tableVars, ask, keep, renameVars, picked, met, hurried, crossed, calls>>

(* mergeIdentities: two resolutions, then the one update.  The mutant      *)
(* keeps the row it was given.                                             *)
KeepOfRow(c) == have[c].id

KeepOf(c) == Canonical(have[c].id)

MergeKeep(c) ==
  /\ pc[c] = "mergeKeep"
  /\ Ends(have[c].id)
  /\ keep' = [keep EXCEPT ![c] = KeepOf(c)]
  /\ crossed' = (crossed \/ \E d \in Caller : pc[d] \in {"mergeAway", "mark"})
  /\ Goto(c, "mergeAway")
  /\ UNCHANGED <<tableVars, ask, have, other, renameVars, picked, met, hurried, calls>>

MergeAway(c) ==
  /\ pc[c] = "mergeAway"
  /\ Ends(other[c])
  /\ LET away == Canonical(other[c]) IN
     /\ Goto(c, IF away = keep[c] THEN "reread" ELSE "mark")
     /\ other' = [other EXCEPT ![c] = away]
  /\ UNCHANGED <<tableVars, ask, have, keep, renameVars, picked, met, hurried, crossed, calls>>

Mark(c) ==
  /\ pc[c] = "mark"
  /\ mergedInto' = [mergedInto EXCEPT ![other[c]] = keep[c]]
  /\ Goto(c, "reread")
  /\ UNCHANGED <<rows, contact, anonymous, erased, ask, have, mergeVars, renameVars, picked,
                 met, hurried, crossed, calls>>

(* getCanonicalIdentity of the row in hand. *)
Reread(c) ==
  /\ pc[c] = "reread"
  /\ Ends(have[c].id)
  /\ have' = [have EXCEPT ![c] = Read(Canonical(have[c].id))]
  /\ Goto(c, IF ask[c].kind = "rename" THEN "collide" ELSE "fill")
  /\ UNCHANGED <<tableVars, ask, mergeVars, renameVars, picked, met, hurried, crossed, calls>>

(* An update of contact columns by id: it commits, or a unique index or    *)
(* identities_contact_required makes it throw.                             *)
Refused(r, new, anon) ==
  \/ Collides(r, new) # {}
  \/ new.phone = NoValue /\ new.email = NoValue /\ ~anon

(* Columns the request has and the row lacked when it was read; they are   *)
(* written one statement each, phone first and resident last.              *)
Lacking(c) ==
  {f \in {"phone", "email", "resident"} :
     ask[c].new[f] # NoValue /\ have[c].contact[f] = NoValue}

NextColumn(fields) ==
  IF "phone" \in fields THEN "phone" ELSE IF "email" \in fields THEN "email" ELSE "resident"

FillColumn(c) ==
  /\ pc[c] = "fill"
  /\ Lacking(c) # {}
  /\ LET r == have[c].id
         f == NextColumn(Lacking(c))
         new == [contact[r] EXCEPT ![f] = ask[c].new[f]]
     IN \/ /\ Refused(r, new, r \in anonymous)
           /\ Throw(c)
           /\ UNCHANGED <<contact, have>>
        \/ /\ ~Refused(r, new, r \in anonymous)
           /\ contact' = [contact EXCEPT ![r] = new]
           /\ have' = [have EXCEPT ![c].contact[f] = ask[c].new[f]]
           /\ Goto(c, "fill")
  /\ UNCHANGED <<rows, anonymous, mergedInto, erased, ask, mergeVars, renameVars, picked,
                 met, hurried, crossed, calls>>

(* The row is returned as the chain ends now: after a fill with nothing    *)
(* lacking, and after a rename's update.                                   *)
AnswerCanonical(c) ==
  /\ \/ pc[c] = "fill" /\ Lacking(c) = {}
     \/ pc[c] = "canonical"
  /\ Ends(have[c].id)
  /\ Leave(c, Canonical(have[c].id))
  /\ UNCHANGED <<tableVars, ask, have, mergeVars, renameVars, picked, met, hurried, crossed, calls>>

(* The insert, of a contact or of an anonymous visitor; on conflict it     *)
(* does nothing.                                                           *)
Insert(c) ==
  /\ pc[c] = "insert"
  /\ rows < MaxRows
  /\ \/ /\ Collides(rows + 1, ask[c].new) = {}
        /\ rows' = rows + 1
        /\ contact' = [contact EXCEPT ![rows + 1] = ask[c].new]
        /\ anonymous' = IF ask[c].kind = "visit" THEN anonymous \cup {rows + 1} ELSE anonymous
        /\ Leave(c, rows + 1)
     \/ /\ Collides(rows + 1, ask[c].new) # {}
        /\ Goto(c, "winner")
        /\ UNCHANGED <<rows, contact, anonymous>>
  /\ UNCHANGED <<mergedInto, erased, ask, have, mergeVars, renameVars, picked, met, hurried,
                 crossed, calls>>

(* The insert lost: the lookups are made once more. *)
Winner(c) ==
  /\ pc[c] = "winner"
  /\ LET byPhone == Find("phone", ask[c].new.phone)
         byEmail == Find("email", ask[c].new.email)
     IN \/ \E r \in byPhone : Leave(c, r)
        \/ byPhone = {} /\ \E r \in byEmail : Leave(c, r)
        \/ byPhone = {} /\ byEmail = {} /\ Throw(c)
  /\ UNCHANGED <<tableVars, ask, have, mergeVars, renameVars, picked, met, hurried, crossed, calls>>

-----------------------------------------------------------------------------
(* renameIdentity.  A null new phone takes the phone away.                 *)

Located(c) ==
  LET byResident == Find("resident", ask[c].new.resident)
      byEmail == Find("email", ask[c].old.email)
      byPhone == Find("phone", ask[c].old.phone)
  IN IF byResident # {} THEN byResident ELSE IF byEmail # {} THEN byEmail ELSE byPhone

Renames(c, f) == ask[c].old[f] # NoValue

Locate(c) ==
  /\ pc[c] = "locate"
  /\ \/ Located(c) = {} /\ Leave(c, NoRow) /\ UNCHANGED <<have, renameVars>>
     \/ \E r \in Located(c) :
          LET changed == {f \in {"phone", "email"} :
                            Renames(c, f) /\ contact[r][f] # ask[c].new[f]}
          IN IF changed = {} THEN Leave(c, r) /\ UNCHANGED <<have, renameVars>>
             ELSE /\ have' = [have EXCEPT ![c] = Read(r)]
                  /\ todo' = [todo EXCEPT ![c] = {f \in changed : ask[c].new[f] # NoValue}]
                  /\ carried' = [carried EXCEPT ![c] = Nobody]
                  /\ Goto(c, "collide")
  /\ UNCHANGED <<tableVars, ask, mergeVars, picked, met, hurried, crossed, calls>>

(* Another row holds the new email, then the new phone: it is merged into  *)
(* this one, and the contact column not renamed is carried over.           *)
Collide(c) ==
  /\ pc[c] = "collide"
  /\ IF todo[c] = {} THEN Goto(c, "apply") /\ UNCHANGED <<other, renameVars>>
     ELSE LET f == IF "email" \in todo[c] THEN "email" ELSE "phone"
              kept == IF f = "email" THEN "phone" ELSE "email"
              held == Find(f, ask[c].new[f]) \ {have[c].id}
          IN /\ todo' = [todo EXCEPT ![c] = @ \ {f}]
             /\ \/ held = {} /\ Goto(c, "collide") /\ UNCHANGED <<other, carried>>
                \/ \E r \in held :
                     /\ other' = [other EXCEPT ![c] = r]
                     /\ carried' = [carried EXCEPT ![c][kept] = contact[r][kept]]
                     /\ Goto(c, "mergeKeep")
  /\ UNCHANGED <<tableVars, ask, have, keep, picked, met, hurried, crossed, calls>>

Final(c, f) ==
  IF Renames(c, f) THEN ask[c].new[f]
  ELSE IF have[c].contact[f] # NoValue THEN have[c].contact[f] ELSE carried[c][f]

Apply(c) ==
  /\ pc[c] = "apply"
  /\ LET r == have[c].id
         new == [contact[r] EXCEPT
                   !.phone = IF Final(c, "phone") = have[c].contact.phone THEN @ ELSE Final(c, "phone"),
                   !.email = IF Final(c, "email") = have[c].contact.email THEN @ ELSE Final(c, "email")]
     IN IF Refused(r, new, r \in anonymous) THEN Throw(c) /\ UNCHANGED contact
        ELSE contact' = [contact EXCEPT ![r] = new] /\ Goto(c, "canonical")
  /\ UNCHANGED <<rows, anonymous, mergedInto, erased, ask, have, mergeVars, renameVars, picked,
                 met, hurried, crossed, calls>>

-----------------------------------------------------------------------------
(* convertIdentity: every column is written, from the request or as it was *)
(* read.                                                                   *)
Write(c) ==
  /\ pc[c] = "write"
  /\ LET r == have[c].id
         own == have[c].contact
         given == ask[c].new
         new == [contact[r] EXCEPT
                   !.phone = IF given.phone # NoValue THEN given.phone ELSE own.phone,
                   !.email = IF given.email # NoValue THEN given.email ELSE own.email]
     IN IF Refused(r, new, FALSE) THEN Throw(c) /\ UNCHANGED <<contact, anonymous>>
        ELSE /\ contact' = [contact EXCEPT ![r] = new]
             /\ anonymous' = anonymous \ {r}
             /\ Leave(c, r)
  /\ UNCHANGED <<rows, mergedInto, erased, ask, have, mergeVars, renameVars, picked, met, hurried,
                 crossed, calls>>

(* The anonymizer's updates commit together.  With the rows it redacts the *)
(* conversion log, the error texts of their conversations' messages and    *)
(* the contact kept with their notices, which nothing here reads.          *)
Scrub(c) ==
  /\ pc[c] = "scrub"
  /\ LET scoped == picked[c] \ erased IN
     /\ contact' = [r \in Row |-> IF r \in scoped THEN [Nobody EXCEPT !.email = Placeholder]
                                  ELSE contact[r]]
     /\ erased' = erased \cup scoped
     /\ hurried' = IF Busy = {c} THEN hurried ELSE hurried \cup scoped
  /\ Leave(c, NoRow)
  /\ UNCHANGED <<rows, anonymous, mergedInto, ask, have, mergeVars, renameVars, picked, met,
                 crossed, calls>>

-----------------------------------------------------------------------------
Next ==
  \E c \in Caller :
    \/ \E a \in Asks : Begin(c, a) \/ BeginConvert(c, a)
    \/ LookPhone(c) \/ LookEmail(c) \/ MergeKeep(c) \/ MergeAway(c) \/ Mark(c) \/ Reread(c)
    \/ FillColumn(c) \/ AnswerCanonical(c) \/ Insert(c) \/ Winner(c)
    \/ Locate(c) \/ Collide(c) \/ Apply(c) \/ Write(c) \/ Scrub(c)

Spec == Init /\ [][Next]_vars

-----------------------------------------------------------------------------
(* Every chain of merges ends, so every resolution does, unless two merges *)
(* were under way at once: nothing stops those from closing a cycle, on    *)
(* which resolve_identity_id loops for ever (index.ts:2944).               *)
ChainsEnd == ~crossed => \A r \in Rows : Ends(r)

(* A row anonymized while no other request was under way never gets a      *)
(* contact back, except from convertIdentity, whose session still names it *)
(* (the finders skip anonymized rows, index.ts:2904).                      *)
ErasedStays ==
  [][\A r \in erased \ hurried :
       contact'[r] # contact[r] => \E c \in Caller : ask[c].kind = "convert" /\ Write(c)]_vars

(* A find that no other request overlapped answers a row that bears the    *)
(* phone or the email asked for, and leaves neither of them on a second    *)
(* person: what two rows held is one row's now (index.ts:344).  It throws  *)
(* only because another row holds its resident id, or because the contact  *)
(* was written back onto an anonymized row (index.ts:411).                 *)
FindSettles ==
  [][\A c \in Caller \ met :
       pc[c] # "idle" /\ ask[c].kind = "find" =>
         LET r == answer'[c]
             new == ask[c].new
         IN /\ r \in Row =>
                 /\ \E f \in {"phone", "email"} : new[f] # NoValue /\ contact'[r][f] = new[f]
                 /\ \A f \in {"phone", "email"} : Find(f, new[f])' \subseteq {r}
            /\ r = Thrown =>
                 \/ \E s \in Rows : /\ s # have[c].id
                                   /\ new.resident # NoValue /\ contact[s].resident = new.resident
                 \/ \E s \in erased, f \in {"phone", "email"} :
                       new[f] # NoValue /\ contact[s][f] = new[f]]_vars

(* When the anonymizer was alone, nothing that matches its subject is left *)
(* in the tenant, on any row of the merge chains (index.ts:537).           *)
ErasedTogether ==
  [][\A c \in Caller \ met :
       Scrub(c) => /\ Matching(ask[c].old)' = {}
                   /\ \A r \in picked[c] : Chain(r) \subseteq erased']_vars
=============================================================================
