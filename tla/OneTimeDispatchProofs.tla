------------------------- MODULE OneTimeDispatchProofs -------------------------
(***************************************************************************)
(* Proofs about OneTimeDispatch: what a dispatch's row says of the contact *)
(* centre, and whom its campaign calls, for any operation keys, any        *)
(* requests, starts and pauses, and whatever is lost or stops.             *)
(***************************************************************************)
EXTENDS OneTimeDispatch, TLAPS

\* A campaign in one of these states calls, has called or will.
Dialling == {"ready", "running", "paused"}

\* Between a row and what was made for it.
Tells(r, z) ==
  \/ Reached(z, r.step)
  \/ /\ r.state \in {"PREPARING", "RESULT_UNKNOWN"}
     /\ r.step < ReadbackVerified
     /\ Reached(z, r.step + 1)

\* The step a call deals with follows the checkpoint, or is another batch of contacts.
Follows(s, r) == s = r + 1 \/ (s = ContactsCreated /\ r = ContactsCreated)

\* What a call that works on a row relies on, for each of its program counters.
Sends(p, z) ==
  /\ p.sent = z.contacts
  /\ p.step = ListCreated => p.sent = {}
  /\ p.step > ContactsCreated => p.sent = p.snapshot.people

ActOK(p, r, z) ==
  /\ r.state = "PREPARING" /\ Reached(z, r.step) /\ Follows(p.step, r.step) /\ Sends(p, z)
  /\ p.step > ConfigurationVerified => z.setting = p.snapshot.setting

SaveOK(p, r, z) ==
  /\ r.state = "PREPARING" /\ Reached(z, p.step) /\ Follows(p.step, r.step) /\ Sends(p, z)
  /\ p.step >= ConfigurationVerified => z.setting = p.snapshot.setting

CatchOK(p, r, z) ==
  /\ r.state \in {"PREPARING", "READY"}
  /\ r.state = "READY" => Reached(z, r.step)
  /\ \/ Reached(z, r.step)
     \/ p.unknown = TRUE /\ r.step < ReadbackVerified /\ Reached(z, r.step + 1)

Fits(p, r, z) ==
  /\ p.pc = "act" => ActOK(p, r, z)
  /\ p.pc = "save" => SaveOK(p, r, z)
  /\ p.pc = "catch" => CatchOK(p, r, z)

Working == {"act", "save", "catch"}
Asked == {"lookup", "resolve", "create"} \cup Working

\* A call's snapshot is what its token signed, and there is somebody to call.
TokenOK(p) ==
  /\ p.pc \in Asked => p.token \in tokens
  /\ p.pc \in {"lookup", "resolve", "create"} => p.sent = {} /\ p.actor \in Actor
  /\ p.pc \in {"create"} \cup Working =>
       p.snapshot = p.token.found /\ p.snapshot.people # {}

\* One call at most works on a row, and it finds what it relies on.
WorkerOK(p) ==
  p.pc \in Working =>
    /\ dispatch[p.token.key] # Nothing
    /\ dispatch[p.token.key].state # "VALIDATING"
    /\ dispatch[p.token.key].draft = p.token.draft
    /\ Fits(p, dispatch[p.token.key], zoom[p.token.key])

OneWorker ==
  \A c, d \in Preparation :
    c # d /\ prepare[c].pc \in Working /\ prepare[d].pc \in Working => KeyOf(c) # KeyOf(d)

\* A campaign about to be started or paused is past its preparation.
StarterOK(o) ==
  o.pc = "set" => /\ o.key \in OperationKey /\ zoom[o.key].status \in Dialling
                  /\ o.to \in {"running", "paused"}

CallsOK == \A c \in Preparation : TokenOK(prepare[c]) /\ WorkerOK(prepare[c])
StartersOK == \A o \in Starter : StarterOK(starter[o])

Inv ==
  /\ DispatchTypeOK /\ RowTellsOutside /\ DialsAsConfirmed
  /\ CallsOK /\ OneWorker /\ StartersOK

-----------------------------------------------------------------------------
(* About values.                                                           *)

LEMMA SameFunction ==
  ASSUME NEW S, NEW T, NEW f \in [S -> T], NEW x
  PROVE  f = [f EXCEPT ![x] = f[x]]
  OBVIOUS

\* What each step makes, field by field.
FieldsMade(z, s, p, x, y) ==
  /\ y.lists = IF s = 1 THEN z.lists + 1 ELSE z.lists
  /\ y.contacts = IF s = 2 THEN z.contacts \cup {p} ELSE z.contacts
  /\ y.assets = IF s = 3 THEN z.assets + 1 ELSE z.assets
  /\ y.campaigns = IF s = 4 THEN z.campaigns + 1 ELSE z.campaigns
  /\ y.setting = IF s \in {4, 6} THEN x ELSE z.setting
  /\ y.audio = IF s = 6 THEN TRUE ELSE z.audio
  /\ y.status = IF s = 4 THEN "draft" ELSE IF s = 8 THEN "ready" ELSE z.status

LEMMA MadeFields ==
  ASSUME NEW z \in Outside, NEW s \in Writes, NEW p \in Person, NEW x \in Setting
  PROVE  Made(z, s, p, x) \in Outside /\ FieldsMade(z, s, p, x, Made(z, s, p, x))
<1> DEFINE y == Made(z, s, p, x)
<1>1. s \in {1, 2, 3, 4, 6, 8}
  BY DEF Writes, ListCreated, ContactsCreated, AssetCreated, CampaignCreated, Configured, ReadySet
<1> SUFFICES y \in Outside /\ FieldsMade(z, s, p, x, y)
  OBVIOUS
<1>2. /\ s = 1 => y = [z EXCEPT !.lists = z.lists + 1]
      /\ s = 2 => y = [z EXCEPT !.contacts = z.contacts \cup {p}]
      /\ s = 3 => y = [z EXCEPT !.assets = z.assets + 1]
      /\ s = 4 => y = [z EXCEPT !.campaigns = z.campaigns + 1, !.status = "draft", !.setting = x]
      /\ s = 6 => y = [z EXCEPT !.audio = TRUE, !.setting = x]
      /\ s = 8 => y = [z EXCEPT !.status = "ready"]
  BY DEF Made, ListCreated, ContactsCreated, AssetCreated, CampaignCreated, Configured, ReadySet
<1> HIDE DEF y
<1>3. CASE s = 1
  BY <1>2, <1>3 DEF Outside, FieldsMade
<1>4. CASE s = 2
  BY <1>2, <1>4 DEF Outside, FieldsMade
<1>5. CASE s = 3
  BY <1>2, <1>5 DEF Outside, FieldsMade
<1>6. CASE s = 4
  <2>1. "draft" \in Status /\ x \in Setting \cup {Nothing}
    BY DEF Status
  <2>2. y = [z EXCEPT !.campaigns = z.campaigns + 1, !.status = "draft", !.setting = x]
    BY <1>2, <1>6
  <2>3. y \in Outside
    <3> DEFINE y1 == [z EXCEPT !.campaigns = z.campaigns + 1]
    <3> DEFINE y2 == [y1 EXCEPT !.status = "draft"]
    <3>1. y1 \in Outside
      BY DEF Outside
    <3>2. y = [y2 EXCEPT !.setting = x]
      BY <2>2
    <3> HIDE DEF y1
    <3>3. y2 \in Outside
      BY <2>1, <3>1 DEF Outside
    <3> HIDE DEF y2
    <3> QED
      BY <2>1, <3>2, <3>3 DEF Outside
  <2>4. FieldsMade(z, s, p, x, y)
    BY <1>6, <2>2 DEF Outside, FieldsMade
  <2> QED
    BY <2>3, <2>4
<1>7. CASE s = 6
  <2>1. y = [z EXCEPT !.audio = TRUE, !.setting = x]
    BY <1>2, <1>7
  <2>2. y \in Outside
    BY <2>1 DEF Outside
  <2>3. FieldsMade(z, s, p, x, y)
    BY <1>7, <2>1 DEF Outside, FieldsMade
  <2> QED
    BY <2>2, <2>3
<1>8. CASE s = 8
  <2>1. "ready" \in Status
    BY DEF Status
  <2>2. y = [z EXCEPT !.status = "ready"]
    BY <1>2, <1>8
  <2> QED
    BY <1>8, <2>1, <2>2 DEF Outside, FieldsMade
<1> QED
  BY <1>1, <1>3, <1>4, <1>5, <1>6, <1>7, <1>8

\* What a call that is carried out leaves is one step further, or the same for contacts.
LEMMA MadeReaches ==
  ASSUME NEW z \in Outside, NEW s \in Writes, NEW r \in Step, Follows(s, r), Reached(z, r),
         NEW p \in Person, NEW x \in Setting
  PROVE  /\ Made(z, s, p, x) \in Outside
         /\ Reached(Made(z, s, p, x), s)
         /\ z.status \notin Dialling
<1> DEFINE y == Made(z, s, p, x)
<1>1. s \in {1, 2, 3, 4, 6, 8}
  BY DEF Writes, ListCreated, ContactsCreated, AssetCreated, CampaignCreated, Configured, ReadySet
<1> HIDE DEF y
<1>2. y \in Outside /\ FieldsMade(z, s, p, x, y)
  BY MadeFields DEF y
<1>3. r \in 0..9 /\ (s = r + 1 \/ (s = 2 /\ r = 2))
  BY DEF Follows, ContactsCreated, Step
<1> USE DEF ListCreated, AssetCreated, CampaignCreated, Configured, ReadySet, Dialling, Reached,
            FieldsMade
<1>4. z.status \notin Dialling
  BY <1>1, <1>3
<1>5. /\ y.lists = (IF s >= 1 THEN 1 ELSE 0)
      /\ y.assets = (IF s >= 3 THEN 1 ELSE 0)
      /\ y.campaigns = (IF s >= 4 THEN 1 ELSE 0)
  BY <1>1, <1>2, <1>3
<1>6. y.audio <=> s >= 6
  BY <1>1, <1>2, <1>3
<1>7. y.status \in (IF s >= 8 THEN {"ready", "running", "paused"}
                   ELSE IF s >= 4 THEN {"draft"} ELSE {"none"})
  BY <1>1, <1>2, <1>3
<1>8. Reached(y, s)
  BY <1>5, <1>6, <1>7
<1> QED
  BY <1>2, <1>4, <1>8 DEF y

\* A read changes nothing, and the next step is reached when it succeeds.
LEMMA ReadReaches ==
  ASSUME NEW z \in Outside, NEW s \in Reads, NEW r \in Step, Follows(s, r), Reached(z, r),
         NEW x, AsExpected(z, s, x)
  PROVE  Reached(z, s)
  BY DEF Reads, DraftVerified, ConfigurationVerified, ReadbackVerified, Follows, Step, Reached,
         ContactsCreated, ListCreated, AssetCreated, CampaignCreated, Configured, ReadySet,
         AsExpected, Outside

LEMMA StartedReaches ==
  ASSUME NEW z \in Outside, NEW to \in {"running", "paused"}, z.status \in Dialling,
         NEW s \in Nat, Reached(z, s)
  PROVE  Reached([z EXCEPT !.status = to], s)
  BY DEF Reached, Outside, Dialling, ListCreated, AssetCreated, CampaignCreated, Configured,
         ReadySet

\* No step separates the list from its contacts in what Reached looks at.
LEMMA ContactsReach ==
  ASSUME NEW z, NEW r \in {1, 2}, Reached(z, 2)
  PROVE  Reached(z, r)
  BY DEF Reached, ListCreated, AssetCreated, CampaignCreated, Configured, ReadySet

-----------------------------------------------------------------------------
(* Facts of a call that works.                                             *)

LEMMA RowOf ==
  ASSUME Inv, NEW k \in OperationKey
  PROVE  /\ dispatch[k] # Nothing => dispatch[k] \in Row
         /\ zoom[k] \in Outside
  BY DEF Inv, DispatchTypeOK

LEMMA CallOf ==
  ASSUME Inv, NEW c \in Preparation
  PROVE  /\ prepare[c] \in PrepareState
         /\ prepare[c].pc \in Asked => /\ prepare[c].token \in tokens
                                       /\ prepare[c].token \in Token
                                       /\ KeyOf(c) \in OperationKey
<1>1. prepare[c] \in PrepareState
  BY DEF Inv, DispatchTypeOK
<1>2. prepare[c].pc \in Asked => prepare[c].token \in tokens
  BY DEF Inv, CallsOK, TokenOK
<1>3. tokens \subseteq Token
  BY DEF Inv, DispatchTypeOK
<1> QED
  BY <1>1, <1>2, <1>3 DEF KeyOf, Token

LEMMA WorkerFacts ==
  ASSUME Inv, NEW c \in Preparation, prepare[c].pc \in Working
  PROVE  /\ prepare[c] \in PrepareState /\ prepare[c].token \in tokens
         /\ KeyOf(c) \in OperationKey
         /\ dispatch[KeyOf(c)] \in Row /\ dispatch[KeyOf(c)].state # "VALIDATING"
         /\ dispatch[KeyOf(c)].draft = prepare[c].token.draft
         /\ zoom[KeyOf(c)] \in Outside
         /\ Fits(prepare[c], dispatch[KeyOf(c)], zoom[KeyOf(c)])
         /\ prepare[c].snapshot = prepare[c].token.found
         /\ prepare[c].snapshot \in Snapshot /\ prepare[c].snapshot.people # {}
<1>1. prepare[c].pc \in Asked
  BY DEF Asked
<1>2. /\ prepare[c] \in PrepareState /\ prepare[c].token \in tokens
      /\ prepare[c].token \in Token /\ KeyOf(c) \in OperationKey
  BY <1>1, CallOf
<1>3. /\ dispatch[KeyOf(c)] # Nothing /\ dispatch[KeyOf(c)].state # "VALIDATING"
      /\ dispatch[KeyOf(c)].draft = prepare[c].token.draft
      /\ Fits(prepare[c], dispatch[KeyOf(c)], zoom[KeyOf(c)])
  BY DEF Inv, CallsOK, WorkerOK, KeyOf
<1>4. prepare[c].snapshot = prepare[c].token.found /\ prepare[c].snapshot.people # {}
  BY DEF Inv, CallsOK, TokenOK
<1>5. prepare[c].token.found \in Snapshot
  BY <1>2 DEF Token
<1> QED
  BY <1>2, <1>3, <1>4, <1>5, RowOf

-----------------------------------------------------------------------------
(* A step of a call that works on its row.                                 *)

LEMMA CallStep ==
  ASSUME Inv, NEW c \in Preparation, prepare[c].pc \in Working,
         NEW k, k = KeyOf(c),
         NEW new \in PrepareState, new.pc \in Working \cup {"done"},
         new.token = prepare[c].token, new.snapshot = prepare[c].snapshot,
         NEW row \in Row, row.state # "VALIDATING", row.draft = dispatch[k].draft,
         NEW z \in Outside,
         prepare' = [prepare EXCEPT ![c] = new],
         dispatch' = [dispatch EXCEPT ![k] = row],
         zoom' = [zoom EXCEPT ![k] = z],
         UNCHANGED <<around, starter>>,
         Fits(new, row, z), Tells(row, z),
         zoom[k].status \in Dialling => z.status \in Dialling,
         z.status \in Dialling =>
           \/ /\ zoom[k].status \in Dialling
              /\ z.contacts = zoom[k].contacts /\ z.setting = zoom[k].setting
           \/ z.contacts = new.snapshot.people /\ z.setting = new.snapshot.setting
  PROVE  Inv'
<1>1. /\ k \in OperationKey /\ prepare[c].token \in tokens /\ dispatch[k] \in Row
      /\ dispatch[k].draft = prepare[c].token.draft
      /\ prepare[c].snapshot = prepare[c].token.found
      /\ prepare[c].snapshot \in Snapshot /\ prepare[c].snapshot.people # {}
      /\ k = prepare[c].token.key
  BY WorkerFacts DEF KeyOf
<1>2. tokens' = tokens /\ starter' = starter
  BY DEF around
<1>3. /\ prepare'[c] = new
      /\ \A d \in Preparation : d # c => prepare'[d] = prepare[d]
  BY DEF Inv, DispatchTypeOK
<1>4. /\ dispatch'[k] = row /\ zoom'[k] = z
      /\ \A l \in OperationKey : l # k => dispatch'[l] = dispatch[l] /\ zoom'[l] = zoom[l]
  BY <1>1 DEF Inv, DispatchTypeOK
<1>5. DispatchTypeOK'
  BY <1>1 DEF Inv, DispatchTypeOK, around
<1>6. row # Nothing
  BY RowAssumption
<1>7. RowTellsOutside'
  <2>1. ASSUME NEW l \in OperationKey, l # k
        PROVE  IF dispatch'[l] = Nothing \/ dispatch'[l].state = "VALIDATING"
               THEN zoom'[l] = Untouched ELSE Tells(dispatch'[l], zoom'[l])
    BY <1>4, <2>1 DEF Inv, RowTellsOutside, Tells
  <2>2. dispatch'[k] # Nothing /\ dispatch'[k].state # "VALIDATING"
          /\ Tells(dispatch'[k], zoom'[k])
    BY <1>4, <1>6
  <2>3. \A l \in OperationKey :
          IF dispatch'[l] = Nothing \/ dispatch'[l].state = "VALIDATING"
          THEN zoom'[l] = Untouched ELSE Tells(dispatch'[l], zoom'[l])
    BY <2>1, <2>2
  <2> QED
    BY <2>3 DEF RowTellsOutside, Tells, Reached
<1>8. DialsAsConfirmed'
  <2>1. ASSUME NEW l \in OperationKey, zoom'[l].status \in Dialling, l # k
        PROVE  \E t \in tokens :
                 /\ t.key = l /\ t.draft = dispatch'[l].draft
                 /\ t.found = [people |-> zoom'[l].contacts, setting |-> zoom'[l].setting]
    BY <1>4, <2>1 DEF Inv, DialsAsConfirmed, Dialling
  <2>2. ASSUME z.status \in Dialling
        PROVE  \E t \in tokens :
                 /\ t.key = k /\ t.draft = dispatch'[k].draft
                 /\ t.found = [people |-> zoom'[k].contacts, setting |-> zoom'[k].setting]
    <3>1. CASE /\ zoom[k].status \in Dialling
               /\ z.contacts = zoom[k].contacts /\ z.setting = zoom[k].setting
      BY <1>1, <1>4, <3>1 DEF Inv, DialsAsConfirmed, Dialling
    <3>2. CASE z.contacts = new.snapshot.people /\ z.setting = new.snapshot.setting
      <4>1. prepare[c].token.found = [people |-> z.contacts, setting |-> z.setting]
        BY <1>1, <3>2 DEF Snapshot
      <4> QED
        BY <1>1, <1>4, <4>1
    <3> QED
      BY <2>2, <3>1, <3>2
  <2>3. ASSUME NEW l \in OperationKey, zoom'[l].status \in Dialling
        PROVE  \E t \in tokens :
                 /\ t.key = l /\ t.draft = dispatch'[l].draft
                 /\ t.found = [people |-> zoom'[l].contacts, setting |-> zoom'[l].setting]
    BY <1>4, <2>1, <2>2, <2>3
  <2> QED
    BY <1>2, <2>3 DEF DialsAsConfirmed, Dialling
<1>9. CallsOK'
  <2>1. ASSUME NEW d \in Preparation
        PROVE  TokenOK(prepare[d])'
    <3>1. CASE d = c
      BY <1>1, <1>2, <1>3, <3>1 DEF TokenOK, Asked, Working
    <3>2. CASE d # c
      BY <1>2, <1>3, <3>2 DEF Inv, CallsOK, TokenOK
    <3> QED
      BY <3>1, <3>2
  <2>2. ASSUME NEW d \in Preparation, prepare'[d].pc \in Working
        PROVE  /\ dispatch'[prepare'[d].token.key] # Nothing
               /\ dispatch'[prepare'[d].token.key].state # "VALIDATING"
               /\ dispatch'[prepare'[d].token.key].draft = prepare'[d].token.draft
               /\ Fits(prepare'[d], dispatch'[prepare'[d].token.key],
                       zoom'[prepare'[d].token.key])
    <3>1. CASE d = c
      BY <1>1, <1>3, <1>4, <1>6, <3>1
    <3>2. CASE d # c
      <4>1. prepare'[d] = prepare[d] /\ prepare[d].pc \in Working
        BY <1>3, <2>2, <3>2
      <4>2. KeyOf(d) \in OperationKey /\ KeyOf(d) # k
        BY <3>2, <4>1, WorkerFacts DEF Inv, OneWorker
      <4>3. /\ dispatch'[KeyOf(d)] = dispatch[KeyOf(d)] /\ zoom'[KeyOf(d)] = zoom[KeyOf(d)]
        BY <1>4, <4>2
      <4> QED
        BY <4>1, <4>3 DEF Inv, CallsOK, WorkerOK, KeyOf
    <3> QED
      BY <3>1, <3>2
  <2>3. ASSUME NEW d \in Preparation
        PROVE  WorkerOK(prepare[d])'
    BY <2>2 DEF WorkerOK, Fits, ActOK, SaveOK, CatchOK, Sends, Reached, Follows
  <2> QED
    BY <2>1, <2>3 DEF CallsOK
<1>10. OneWorker'
  <2>1. \A d \in Preparation : prepare'[d].pc \in Working =>
          prepare[d].pc \in Working /\ prepare'[d].token = prepare[d].token
    BY <1>3
  <2> QED
    BY <2>1 DEF Inv, OneWorker, KeyOf
<1>11. StartersOK'
  <2>1. \A l \in OperationKey : zoom[l].status \in Dialling => zoom'[l].status \in Dialling
    BY <1>4
  <2> QED
    BY <1>2, <2>1 DEF Inv, StartersOK, StarterOK, Dialling
<1> QED
  BY <1>5, <1>7, <1>8, <1>9, <1>10, <1>11 DEF Inv

\* The same for a step that leaves the row or the contact centre alone.
LEMMA RowSame ==
  ASSUME Inv, NEW k \in OperationKey, UNCHANGED dispatch
  PROVE  dispatch' = [dispatch EXCEPT ![k] = dispatch[k]]
  BY SameFunction DEF Inv, DispatchTypeOK

LEMMA ZoomSame ==
  ASSUME Inv, NEW k \in OperationKey, UNCHANGED zoom
  PROVE  zoom' = [zoom EXCEPT ![k] = zoom[k]]
  BY SameFunction DEF Inv, DispatchTypeOK

LEMMA AroundParts ==
  ASSUME UNCHANGED around
  PROVE  UNCHANGED <<dispatchClock, edits, sources, tokens>>
  BY DEF around

\* What is made for a call, once carried out.
LEMMA MadeByCall ==
  ASSUME Inv, NEW c \in Preparation, prepare[c].pc = "act", prepare[c].step \in Writes,
         NEW ps \in Choice(c),
         NEW y, y = Made(zoom[KeyOf(c)], prepare[c].step, ps[1], ps[2])
  PROVE  /\ y \in Outside
         /\ Reached(y, prepare[c].step)
         /\ zoom[KeyOf(c)].status \notin Dialling
         /\ y.status \in Dialling =>
              y.contacts = prepare[c].snapshot.people /\ y.setting = prepare[c].snapshot.setting
         /\ y.contacts = IF prepare[c].step = ContactsCreated THEN prepare[c].sent \cup {ps[1]}
                                                             ELSE prepare[c].sent
         /\ prepare[c].step > ConfigurationVerified => y.setting = prepare[c].snapshot.setting
         /\ ps[1] \in Person
<1> DEFINE p == prepare[c]
<1> DEFINE z == zoom[KeyOf(c)]
<1>1. /\ ActOK(p, dispatch[KeyOf(c)], z) /\ z \in Outside /\ dispatch[KeyOf(c)] \in Row
      /\ p \in PrepareState
  BY WorkerFacts DEF Working, Fits
<1>2. ps[1] \in Person /\ ps[2] \in Setting
  BY DEF Choice
<1>3. dispatch[KeyOf(c)].step \in Step
  BY <1>1 DEF Row
<1>4. p.step \in {1, 2, 3, 4, 6, 8}
  BY DEF Writes, ListCreated, ContactsCreated, AssetCreated, CampaignCreated, Configured, ReadySet
<1>5. y \in Outside /\ Reached(y, p.step) /\ z.status \notin Dialling
  BY <1>1, <1>2, <1>3, MadeReaches DEF ActOK
<1>6. FieldsMade(z, p.step, ps[1], ps[2], y)
  BY <1>1, <1>2, MadeFields
<1>7. y.status \in Dialling => p.step = 8
  BY <1>4, <1>5, <1>6 DEF FieldsMade, Dialling
<1>8. /\ p.sent = z.contacts /\ (p.step > 2 => p.sent = p.snapshot.people)
      /\ p.step > 7 => z.setting = p.snapshot.setting
  BY <1>1 DEF ActOK, Sends, ContactsCreated, ConfigurationVerified
<1>9. y.contacts = IF p.step = 2 THEN p.sent \cup {ps[1]} ELSE p.sent
  BY <1>6, <1>8 DEF FieldsMade
<1>10. p.step > 7 => y.setting = p.snapshot.setting
  BY <1>4, <1>6, <1>8 DEF FieldsMade
<1> QED
  BY <1>2, <1>5, <1>7, <1>8, <1>9, <1>10 DEF ContactsCreated, ConfigurationVerified

\* An outcome of a call is within what its row tells, if the row was followed.
LEMMA TellsNext ==
  ASSUME NEW r \in Row, NEW s \in Step, NEW z, Reached(z, s), Follows(s, r.step),
         r.state = "PREPARING"
  PROVE  /\ Tells(r, z)
         /\ Reached(z, r.step) \/ (r.step < ReadbackVerified /\ Reached(z, r.step + 1))
<1>1. r.step \in Step
  BY DEF Row
<1>2. CASE s = r.step + 1
  BY <1>1, <1>2 DEF Tells, Step, ReadbackVerified
<1>3. CASE s = ContactsCreated /\ r.step = ContactsCreated
  BY <1>3 DEF Tells
<1> QED
  BY <1>2, <1>3 DEF Follows

LEMMA AnsweredInv ==
  ASSUME Inv, NEW c \in Preparation, Answered(c)
  PROVE  Inv'
<1> DEFINE p == prepare[c]
<1> DEFINE k == KeyOf(c)
<1>1. /\ p.pc = "act" /\ p.step \in Writes /\ UNCHANGED <<around, dispatch, starter>>
  BY DEF Answered
<1>2. PICK ps \in Choice(c) :
        /\ zoom' = [zoom EXCEPT ![k] = Made(zoom[k], p.step, ps[1], ps[2])]
        /\ prepare' = [prepare EXCEPT ![c] = [p EXCEPT !.pc = "save",
             !.sent = IF p.step = ContactsCreated THEN p.sent \cup {ps[1]} ELSE p.sent]]
  BY DEF Answered, PutZoom, BecomeCall
<1> DEFINE y == Made(zoom[k], p.step, ps[1], ps[2])
<1> DEFINE sent == IF p.step = ContactsCreated THEN p.sent \cup {ps[1]} ELSE p.sent
<1> DEFINE new == [p EXCEPT !.pc = "save", !.sent = sent]
<1>3. p.pc \in Working
  BY <1>1 DEF Working
<1>4. /\ p \in PrepareState /\ k \in OperationKey /\ dispatch[k] \in Row
      /\ dispatch[k].state # "VALIDATING" /\ ActOK(p, dispatch[k], zoom[k])
  BY <1>1, <1>3, WorkerFacts DEF Fits
<1>5. /\ y \in Outside /\ Reached(y, p.step) /\ zoom[k].status \notin Dialling
      /\ y.status \in Dialling =>
           y.contacts = p.snapshot.people /\ y.setting = p.snapshot.setting
      /\ y.contacts = sent
      /\ p.step > ConfigurationVerified => y.setting = p.snapshot.setting
      /\ ps[1] \in Person
  BY <1>1, MadeByCall
<1>6. dispatch' = [dispatch EXCEPT ![k] = dispatch[k]]
  BY <1>1, <1>4, RowSame
<1> HIDE DEF y
<1>7. /\ new \in PrepareState /\ new.pc = "save" /\ new.token = p.token
      /\ new.snapshot = p.snapshot /\ new.step = p.step /\ new.sent = sent
  <2>1. sent \in SUBSET Person
    BY <1>4, <1>5 DEF PrepareState
  <2> HIDE DEF sent
  <2> QED
    BY <1>4, <2>1 DEF PrepareState
<1>8. p.step # ContactsCreated => sent = p.sent
  OBVIOUS
<1>9. SaveOK(new, dispatch[k], y)
  <2>1. p.step \in {1, 2, 3, 4, 6, 8}
    BY <1>1 DEF Writes, ListCreated, ContactsCreated, AssetCreated, CampaignCreated, Configured,
                ReadySet
  <2> HIDE DEF new, sent
  <2>2. Sends(new, y)
    BY <1>4, <1>5, <1>7, <1>8, <2>1 DEF Sends, ActOK, ListCreated, ContactsCreated
  <2> QED
    BY <1>4, <1>5, <1>7, <2>1, <2>2 DEF SaveOK, ActOK, ConfigurationVerified
<1> HIDE DEF new, sent
<1>10. Fits(new, dispatch[k], y)
  BY <1>7, <1>9 DEF Fits
<1>11. p.step \in Step
  BY <1>4 DEF PrepareState
<1>12. Tells(dispatch[k], y)
  BY <1>4, <1>5, <1>11, TellsNext DEF ActOK
<1>13. zoom' = [zoom EXCEPT ![k] = y] /\ prepare' = [prepare EXCEPT ![c] = new]
  BY <1>2 DEF y, new, sent
<1> QED
  BY <1>1, <1>3, <1>4, <1>5, <1>6, <1>7, <1>10, <1>12, <1>13, CallStep DEF Working

\* A call that gives up leaves its row or a checkpoint, and what was made or not.
LEMMA ThrowInv ==
  ASSUME Inv, NEW c \in Preparation, prepare[c].pc \in {"act", "save"},
         NEW k, k = KeyOf(c), NEW unknown \in BOOLEAN, Throw(c, unknown),
         UNCHANGED <<around, starter>>,
         NEW row \in Row, row.draft = dispatch[k].draft,
         dispatch' = [dispatch EXCEPT ![k] = row],
         NEW z \in Outside, zoom' = [zoom EXCEPT ![k] = z],
         row.state \in {"PREPARING", "READY"}, row.state = "READY" => Reached(z, row.step),
         Reached(z, row.step)
           \/ (unknown = TRUE /\ row.step < ReadbackVerified /\ Reached(z, row.step + 1)),
         zoom[k].status \in Dialling => z = zoom[k],
         z.status \in Dialling =>
           z = zoom[k] \/ (/\ z.contacts = prepare[c].snapshot.people
                           /\ z.setting = prepare[c].snapshot.setting)
  PROVE  Inv'
<1> DEFINE new == [prepare[c] EXCEPT !.pc = "catch", !.unknown = unknown]
<1>1. prepare[c].pc \in Working /\ prepare[c] \in PrepareState
  BY WorkerFacts DEF Working
<1>2. prepare' = [prepare EXCEPT ![c] = new]
  BY DEF Throw, BecomeCall
<1>3. /\ new \in PrepareState /\ new.pc = "catch" /\ new.unknown = unknown
      /\ new.token = prepare[c].token /\ new.snapshot = prepare[c].snapshot
  BY <1>1 DEF PrepareState
<1> HIDE DEF new
<1>4. Fits(new, row, z)
  BY <1>3 DEF Fits, CatchOK
<1>5. Tells(row, z)
  <2>1. CASE row.state = "READY"
    BY <2>1 DEF Tells
  <2>2. CASE row.state = "PREPARING"
    BY <2>2 DEF Tells
  <2> QED
    BY <2>1, <2>2
<1>6. /\ row.state # "VALIDATING" /\ new.pc \in Working
      /\ (zoom[k].status \in Dialling => z.status \in Dialling)
      /\ (z.status \in Dialling =>
            \/ /\ zoom[k].status \in Dialling
               /\ z.contacts = zoom[k].contacts /\ z.setting = zoom[k].setting
            \/ z.contacts = new.snapshot.people /\ z.setting = new.snapshot.setting)
  BY <1>3 DEF Working
<1> QED
  BY <1>1, <1>2, <1>3, <1>4, <1>5, <1>6, CallStep

LEMMA GivesUp ==
  ASSUME Inv, NEW c \in Preparation, Unheard(c) \/ Refused(c) \/ ReadBackFails(c)
  PROVE  Inv'
<1> DEFINE p == prepare[c]
<1> DEFINE k == KeyOf(c)
<1>1. /\ p.pc = "act" /\ UNCHANGED <<around, dispatch, starter>>
      /\ \E unknown \in BOOLEAN : Throw(c, unknown) /\ (Unheard(c) => unknown = TRUE)
  BY DEF Unheard, Refused, ReadBackFails, Throw
<1>2. /\ p \in PrepareState /\ k \in OperationKey /\ dispatch[k] \in Row
      /\ zoom[k] \in Outside /\ ActOK(p, dispatch[k], zoom[k])
  BY <1>1, WorkerFacts DEF Working, Fits
<1>3. dispatch' = [dispatch EXCEPT ![k] = dispatch[k]]
  BY <1>1, <1>2, RowSame
<1>4. dispatch[k].state = "PREPARING" /\ Reached(zoom[k], dispatch[k].step)
  BY <1>2 DEF ActOK
<1>5. CASE UNCHANGED zoom
  <2>1. zoom' = [zoom EXCEPT ![k] = zoom[k]]
    BY <1>2, <1>5, ZoomSame
  <2> QED
    BY <1>1, <1>2, <1>3, <1>4, <2>1, ThrowInv
<1>6. ASSUME p.step \in Writes,
             Unheard(c) \/ p.step = ContactsCreated,
             NEW ps \in Choice(c), zoom' = [zoom EXCEPT ![k] = Made(zoom[k], p.step, ps[1], ps[2])]
      PROVE  Inv'
  <2> DEFINE y == Made(zoom[k], p.step, ps[1], ps[2])
  <2>1. /\ y \in Outside /\ Reached(y, p.step) /\ zoom[k].status \notin Dialling
        /\ y.status \in Dialling =>
             y.contacts = p.snapshot.people /\ y.setting = p.snapshot.setting
    BY <1>1, <1>6, MadeByCall
  <2>2. zoom' = [zoom EXCEPT ![k] = y]
    BY <1>6
  <2> HIDE DEF y
  <2>3. p.step \in Step /\ Follows(p.step, dispatch[k].step)
    BY <1>2 DEF PrepareState, ActOK
  <2>4. \/ Reached(y, dispatch[k].step)
        \/ dispatch[k].step < ReadbackVerified /\ Reached(y, dispatch[k].step + 1)
    BY <1>2, <1>4, <2>1, <2>3, TellsNext
  <2>5. p.step = ContactsCreated => Reached(y, dispatch[k].step)
    <3>1. dispatch[k].step \in Step
      BY <1>2 DEF Row
    <3>2. p.step = ContactsCreated => dispatch[k].step \in {1, 2}
      BY <2>3, <3>1 DEF Follows, ContactsCreated, Step
    <3> QED
      BY <2>1, <3>2, ContactsReach DEF ContactsCreated
  <2>6. PICK unknown \in BOOLEAN : Throw(c, unknown) /\ (Unheard(c) => unknown = TRUE)
    BY <1>1
  <2>7. \/ Reached(y, dispatch[k].step)
        \/ /\ unknown = TRUE /\ dispatch[k].step < ReadbackVerified
           /\ Reached(y, dispatch[k].step + 1)
    BY <1>6, <2>4, <2>5, <2>6
  <2>8. /\ p.pc \in {"act", "save"} /\ UNCHANGED <<around, starter>>
        /\ dispatch[k].state \in {"PREPARING", "READY"} /\ dispatch[k].state # "READY"
    BY <1>1, <1>4
  <2> QED
    BY <1>2, <1>3, <2>1, <2>2, <2>6, <2>7, <2>8, ThrowInv
<1>7. \/ UNCHANGED zoom
      \/ /\ p.step \in Writes /\ (Unheard(c) \/ p.step = ContactsCreated)
         /\ \E ps \in Choice(c) : zoom' = [zoom EXCEPT ![k] = Made(zoom[k], p.step, ps[1], ps[2])]
  <2>1. CASE Unheard(c)
    BY <2>1 DEF Unheard, PutZoom
  <2>2. CASE Refused(c)
    BY <2>2 DEF Refused, PutZoom
  <2>3. CASE ReadBackFails(c)
    BY <2>3 DEF ReadBackFails
  <2> QED
    BY <2>1, <2>2, <2>3
<1> QED
  BY <1>5, <1>6, <1>7

LEMMA ReadBackInv ==
  ASSUME Inv, NEW c \in Preparation, ReadBack(c)
  PROVE  Inv'
<1> DEFINE p == prepare[c]
<1> DEFINE k == KeyOf(c)
<1>1. /\ p.pc = "act" /\ p.step \in Reads /\ UNCHANGED <<around, dispatch, zoom, starter>>
      /\ \/ AsExpected(zoom[k], p.step, p.snapshot.setting) /\ GoOn(c, "save")
         \/ Throw(c, FALSE)
  BY DEF ReadBack
<1>2. /\ p \in PrepareState /\ k \in OperationKey /\ dispatch[k] \in Row
      /\ dispatch[k].state # "VALIDATING"
      /\ zoom[k] \in Outside /\ ActOK(p, dispatch[k], zoom[k]) /\ p.pc \in Working
  BY <1>1, WorkerFacts DEF Working, Fits
<1>3. /\ dispatch' = [dispatch EXCEPT ![k] = dispatch[k]]
      /\ zoom' = [zoom EXCEPT ![k] = zoom[k]]
  BY <1>1, <1>2, RowSame, ZoomSame
<1>4. /\ dispatch[k].state = "PREPARING" /\ Reached(zoom[k], dispatch[k].step)
      /\ Follows(p.step, dispatch[k].step) /\ Sends(p, zoom[k])
      /\ p.step > ConfigurationVerified => zoom[k].setting = p.snapshot.setting
  BY <1>2 DEF ActOK
<1>5. CASE Throw(c, FALSE)
  <2>1. /\ p.pc \in {"act", "save"} /\ UNCHANGED <<around, starter>>
        /\ dispatch[k].state \in {"PREPARING", "READY"} /\ dispatch[k].state # "READY"
    BY <1>1, <1>4
  <2> QED
    BY <1>2, <1>3, <1>4, <1>5, <2>1, ThrowInv
<1>6. CASE AsExpected(zoom[k], p.step, p.snapshot.setting) /\ GoOn(c, "save")
  <2> DEFINE new == [p EXCEPT !.pc = "save"]
  <2>1. prepare' = [prepare EXCEPT ![c] = new]
    BY <1>6 DEF GoOn, BecomeCall
  <2>2. /\ new \in PrepareState /\ new.pc = "save" /\ new.token = p.token
        /\ new.snapshot = p.snapshot /\ new.step = p.step /\ new.sent = p.sent
    BY <1>2 DEF PrepareState
  <2>3. Reached(zoom[k], p.step)
    <3>1. dispatch[k].step \in Step
      BY <1>2 DEF Row
    <3> QED
      BY <1>1, <1>2, <1>4, <1>6, <3>1, ReadReaches
  <2>4. p.step \in Step
    BY <1>2 DEF PrepareState
  <2>5. zoom[k].setting = p.snapshot.setting
    BY <1>6 DEF AsExpected
  <2> HIDE DEF new
  <2>6. Sends(new, zoom[k])
    BY <1>4, <2>2 DEF Sends
  <2>7. Fits(new, dispatch[k], zoom[k])
    BY <1>4, <2>2, <2>3, <2>5, <2>6 DEF Fits, SaveOK
  <2>8. Tells(dispatch[k], zoom[k])
    BY <1>4 DEF Tells
  <2> QED
    BY <1>1, <1>2, <1>3, <2>1, <2>2, <2>7, <2>8, CallStep DEF Working
<1> QED
  BY <1>1, <1>5, <1>6

\* The row with the checkpoint of the step just done.
Recorded(c) ==
  [dispatch[KeyOf(c)] EXCEPT
     !.step = prepare[c].step,
     !.state = IF prepare[c].step = ReadbackVerified THEN "READY" ELSE dispatch[KeyOf(c)].state]

LEMMA RecordedRow ==
  ASSUME Inv, NEW c \in Preparation, prepare[c].pc = "save"
  PROVE  /\ Recorded(c) \in Row
         /\ Recorded(c).step = prepare[c].step
         /\ Recorded(c).draft = dispatch[KeyOf(c)].draft
         /\ Recorded(c).state
              = IF prepare[c].step = ReadbackVerified THEN "READY" ELSE "PREPARING"
<1>1. /\ dispatch[KeyOf(c)] \in Row /\ prepare[c] \in PrepareState
      /\ dispatch[KeyOf(c)].state = "PREPARING"
  BY WorkerFacts DEF Working, Fits, SaveOK
<1>2. prepare[c].step \in Step
  BY <1>1 DEF PrepareState
<1> QED
  BY <1>1, <1>2 DEF Recorded, Row

LEMMA SaveInv ==
  ASSUME Inv, NEW c \in Preparation, Save(c)
  PROVE  Inv'
<1> DEFINE p == prepare[c]
<1> DEFINE k == KeyOf(c)
<1> DEFINE new == IF p.step = ReadbackVerified THEN [p EXCEPT !.pc = "done"]
                  ELSE [p EXCEPT !.pc = "act", !.step = NextStep(c)]
<1>1. /\ p.pc = "save" /\ UNCHANGED <<around, zoom, starter>>
      /\ dispatch' = [dispatch EXCEPT ![k] = Recorded(c)]
      /\ prepare' = [prepare EXCEPT ![c] = new]
  BY DEF Save, Checkpoint, PutDispatch, Recorded, GoOn, BecomeCall
<1>2. /\ p \in PrepareState /\ k \in OperationKey /\ p.snapshot.people # {}
      /\ zoom[k] \in Outside /\ SaveOK(p, dispatch[k], zoom[k]) /\ p.pc \in Working
  BY <1>1, WorkerFacts DEF Working, Fits
<1>3. zoom' = [zoom EXCEPT ![k] = zoom[k]]
  BY <1>1, <1>2, ZoomSame
<1>4. /\ Recorded(c) \in Row /\ Recorded(c).step = p.step
      /\ Recorded(c).draft = dispatch[k].draft
      /\ Recorded(c).state = IF p.step = ReadbackVerified THEN "READY" ELSE "PREPARING"
  BY <1>1, RecordedRow
<1>5. Tells(Recorded(c), zoom[k])
  BY <1>2, <1>4 DEF Tells, SaveOK
<1>6. /\ new \in PrepareState /\ new.token = p.token /\ new.snapshot = p.snapshot
      /\ new.pc \in Working \cup {"done"} /\ Fits(new, Recorded(c), zoom[k])
  <2>1. p.step \in 0..9
    BY <1>2 DEF PrepareState, Step
  <2>2. CASE p.step = ReadbackVerified
    <3>1. new = [p EXCEPT !.pc = "done"]
      BY <2>2
    <3> HIDE DEF new
    <3> QED
      BY <1>2, <3>1 DEF PrepareState, Fits
  <2>3. CASE p.step # ReadbackVerified
    <3>1. new = [p EXCEPT !.pc = "act", !.step = NextStep(c)]
      BY <2>3
    <3>2. NextStep(c) = IF p.step \in {1, 2}
                        THEN IF p.sent = p.snapshot.people THEN 3 ELSE 2
                        ELSE p.step + 1
      BY DEF NextStep, ListCreated, ContactsCreated, AssetCreated
    <3>3. NextStep(c) \in Step
      BY <2>1, <2>3, <3>2 DEF Step, ReadbackVerified
    <3> HIDE DEF new
    <3>4. /\ new \in PrepareState /\ new.token = p.token /\ new.snapshot = p.snapshot
          /\ new.pc = "act" /\ new.step = NextStep(c) /\ new.sent = p.sent
      BY <1>2, <3>1, <3>3 DEF PrepareState
    <3>5. /\ p.sent = zoom[k].contacts /\ (p.step = 1 => p.sent = {})
          /\ (p.step > 2 => p.sent = p.snapshot.people)
          /\ (p.step >= 7 => zoom[k].setting = p.snapshot.setting)
          /\ Reached(zoom[k], p.step) /\ Follows(p.step, dispatch[k].step)
          /\ dispatch[k].step \in 0..9
      BY <1>1, <1>2, WorkerFacts
         DEF SaveOK, Sends, ListCreated, ContactsCreated, ConfigurationVerified, Row, Step, Working
    <3>6. p.step # 0
      BY <2>1, <3>5 DEF Follows, ContactsCreated
    <3>7. Follows(NextStep(c), p.step)
      BY <1>2, <2>1, <3>2, <3>5, <3>6 DEF Follows, ContactsCreated
    <3>8. Sends(new, zoom[k])
      BY <2>1, <3>2, <3>4, <3>5, <3>6 DEF Sends, ListCreated, ContactsCreated
    <3>9. new.step > ConfigurationVerified => zoom[k].setting = new.snapshot.setting
      BY <2>1, <3>2, <3>4, <3>5, <3>6 DEF ConfigurationVerified
    <3>10. ActOK(new, Recorded(c), zoom[k])
      BY <1>4, <2>3, <3>4, <3>5, <3>7, <3>8, <3>9 DEF ActOK
    <3> QED
      BY <3>4, <3>10 DEF Fits, Working
  <2> QED
    BY <2>2, <2>3
<1> HIDE DEF new
<1>7. Recorded(c).state # "VALIDATING"
  BY <1>4
<1> QED
  BY <1>1, <1>2, <1>3, <1>4, <1>5, <1>6, <1>7, CallStep

LEMMA SaveFailsInv ==
  ASSUME Inv, NEW c \in Preparation, SaveFails(c)
  PROVE  Inv'
<1> DEFINE p == prepare[c]
<1> DEFINE k == KeyOf(c)
<1>1. /\ p.pc = "save" /\ UNCHANGED <<around, zoom, starter>> /\ Throw(c, TRUE)
      /\ UNCHANGED dispatch \/ dispatch' = [dispatch EXCEPT ![k] = Recorded(c)]
  BY DEF SaveFails, Checkpoint, PutDispatch, Recorded
<1>2. /\ p \in PrepareState /\ k \in OperationKey /\ dispatch[k] \in Row
      /\ zoom[k] \in Outside /\ SaveOK(p, dispatch[k], zoom[k])
  BY <1>1, WorkerFacts DEF Working, Fits
<1>3. zoom' = [zoom EXCEPT ![k] = zoom[k]]
  BY <1>1, <1>2, ZoomSame
<1>4. dispatch[k].state = "PREPARING" /\ Reached(zoom[k], p.step)
        /\ Follows(p.step, dispatch[k].step)
  BY <1>2 DEF SaveOK
<1>5. CASE UNCHANGED dispatch
  <2>1. dispatch' = [dispatch EXCEPT ![k] = dispatch[k]]
    BY <1>2, <1>5, RowSame
  <2>2. p.step \in Step
    BY <1>2 DEF PrepareState
  <2>3. \/ Reached(zoom[k], dispatch[k].step)
        \/ dispatch[k].step < ReadbackVerified /\ Reached(zoom[k], dispatch[k].step + 1)
    BY <1>2, <1>4, <2>2, TellsNext
  <2>4. /\ p.pc \in {"act", "save"} /\ UNCHANGED <<around, starter>>
        /\ dispatch[k].state \in {"PREPARING", "READY"} /\ dispatch[k].state # "READY"
    BY <1>1, <1>4
  <2> QED
    BY <1>1, <1>2, <1>3, <2>1, <2>3, <2>4, ThrowInv
<1>6. CASE dispatch' = [dispatch EXCEPT ![k] = Recorded(c)]
  <2>1. /\ Recorded(c) \in Row /\ Recorded(c).step = p.step
        /\ Recorded(c).draft = dispatch[k].draft
        /\ Recorded(c).state \in {"PREPARING", "READY"}
    BY <1>1, RecordedRow
  <2> QED
    BY <1>1, <1>2, <1>3, <1>4, <1>6, <2>1, ThrowInv
<1> QED
  BY <1>1, <1>5, <1>6

LEMMA CatchInv ==
  ASSUME Inv, NEW c \in Preparation, Catch(c) \/ CatchFails(c)
  PROVE  Inv'
<1> DEFINE p == prepare[c]
<1> DEFINE k == KeyOf(c)
<1> DEFINE new == [p EXCEPT !.pc = "done"]
<1>1. /\ p.pc = "catch" /\ UNCHANGED <<around, zoom, starter>>
      /\ prepare' = [prepare EXCEPT ![c] = new]
  BY DEF Catch, CatchFails, GoOn, BecomeCall
<1>2. /\ p \in PrepareState /\ k \in OperationKey /\ dispatch[k] \in Row
      /\ dispatch[k].state # "VALIDATING"
      /\ zoom[k] \in Outside /\ CatchOK(p, dispatch[k], zoom[k]) /\ p.pc \in Working
  BY <1>1, WorkerFacts DEF Working, Fits
<1>3. zoom' = [zoom EXCEPT ![k] = zoom[k]]
  BY <1>1, <1>2, ZoomSame
<1>4. /\ new \in PrepareState /\ new.token = p.token /\ new.snapshot = p.snapshot
      /\ new.pc = "done"
  BY <1>2 DEF PrepareState
<1> HIDE DEF new
<1>5. \A r, z : Fits(new, r, z)
  BY <1>4 DEF Fits
<1>6. CASE Catch(c)
  <2> DEFINE row == [dispatch[k] EXCEPT !.state = Verdict(c)]
  <2>1. dispatch' = [dispatch EXCEPT ![k] = row]
    BY <1>6 DEF Catch, PutDispatch
  <2>2. Verdict(c) \in {"RESULT_UNKNOWN", "FAILED"} /\ (p.unknown = TRUE => Verdict(c) = "RESULT_UNKNOWN")
    BY DEF Verdict
  <2>3. /\ row \in Row /\ row.step = dispatch[k].step /\ row.draft = dispatch[k].draft
        /\ row.state = Verdict(c)
    BY <1>2, <2>2 DEF Row
  <2> HIDE DEF row
  <2>4. Tells(row, zoom[k])
    BY <1>2, <2>2, <2>3 DEF Tells, CatchOK
  <2>5. row.state # "VALIDATING"
    BY <2>2, <2>3
  <2> QED
    BY <1>1, <1>2, <1>3, <1>4, <1>5, <2>1, <2>3, <2>4, <2>5, CallStep
<1>7. CASE CatchFails(c)
  <2>1. dispatch' = [dispatch EXCEPT ![k] = dispatch[k]]
    BY <1>2, <1>7, RowSame DEF CatchFails
  <2>2. dispatch[k] # Nothing
    BY <1>2, RowAssumption
  <2>3. Tells(dispatch[k], zoom[k])
    BY <1>2, <2>2 DEF Inv, RowTellsOutside, Tells
  <2> QED
    BY <1>1, <1>2, <1>3, <1>4, <1>5, <2>1, <2>3, CallStep
<1> QED
  BY <1>6, <1>7

-----------------------------------------------------------------------------
(* The other steps.                                                        *)

\* Rows and contact centre stay, tokens may be added, calls may ask or end.
LEMMA QuietInv ==
  ASSUME Inv, DispatchTypeOK', UNCHANGED <<dispatch, zoom>>, tokens \subseteq tokens',
         \A c \in Preparation :
           prepare'[c] = prepare[c] \/ (TokenOK(prepare[c])' /\ prepare'[c].pc \notin Working),
         \A o \in Starter :
           starter'[o] = starter[o] \/ StarterOK(starter'[o])
  PROVE  Inv'
<1>1. RowTellsOutside'
  BY DEF Inv, RowTellsOutside, Reached
<1>2. DialsAsConfirmed'
  BY DEF Inv, DialsAsConfirmed
<1>3. CallsOK'
  <2>1. ASSUME NEW c \in Preparation PROVE TokenOK(prepare[c])'
    BY DEF Inv, CallsOK, TokenOK
  <2>2. ASSUME NEW c \in Preparation, prepare'[c].pc \in Working
        PROVE  /\ dispatch'[prepare'[c].token.key] # Nothing
               /\ dispatch'[prepare'[c].token.key].state # "VALIDATING"
               /\ dispatch'[prepare'[c].token.key].draft = prepare'[c].token.draft
               /\ Fits(prepare'[c], dispatch'[prepare'[c].token.key],
                       zoom'[prepare'[c].token.key])
    <3>1. prepare'[c] = prepare[c]
      BY <2>2
    <3> QED
      BY <2>2, <3>1 DEF Inv, CallsOK, WorkerOK
  <2>3. ASSUME NEW c \in Preparation PROVE WorkerOK(prepare[c])'
    BY <2>2 DEF WorkerOK, Fits, ActOK, SaveOK, CatchOK, Sends, Reached, Follows
  <2> QED
    BY <2>1, <2>3 DEF CallsOK
<1>4. OneWorker'
  <2>1. \A c \in Preparation : prepare'[c].pc \in Working => prepare'[c] = prepare[c]
    OBVIOUS
  <2> QED
    BY <2>1 DEF Inv, OneWorker, KeyOf
<1>5. StartersOK'
  BY DEF Inv, StartersOK, StarterOK
<1> QED
  BY <1>1, <1>2, <1>3, <1>4, <1>5 DEF Inv

LEMMA AskingInv ==
  ASSUME Inv, NEW c \in Preparation, NEW new \in PrepareState, new.pc \notin Working,
         TokenOK(new), prepare' = [prepare EXCEPT ![c] = new],
         UNCHANGED <<around, dispatch, zoom, starter>>
  PROVE  Inv'
<1>1. DispatchTypeOK'
  BY DEF Inv, DispatchTypeOK, around
<1>2. prepare'[c] = new /\ \A d \in Preparation : d # c => prepare'[d] = prepare[d]
  BY DEF Inv, DispatchTypeOK
<1>3. tokens' = tokens /\ starter' = starter
  BY DEF around
<1>4. TokenOK(prepare[c])'
  BY <1>2, <1>3 DEF TokenOK
<1> QED
  BY <1>1, <1>2, <1>3, <1>4, QuietInv

LEMMA EndingInv ==
  ASSUME Inv, NEW c \in Preparation, GoOn(c, "done"),
         UNCHANGED <<around, dispatch, zoom, starter>>
  PROVE  Inv'
<1> DEFINE new == [prepare[c] EXCEPT !.pc = "done"]
<1>1. new \in PrepareState /\ new.pc = "done"
  BY CallOf DEF PrepareState
<1>2. prepare' = [prepare EXCEPT ![c] = new]
  BY DEF GoOn, BecomeCall
<1> HIDE DEF new
<1>3. TokenOK(new) /\ new.pc \notin Working
  BY <1>1 DEF TokenOK, Asked, Working
<1> QED
  BY <1>1, <1>2, <1>3, AskingInv

LEMMA RequestInv ==
  ASSUME Inv, NEW c \in Preparation, NEW a \in Actor, NEW t \in tokens, Request(c, a, t)
  PROVE  Inv'
<1> DEFINE new == [NotPreparing EXCEPT !.pc = "lookup", !.actor = a, !.token = t]
<1>1. t \in Token
  BY DEF Inv, DispatchTypeOK
<1>2. /\ new \in PrepareState /\ new.pc = "lookup" /\ new.token = t /\ new.sent = {}
      /\ new.actor = a
  <2>1. NotPreparing \in PrepareState /\ NotPreparing.sent = {}
    BY DEF NotPreparing, PrepareState, Step
  <2> QED
    BY <1>1, <2>1 DEF PrepareState
<1>3. /\ prepare' = [prepare EXCEPT ![c] = new]
      /\ UNCHANGED <<around, dispatch, zoom, starter>>
  BY DEF Request, BecomeCall
<1> HIDE DEF new
<1>4. TokenOK(new) /\ new.pc \notin Working
  BY <1>2 DEF TokenOK, Asked, Working
<1> QED
  BY <1>2, <1>3, <1>4, AskingInv

LEMMA LookupInv ==
  ASSUME Inv, NEW c \in Preparation, Lookup(c)
  PROVE  Inv'
<1> DEFINE new == [prepare[c] EXCEPT !.pc = "resolve"]
<1>1. /\ prepare[c].pc = "lookup" /\ UNCHANGED <<around, dispatch, zoom, starter>>
      /\ GoOn(c, "done") \/ prepare' = [prepare EXCEPT ![c] = new]
  BY DEF Lookup, GoOn, BecomeCall
<1>2. /\ new \in PrepareState /\ new.pc = "resolve" /\ new.token = prepare[c].token
      /\ new.sent = prepare[c].sent /\ new.actor = prepare[c].actor
  BY CallOf DEF PrepareState
<1>3. TokenOK(prepare[c])
  BY DEF Inv, CallsOK
<1> HIDE DEF new
<1>4. TokenOK(new) /\ new.pc \notin Working
  BY <1>1, <1>2, <1>3 DEF TokenOK, Asked, Working
<1> QED
  BY <1>1, <1>2, <1>4, AskingInv, EndingInv

LEMMA ResolveInv ==
  ASSUME Inv, NEW c \in Preparation, Resolve(c)
  PROVE  Inv'
<1> DEFINE new == [prepare[c] EXCEPT !.pc = "create", !.snapshot = sources]
<1>1. /\ prepare[c].pc = "resolve" /\ UNCHANGED <<around, dispatch, zoom, starter>>
      /\ \/ GoOn(c, "done")
         \/ /\ prepare' = [prepare EXCEPT ![c] = new]
            /\ sources.people # {} /\ sources = prepare[c].token.found
  BY DEF Resolve, GoOn, BecomeCall, Resolvable, SameAsSigned
<1>2. sources \in Snapshot
  BY DEF Inv, DispatchTypeOK
<1>3. /\ new \in PrepareState /\ new.pc = "create" /\ new.token = prepare[c].token
      /\ new.sent = prepare[c].sent /\ new.actor = prepare[c].actor /\ new.snapshot = sources
  BY <1>2, CallOf DEF PrepareState
<1>4. TokenOK(prepare[c])
  BY DEF Inv, CallsOK
<1> HIDE DEF new
<1>5. sources.people # {} /\ sources = prepare[c].token.found => TokenOK(new)
  BY <1>1, <1>3, <1>4 DEF TokenOK, Asked, Working
<1>6. new.pc \notin Working
  BY <1>3 DEF Working
<1> QED
  BY <1>1, <1>3, <1>5, <1>6, AskingInv, EndingInv

\* The row of a key that had none.
LEMMA NewRow ==
  ASSUME Inv, NEW k \in OperationKey, dispatch[k] = Nothing,
         NEW row \in Row, dispatch' = [dispatch EXCEPT ![k] = row],
         row.state = "VALIDATING" \/ (row.state = "PREPARING" /\ row.step = 0),
         UNCHANGED <<around, zoom, starter>>
  PROVE  /\ dispatch \in [OperationKey -> Row \cup {Nothing}]
         /\ dispatch'[k] = row
         /\ \A l \in OperationKey : l # k => dispatch'[l] = dispatch[l]
         /\ zoom[k] = Untouched /\ Reached(zoom[k], 0)
         /\ RowTellsOutside' /\ DialsAsConfirmed' /\ StartersOK'
<1>1. /\ dispatch \in [OperationKey -> Row \cup {Nothing}]
      /\ dispatch'[k] = row
      /\ \A l \in OperationKey : l # k => dispatch'[l] = dispatch[l]
  BY DEF Inv, DispatchTypeOK
<1>2. zoom' = zoom /\ tokens' = tokens /\ starter' = starter
  BY DEF around
<1>3. zoom[k] = Untouched
  BY DEF Inv, RowTellsOutside
<1>4. Reached(zoom[k], 0)
  BY <1>3 DEF Untouched, Reached, ListCreated, AssetCreated, CampaignCreated, Configured, ReadySet
<1>5. zoom[k].status \notin Dialling
  BY <1>3 DEF Untouched, Dialling
<1>6. RowTellsOutside'
  <2>1. ASSUME NEW l \in OperationKey
        PROVE  IF dispatch'[l] = Nothing \/ dispatch'[l].state = "VALIDATING"
               THEN zoom'[l] = Untouched ELSE Tells(dispatch'[l], zoom'[l])
    <3>1. CASE l = k
      BY <1>1, <1>2, <1>3, <1>4, <3>1 DEF Tells
    <3>2. CASE l # k
      BY <1>1, <1>2, <3>2 DEF Inv, RowTellsOutside, Tells
    <3> QED
      BY <3>1, <3>2
  <2> QED
    BY <2>1 DEF RowTellsOutside, Tells, Reached
<1>7. DialsAsConfirmed'
  BY <1>1, <1>2, <1>5 DEF Inv, DialsAsConfirmed, Dialling
<1>8. StartersOK'
  BY <1>2 DEF Inv, StartersOK, StarterOK
<1> QED
  BY <1>1, <1>3, <1>4, <1>6, <1>7, <1>8

\* Calls that work have a row, and are not touched by the row of another key.
LEMMA OthersWork ==
  ASSUME Inv, NEW k \in OperationKey, dispatch[k] = Nothing, NEW d \in Preparation,
         prepare[d].pc \in Working
  PROVE  /\ KeyOf(d) \in OperationKey /\ KeyOf(d) # k
         /\ dispatch[KeyOf(d)] # Nothing /\ dispatch[KeyOf(d)].state # "VALIDATING"
         /\ dispatch[KeyOf(d)].draft = prepare[d].token.draft
         /\ Fits(prepare[d], dispatch[KeyOf(d)], zoom[KeyOf(d)])
  BY WorkerFacts, RowAssumption

LEMMA ValidateInv ==
  ASSUME Inv, NEW k \in OperationKey, NEW a \in Actor, Validate(k, a)
  PROVE  Inv'
<1> DEFINE row == [actor |-> a, draft |-> Nothing, step |-> SnapshotVerified,
                   state |-> "VALIDATING"]
<1>1. /\ dispatch[k] = Nothing /\ dispatch' = [dispatch EXCEPT ![k] = row]
      /\ UNCHANGED <<around, zoom, prepare, starter>>
  BY DEF Validate, PutDispatch
<1>2. row \in Row /\ row.state = "VALIDATING"
  BY DEF Row, Step, SnapshotVerified
<1> HIDE DEF row
<1>3. /\ \A l \in OperationKey : l # k => dispatch'[l] = dispatch[l]
      /\ RowTellsOutside' /\ DialsAsConfirmed' /\ StartersOK'
  BY <1>1, <1>2, NewRow
<1>4. prepare' = prepare /\ zoom' = zoom /\ tokens' = tokens
  BY <1>1 DEF around
<1>5. DispatchTypeOK'
  BY <1>1, <1>2 DEF Inv, DispatchTypeOK, around
<1>6. CallsOK'
  <2>1. ASSUME NEW d \in Preparation PROVE TokenOK(prepare[d])'
    BY <1>4 DEF Inv, CallsOK, TokenOK
  <2>2. ASSUME NEW d \in Preparation, prepare'[d].pc \in Working
        PROVE  /\ dispatch'[prepare'[d].token.key] # Nothing
               /\ dispatch'[prepare'[d].token.key].state # "VALIDATING"
               /\ dispatch'[prepare'[d].token.key].draft = prepare'[d].token.draft
               /\ Fits(prepare'[d], dispatch'[prepare'[d].token.key],
                       zoom'[prepare'[d].token.key])
    BY <1>1, <1>3, <1>4, <2>2, OthersWork DEF KeyOf
  <2>3. ASSUME NEW d \in Preparation PROVE WorkerOK(prepare[d])'
    BY <2>2 DEF WorkerOK, Fits, ActOK, SaveOK, CatchOK, Sends, Reached, Follows
  <2> QED
    BY <2>1, <2>3 DEF CallsOK
<1>7. OneWorker'
  BY <1>4 DEF Inv, OneWorker, KeyOf
<1> QED
  BY <1>3, <1>5, <1>6, <1>7 DEF Inv

LEMMA CreateInv ==
  ASSUME Inv, NEW c \in Preparation, Create(c)
  PROVE  Inv'
<1> DEFINE p == prepare[c]
<1> DEFINE k == KeyOf(c)
<1> DEFINE row == [actor |-> p.actor, draft |-> p.token.draft, step |-> SnapshotVerified,
                   state |-> "PREPARING"]
<1>1. /\ p.pc = "create" /\ dispatch[k] = Nothing /\ dispatch' = [dispatch EXCEPT ![k] = row]
      /\ UNCHANGED <<around, zoom, starter>>
  BY DEF Create, PutDispatch
<1>2. PICK new : /\ prepare' = [prepare EXCEPT ![c] = new]
                 /\ \/ new = [p EXCEPT !.pc = "act", !.step = ListCreated]
                    \/ new = [p EXCEPT !.pc = "done"]
  BY DEF Create, GoOn, BecomeCall
<1>3. /\ p \in PrepareState /\ p.token \in tokens /\ p.token \in Token /\ k \in OperationKey
  BY <1>1, CallOf DEF Asked
<1>4. /\ p.actor \in Actor /\ p.sent = {}
      /\ p.snapshot = p.token.found /\ p.snapshot.people # {}
  BY <1>1 DEF Inv, CallsOK, TokenOK
<1>5. p.token.draft \in Draft
  BY <1>3 DEF Token
<1>6. /\ new \in PrepareState /\ new.token = p.token /\ new.snapshot = p.snapshot
      /\ new.sent = {} /\ new.pc \in {"act", "done"} /\ (new.pc = "act" => new.step = ListCreated)
  <2>1. ListCreated \in Step
    BY DEF Step, ListCreated
  <2> QED
    BY <1>2, <1>3, <1>4, <2>1 DEF PrepareState
<1>7. row \in Row /\ row.state = "PREPARING" /\ row.step = 0 /\ row.draft = p.token.draft
  BY <1>4, <1>5 DEF Row, Step, SnapshotVerified
<1> HIDE DEF row
<1>8. /\ dispatch'[k] = row /\ \A l \in OperationKey : l # k => dispatch'[l] = dispatch[l]
      /\ zoom[k] = Untouched /\ Reached(zoom[k], 0)
      /\ RowTellsOutside' /\ DialsAsConfirmed' /\ StartersOK'
  BY <1>1, <1>3, <1>7, NewRow
<1>9. zoom' = zoom /\ tokens' = tokens
  BY <1>1 DEF around
<1>10. DispatchTypeOK'
  BY <1>1, <1>2, <1>3, <1>6, <1>7 DEF Inv, DispatchTypeOK, around
<1>11. prepare'[c] = new /\ \A d \in Preparation : d # c => prepare'[d] = prepare[d]
  BY <1>2 DEF Inv, DispatchTypeOK
<1>12. Fits(new, row, zoom[k])
  <2>1. zoom[k].contacts = {}
    BY <1>8 DEF Untouched
  <2> QED
    BY <1>6, <1>7, <1>8, <2>1
       DEF Fits, ActOK, Sends, Follows, ListCreated, ContactsCreated, ConfigurationVerified
<1>13. CallsOK'
  <2>1. ASSUME NEW d \in Preparation PROVE TokenOK(prepare[d])'
    <3>1. CASE d = c
      BY <1>3, <1>4, <1>6, <1>9, <1>11, <3>1 DEF TokenOK, Asked, Working
    <3>2. CASE d # c
      BY <1>9, <1>11, <3>2 DEF Inv, CallsOK, TokenOK
    <3> QED
      BY <3>1, <3>2
  <2>2. ASSUME NEW d \in Preparation, prepare'[d].pc \in Working
        PROVE  /\ dispatch'[prepare'[d].token.key] # Nothing
               /\ dispatch'[prepare'[d].token.key].state # "VALIDATING"
               /\ dispatch'[prepare'[d].token.key].draft = prepare'[d].token.draft
               /\ Fits(prepare'[d], dispatch'[prepare'[d].token.key],
                       zoom'[prepare'[d].token.key])
    <3>1. CASE d = c
      BY <1>6, <1>7, <1>8, <1>9, <1>11, <1>12, <3>1, RowAssumption DEF KeyOf
    <3>2. CASE d # c
      BY <1>1, <1>3, <1>8, <1>9, <1>11, <2>2, <3>2, OthersWork DEF KeyOf
    <3> QED
      BY <3>1, <3>2
  <2>3. ASSUME NEW d \in Preparation PROVE WorkerOK(prepare[d])'
    BY <2>2 DEF WorkerOK, Fits, ActOK, SaveOK, CatchOK, Sends, Reached, Follows
  <2> QED
    BY <2>1, <2>3 DEF CallsOK
<1>14. OneWorker'
  <2>1. \A d \in Preparation :
          d # c /\ prepare'[d].pc \in Working =>
            prepare[d].pc \in Working /\ prepare'[d].token = prepare[d].token /\ KeyOf(d) # k
    BY <1>1, <1>3, <1>11, OthersWork
  <2>2. prepare'[c].token = p.token
    BY <1>6, <1>11
  <2> QED
    BY <2>1, <2>2 DEF Inv, OneWorker, KeyOf
<1> QED
  BY <1>8, <1>10, <1>13, <1>14 DEF Inv

\* A campaign that dials is past every step but the last two, and stays so.
LEMMA FitsStarted ==
  ASSUME NEW p, NEW r \in Row, NEW z \in Outside, z.status \in Dialling,
         NEW to \in {"running", "paused"}, p.step \in Step, Fits(p, r, z)
  PROVE  Fits(p, r, [z EXCEPT !.status = to])
<1> DEFINE y == [z EXCEPT !.status = to]
<1>1. y.contacts = z.contacts /\ y.setting = z.setting
  BY DEF Outside
<1>2. r.step \in Nat /\ r.step + 1 \in Nat /\ p.step \in Nat
  BY DEF Row, Step
<1>3. /\ Reached(z, r.step) => Reached(y, r.step)
      /\ Reached(z, r.step + 1) => Reached(y, r.step + 1)
      /\ Reached(z, p.step) => Reached(y, p.step)
  BY <1>2, StartedReaches
<1> HIDE DEF y
<1>4. Fits(p, r, y)
  BY <1>1, <1>3 DEF Fits, ActOK, SaveOK, CatchOK, Sends
<1> QED
  BY <1>4 DEF y

LEMMA SetStatusInv ==
  ASSUME Inv, NEW o \in Starter, SetStatus(o)
  PROVE  Inv'
<1> DEFINE k == starter[o].key
<1> DEFINE to == starter[o].to
<1> DEFINE y == [zoom[k] EXCEPT !.status = to]
<1> DEFINE new == [starter[o] EXCEPT !.pc = "read"]
<1>1. /\ starter[o].pc = "set" /\ zoom' = [zoom EXCEPT ![k] = y]
      /\ starter' = [starter EXCEPT ![o] = new]
      /\ UNCHANGED <<around, dispatch, prepare>>
  BY DEF SetStatus, PutZoom, BecomeStarter
<1>2. k \in OperationKey /\ zoom[k].status \in Dialling /\ to \in {"running", "paused"}
  BY <1>1 DEF Inv, StartersOK, StarterOK
<1>3. zoom[k] \in Outside
  BY <1>2, RowOf
<1>4. /\ y \in Outside /\ y.contacts = zoom[k].contacts /\ y.setting = zoom[k].setting
      /\ y.status \in Dialling
  BY <1>2, <1>3 DEF Outside, Status, Dialling
<1>5. \A s \in Nat : Reached(zoom[k], s) => Reached(y, s)
  BY <1>2, <1>3, StartedReaches
<1> HIDE DEF y
<1>6. starter[o] \in StarterState
  BY DEF Inv, DispatchTypeOK
<1>7. new \in StarterState /\ new.pc = "read"
  BY <1>6 DEF StarterState
<1> HIDE DEF new
<1>8. /\ zoom'[k] = y /\ \A l \in OperationKey : l # k => zoom'[l] = zoom[l]
      /\ starter'[o] = new /\ \A q \in Starter : q # o => starter'[q] = starter[q]
      /\ dispatch' = dispatch /\ prepare' = prepare /\ tokens' = tokens
  BY <1>1, <1>2 DEF Inv, DispatchTypeOK, around
<1>9. DispatchTypeOK'
  BY <1>1, <1>2, <1>4, <1>7 DEF Inv, DispatchTypeOK, around
<1>10. dispatch[k] # Nothing /\ dispatch[k].state # "VALIDATING" /\ dispatch[k] \in Row
  <2>1. zoom[k] # Untouched
    BY <1>2 DEF Untouched, Dialling
  <2> QED
    BY <1>2, <2>1, RowOf DEF Inv, RowTellsOutside
<1>11. RowTellsOutside'
  <2>1. ASSUME NEW l \in OperationKey
        PROVE  IF dispatch'[l] = Nothing \/ dispatch'[l].state = "VALIDATING"
               THEN zoom'[l] = Untouched ELSE Tells(dispatch'[l], zoom'[l])
    <3>1. CASE l = k
      <4>1. Tells(dispatch[k], zoom[k])
        BY <1>2, <1>10 DEF Inv, RowTellsOutside, Tells
      <4>2. dispatch[k].step \in Nat /\ dispatch[k].step + 1 \in Nat
        BY <1>10 DEF Row, Step
      <4>3. Tells(dispatch[k], y)
        BY <1>5, <4>1, <4>2 DEF Tells
      <4> QED
        BY <1>8, <1>10, <3>1, <4>3
    <3>2. CASE l # k
      BY <1>8, <3>2 DEF Inv, RowTellsOutside, Tells
    <3> QED
      BY <3>1, <3>2
  <2> QED
    BY <2>1 DEF RowTellsOutside, Tells, Reached
<1>12. DialsAsConfirmed'
  BY <1>2, <1>4, <1>8 DEF Inv, DialsAsConfirmed, Dialling
<1>13. CallsOK'
  <2>1. ASSUME NEW d \in Preparation PROVE TokenOK(prepare[d])'
    BY <1>8 DEF Inv, CallsOK, TokenOK
  <2>2. ASSUME NEW d \in Preparation, prepare'[d].pc \in Working
        PROVE  /\ dispatch'[prepare'[d].token.key] # Nothing
               /\ dispatch'[prepare'[d].token.key].state # "VALIDATING"
               /\ dispatch'[prepare'[d].token.key].draft = prepare'[d].token.draft
               /\ Fits(prepare'[d], dispatch'[prepare'[d].token.key],
                       zoom'[prepare'[d].token.key])
    <3>1. /\ prepare[d].pc \in Working /\ prepare'[d] = prepare[d]
          /\ KeyOf(d) \in OperationKey /\ prepare[d] \in PrepareState
          /\ dispatch[KeyOf(d)] # Nothing /\ dispatch[KeyOf(d)].state # "VALIDATING"
          /\ dispatch[KeyOf(d)].draft = prepare[d].token.draft
          /\ Fits(prepare[d], dispatch[KeyOf(d)], zoom[KeyOf(d)])
      BY <1>8, <2>2, WorkerFacts, RowAssumption
    <3>2. Fits(prepare[d], dispatch[KeyOf(d)], zoom'[KeyOf(d)])
      <4>1. CASE KeyOf(d) = k
        <5>1. prepare[d].step \in Step
          BY <3>1 DEF PrepareState
        <5>2. Fits(prepare[d], dispatch[k], y)
          BY <1>2, <1>3, <1>10, <3>1, <4>1, <5>1, FitsStarted DEF y
        <5> QED
          BY <1>8, <4>1, <5>2
      <4>2. CASE KeyOf(d) # k
        BY <1>8, <3>1, <4>2
      <4> QED
        BY <4>1, <4>2
    <3> QED
      BY <1>8, <3>1, <3>2 DEF KeyOf
  <2>3. ASSUME NEW d \in Preparation PROVE WorkerOK(prepare[d])'
    BY <2>2 DEF WorkerOK, Fits, ActOK, SaveOK, CatchOK, Sends, Reached, Follows
  <2> QED
    BY <2>1, <2>3 DEF CallsOK
<1>14. OneWorker'
  BY <1>8 DEF Inv, OneWorker, KeyOf
<1>15. StartersOK'
  <2>1. \A l \in OperationKey : zoom[l].status \in Dialling => zoom'[l].status \in Dialling
    BY <1>4, <1>8
  <2>2. starter'[o].pc # "set"
    BY <1>7, <1>8
  <2> QED
    BY <1>8, <2>1, <2>2 DEF Inv, StartersOK, StarterOK, Dialling
<1> QED
  BY <1>9, <1>11, <1>12, <1>13, <1>14, <1>15 DEF Inv

\* The steps of a start or a pause that leave the contact centre alone.
LEMMA StarterInv ==
  ASSUME Inv, NEW o \in Starter, NEW new \in StarterState, StarterOK(new),
         starter' = [starter EXCEPT ![o] = new],
         UNCHANGED <<around, dispatch, zoom, prepare>>
  PROVE  Inv'
<1>1. DispatchTypeOK'
  BY DEF Inv, DispatchTypeOK, around
<1>2. /\ starter'[o] = new /\ \A q \in Starter : q # o => starter'[q] = starter[q]
      /\ tokens' = tokens
  BY DEF Inv, DispatchTypeOK, around
<1> QED
  BY <1>1, <1>2, QuietInv

LEMMA StarterStepInv ==
  ASSUME Inv, NEW o \in Starter, StarterStep(o)
  PROVE  Inv'
<1>0. starter[o] \in StarterState
  BY DEF Inv, DispatchTypeOK
<1>1. ASSUME NEW k \in OperationKey, NEW to \in {"running", "paused"}, StartStatus(o, k, to)
      PROVE  Inv'
  <2> DEFINE new == [pc |-> IF MayBecome(zoom[k].status, to) THEN "set" ELSE "done",
                     key |-> k, to |-> to]
  <2>1. /\ starter' = [starter EXCEPT ![o] = new]
        /\ UNCHANGED <<around, dispatch, zoom, prepare>>
    BY <1>1 DEF StartStatus, BecomeStarter
  <2>2. new \in StarterState
    BY DEF StarterState, Status
  <2>3. StarterOK(new)
    BY DEF StarterOK, MayBecome, Dialling
  <2> QED
    BY <2>1, <2>2, <2>3, StarterInv
<1>2. CASE SetStatus(o)
  BY <1>2, SetStatusInv
<1>3. CASE SetStatusFails(o) \/ ReadStatus(o)
  <2>1. PICK pc \in {"read", "done"} :
          /\ starter' = [starter EXCEPT ![o] = [starter[o] EXCEPT !.pc = pc]]
          /\ UNCHANGED <<around, dispatch, zoom, prepare>>
    BY <1>3 DEF SetStatusFails, ReadStatus, BecomeStarter
  <2> DEFINE new == [starter[o] EXCEPT !.pc = pc]
  <2>2. new \in StarterState /\ new.pc = pc
    BY <1>0 DEF StarterState
  <2> HIDE DEF new
  <2>3. StarterOK(new)
    BY <2>2 DEF StarterOK
  <2> QED
    BY <2>1, <2>2, <2>3, StarterInv DEF new
<1> QED
  BY <1>1, <1>2, <1>3 DEF StarterStep

\* Signing, changes of the sources, and time.
LEMMA AroundInv ==
  ASSUME Inv,
         \/ \E k \in OperationKey, d \in Draft : Preflight(k, d)
         \/ Edit \/ DispatchTick
  PROVE  Inv'
<1>1. UNCHANGED <<dispatch, zoom, prepare, starter>> /\ tokens \subseteq tokens'
  BY DEF Preflight, Edit, DispatchTick
<1>2. DispatchTypeOK'
  <2>1. CASE \E k \in OperationKey, d \in Draft : Preflight(k, d)
    <3>1. PICK k \in OperationKey, d \in Draft : Preflight(k, d)
      BY <2>1
    <3>2. [key |-> k, draft |-> d, found |-> sources, expires |-> dispatchClock + TokenLife]
            \in Token
      BY DispatchBoundsAssumption DEF Inv, DispatchTypeOK, Token
    <3>3. tokens' \in SUBSET Token
      BY <3>1, <3>2 DEF Preflight, Inv, DispatchTypeOK
    <3> QED
      BY <1>1, <3>1, <3>3 DEF Preflight, Inv, DispatchTypeOK
  <2>2. CASE Edit
    BY <1>1, <2>2, DispatchBoundsAssumption DEF Edit, Inv, DispatchTypeOK
  <2>3. CASE DispatchTick
    BY <1>1, <2>3, DispatchBoundsAssumption DEF DispatchTick, Inv, DispatchTypeOK
  <2> QED
    BY <2>1, <2>2, <2>3
<1> QED
  BY <1>1, <1>2, QuietInv

-----------------------------------------------------------------------------
LEMMA InitInv == DispatchInit => Inv
<1> SUFFICES ASSUME DispatchInit PROVE Inv
  OBVIOUS
<1>1. /\ Untouched \in Outside /\ NotPreparing \in PrepareState /\ NotStarting \in StarterState
      /\ Untouched.status = "none" /\ NotPreparing.pc = "idle" /\ NotStarting.pc = "idle"
  BY DEF Untouched, Outside, Status, NotPreparing, PrepareState, Step, NotStarting, StarterState
<1>2. /\ \A k \in OperationKey : dispatch[k] = Nothing /\ zoom[k] = Untouched
      /\ \A c \in Preparation : prepare[c] = NotPreparing
      /\ \A o \in Starter : starter[o] = NotStarting
  BY DEF DispatchInit
<1>3. DispatchTypeOK
  BY <1>1, DispatchBoundsAssumption DEF DispatchInit, DispatchTypeOK
<1>4. RowTellsOutside
  BY <1>2 DEF RowTellsOutside
<1>5. DialsAsConfirmed
  BY <1>1, <1>2 DEF DialsAsConfirmed
<1>6. CallsOK /\ OneWorker /\ StartersOK
  BY <1>1, <1>2
     DEF CallsOK, TokenOK, WorkerOK, OneWorker, StartersOK, StarterOK, Working, Asked
<1> QED
  BY <1>3, <1>4, <1>5, <1>6 DEF Inv

LEMMA PrepareStepInv ==
  ASSUME Inv, NEW c \in Preparation, PrepareStep(c)
  PROVE  Inv'
<1>1. ASSUME NEW a \in Actor, NEW t \in tokens, Request(c, a, t) PROVE Inv'
  BY <1>1, RequestInv
<1>2. CASE CreateFails(c)
  BY <1>2, EndingInv DEF CreateFails
<1> QED
  BY <1>1, <1>2, LookupInv, ResolveInv, CreateInv, AnsweredInv, GivesUp, ReadBackInv, SaveInv,
     SaveFailsInv, CatchInv DEF PrepareStep

LEMMA NextInv == Inv /\ [DispatchNext]_dispatchVars => Inv'
<1> SUFFICES ASSUME Inv, [DispatchNext]_dispatchVars PROVE Inv'
  OBVIOUS
<1>1. CASE UNCHANGED dispatchVars
  <2>1. UNCHANGED <<dispatchClock, edits, sources, tokens, dispatch, zoom, prepare, starter>>
    BY <1>1 DEF dispatchVars, around
  <2>2. DispatchTypeOK'
    BY <2>1 DEF Inv, DispatchTypeOK
  <2> QED
    BY <2>1, <2>2, QuietInv
<1>2. ASSUME NEW k \in OperationKey, NEW a \in Actor, Validate(k, a) PROVE Inv'
  BY <1>2, ValidateInv
<1>3. ASSUME NEW c \in Preparation, PrepareStep(c) PROVE Inv'
  BY <1>3, PrepareStepInv
<1>4. ASSUME NEW o \in Starter, StarterStep(o) PROVE Inv'
  BY <1>4, StarterStepInv
<1> QED
  BY <1>1, <1>2, <1>3, <1>4, AroundInv DEF DispatchNext

THEOREM Invariance == DispatchSpec => []Inv
<1>1. DispatchInit => Inv
  BY InitInv
<1>2. Inv /\ [DispatchNext]_dispatchVars => Inv'
  BY NextInv
<1> QED
  BY <1>1, <1>2, PTL DEF DispatchSpec

\* Tokens, rows, the contact centre and the calls keep their types (one-time.ts).
THEOREM TypeCorrectness == DispatchSpec => []DispatchTypeOK
<1>1. Inv => DispatchTypeOK
  BY DEF Inv
<1> QED
  BY <1>1, Invariance, PTL

\* The row of a dispatch names what was made for it, or is one step behind while that is
\* in doubt; so a key makes one list, one recording and one campaign at most, whatever is
\* repeated, lost or stops (prepareZaadOneTime, updateZaadCampaignStatus).
THEOREM RowNamesWhatWasMade == DispatchSpec => []RowTellsOutside
<1>1. Inv => RowTellsOutside
  BY DEF Inv
<1> QED
  BY <1>1, Invariance, PTL

\* A campaign that may dial calls the people, with the settings, that a signed preflight of
\* the same key and request showed (resolveSnapshot, verifyPreflight).
THEOREM OnlyConfirmedPeopleAreDialled == DispatchSpec => []DialsAsConfirmed
<1>1. Inv => DialsAsConfirmed
  BY DEF Inv
<1> QED
  BY <1>1, Invariance, PTL
=============================================================================
