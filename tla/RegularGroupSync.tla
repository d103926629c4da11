--------------------------- MODULE RegularGroupSync ---------------------------
(***************************************************************************)
(* One regular group (lib/server/zaad/regular-group-sync.ts): operations   *)
(* that bring contacts of one list of the contact centre to what their     *)
(* persons are now, item by item, beside what staff do to the same rows    *)
(* (zoom-groups.ts, group-sync.ts) and to the persons (contacts.ts).  A    *)
(* member is a contact of the list with its person and its row             *)
(* (zoom_contact_memberships).  A name and its number are one value: a     *)
(* person shows its version, as every change of a person raises it.        *)
(***************************************************************************)
EXTENDS Naturals, FiniteSets

CONSTANTS
  ListMember, SyncOperation,
  SyncCall, Clerk,    \* calls of advanceRegularSync; calls of the staff about one member
  RateWait, ItemLife, \* 60 and 300 seconds
  MaxSyncTime, MaxDeeds, \* bounds on the clock and on what staff do
  NoListMember

ASSUME SyncBoundsAssumption == {RateWait, ItemLife, MaxSyncTime, MaxDeeds} \subseteq Nat
ASSUME NoListMemberAssumption == NoListMember \notin ListMember

VARIABLES
  syncClock,
  deeds,     \* what staff did so far
  list,      \* the binding of the list to the group
  person,    \* municipal_contacts and university_contacts: those of the members
  listed,    \* what the contact centre shows of each member
  member,    \* zoom_contact_memberships
  operation, \* outreach_group_sync_operations
  item,      \* outreach_group_sync_items: those of each operation, by their member
  syncCall,  \* what each advance holds
  clerk      \* what each call of the staff holds

staffVars == <<deeds, list, person>>
syncVars == <<syncClock, staffVars, listed, member, operation, item, syncCall, clerk>>

PersonVersion == 1..(MaxDeeds + 1)
Gone == 0                \* no such contact
Typed == MaxDeeds + 2    \* a name and number of somebody's own
Shown == PersonVersion \cup {Gone, Typed}

SyncState == {"LINKED", "UNLINKED", "SYNCING", "DIFFERENCE", "FAILED", "UNKNOWN",
              "REMOVED", "CRM_WITHDRAWN"}
MemberRow == [state : SyncState \cup {"none"}, version : Nat, observed : Shown, linked : BOOLEAN]
NoRow == [state |-> "none", version |-> 0, observed |-> Gone, linked |-> FALSE]
PersonRow == [version : PersonVersion, status : {"ACTIVE", "WITHDRAWN", "DELETED"}]
OperationRow == [status : {"PENDING", "PARTIAL", "COMPLETED"}, revision : Nat]
ItemStatus == {"PENDING", "RUNNING", "SYNCED", "DIFFERENCE", "FAILED", "UNKNOWN"}
ItemRow == [status : ItemStatus, version : Nat, claimed : Nat, limited : BOOLEAN]

SyncCallState ==
  [pc : {"next", "check", "lock", "observe", "recheck", "write", "read", "confirm",
         "save", "settle", "record", "count", "finish"},
   operation : SyncOperation, todo : SUBSET ListMember, member : ListMember \cup {NoListMember},
   source : Shown, seen : Shown, \* the person and the row's digest that were read
   claimed : BOOLEAN, attempted : BOOLEAN, matches : BOOLEAN, limited : BOOLEAN,
   result : ItemStatus \cup {"PARTIAL", "COMPLETED", "none"}]
Between(o, todo) ==
  [pc |-> "next", operation |-> o, todo |-> todo, member |-> NoListMember, source |-> Gone,
   seen |-> Gone, claimed |-> FALSE, attempted |-> FALSE, matches |-> FALSE, limited |-> FALSE,
   result |-> "none"]
ClerkState ==
  [pc : {"link", "send", "read", "keep"}, kind : {"link", "create", "update", "delete"},
   member : ListMember, shown : Shown, version : Nat]
NotCalled == [pc |-> "idle"]

Here == DOMAIN person
SyncTypeOK ==
  /\ syncClock \in 0..MaxSyncTime /\ deeds \in 0..MaxDeeds
  /\ list \in [attached : BOOLEAN, version : Nat]
  /\ Here \subseteq ListMember /\ person \in [Here -> PersonRow]
  /\ listed \in [Here -> Shown]
  /\ member \in [Here -> MemberRow]
  /\ DOMAIN operation \subseteq SyncOperation /\ operation \in [DOMAIN operation -> OperationRow]
  /\ DOMAIN item = DOMAIN operation
  /\ \A o \in DOMAIN item : DOMAIN item[o] \subseteq Here /\ item[o] \in [DOMAIN item[o] -> ItemRow]
  /\ syncCall \in [SyncCall -> {NotCalled} \cup SyncCallState]
  /\ clerk \in [Clerk -> {NotCalled} \cup ClerkState]

-----------------------------------------------------------------------------
\* Members that staff linked to their persons before, and contacts nobody linked.
SyncInit ==
  /\ syncClock = 0 /\ deeds = 0
  /\ list = [attached |-> TRUE, version |-> 1]
  /\ \E some \in SUBSET ListMember :
       /\ person = [m \in some |-> [version |-> 1, status |-> "ACTIVE"]]
       /\ listed \in [some -> {Gone, 1, Typed}]
       /\ member \in [some -> {NoRow} \cup
            [state : {"LINKED"}, version : {1}, observed : {1, Typed}, linked : {TRUE}]]
       /\ \A m \in some : IF member[m] = NoRow THEN listed[m] # 1 ELSE member[m].observed = listed[m]
  /\ operation = <<>> /\ item = <<>>
  /\ syncCall = [c \in SyncCall |-> NotCalled]
  /\ clerk = [k \in Clerk |-> NotCalled]

BecomeSync(c, state) == syncCall' = [syncCall EXCEPT ![c] = state]
BecomeClerk(k, state) == clerk' = [clerk EXCEPT ![k] = state]
\* Every update of a row raises its version.
Stored(row, state) == [row EXCEPT !.state = state, !.version = @ + 1]
PutMember(m, row) == member' = [member EXCEPT ![m] = row]
Having(m) == {o \in DOMAIN item : m \in DOMAIN item[o]}
Bound(o) == list = [attached |-> TRUE, version |-> operation[o].revision]

\* Without a binding of the list both routes answer with an error.
Unbound == ~list.attached /\ UNCHANGED syncVars

\* A selection, or whoever is not in step yet; one row for each operation key.
StartSync(o, chosen) ==
  /\ o \notin DOMAIN operation /\ list.attached
  /\ \A m \in chosen : /\ member[m].linked /\ member[m].state # "REMOVED"
                       /\ person[m].status = "ACTIVE"
  /\ operation' = [p \in DOMAIN operation \cup {o} |-> IF p # o THEN operation[p] ELSE
       [status |-> IF chosen = {} THEN "COMPLETED" ELSE "PENDING", revision |-> list.version]]
  /\ item' = [p \in DOMAIN item \cup {o} |-> IF p # o THEN item[p] ELSE [m \in chosen |->
       [status |-> "PENDING", version |-> member[m].version, claimed |-> 0, limited |-> FALSE]]]
  /\ UNCHANGED <<syncClock, staffVars, listed, member, syncCall, clerk>>

\* Items claimed long ago are given up, then those that wait are listed.
BeginAdvance(c, o) ==
  /\ syncCall[c].pc = "idle" /\ list.attached
  /\ item' = [item EXCEPT ![o] = [m \in DOMAIN @ |->
       IF @[m].status = "RUNNING" /\ @[m].claimed + ItemLife < syncClock
       THEN [@[m] EXCEPT !.status = "UNKNOWN", !.limited = FALSE] ELSE @[m]]]
  /\ BecomeSync(c, Between(o, {m \in DOMAIN item[o] : item[o][m].status = "PENDING"}))
  /\ UNCHANGED <<syncClock, staffVars, listed, member, operation, clerk>>

ClaimItem(c) ==
  LET call == syncCall[c]
      o == call.operation
  IN
  /\ call.pc = "next"
  /\ \E m \in call.todo :
       IF item[o][m].status = "PENDING"
       THEN /\ item' = [item EXCEPT ![o][m].status = "RUNNING", ![o][m].claimed = syncClock]
            /\ BecomeSync(c, [Between(o, call.todo \ {m}) EXCEPT !.pc = "check", !.member = m])
       ELSE BecomeSync(c, [call EXCEPT !.todo = @ \ {m}]) /\ UNCHANGED item
  /\ UNCHANGED <<syncClock, staffVars, listed, member, operation, clerk>>

\* Nothing is left, or the twenty seconds are over.
LeaveItems(c) ==
  /\ syncCall[c].pc = "next"
  /\ BecomeSync(c, [syncCall[c] EXCEPT !.pc = "count", !.todo = {}])
  /\ UNCHANGED <<syncClock, staffVars, listed, member, operation, item, clerk>>

-----------------------------------------------------------------------------
(* One item.  What is thrown goes to the row, if this call has locked it, and to the item. *)
Conclude(c, result, limited) ==
  LET call == syncCall[c] IN
  BecomeSync(c, [Between(call.operation, call.todo) EXCEPT !.member = call.member,
    !.result = result, !.limited = limited, !.pc = IF call.claimed THEN "settle" ELSE "record"])
Doubt(c) == IF syncCall[c].attempted THEN "UNKNOWN" ELSE "FAILED"

\* The checks up to the lock; a row at the item's version stands as it was read.
CheckItem(c) ==
  LET call == syncCall[c]
      m == call.member
      i == item[call.operation][m]
      limited == \E o \in Having(m) :
                   item[o][m].limited /\ item[o][m].claimed + RateWait > syncClock
  IN
  /\ call.pc = "check"
  /\ IF \/ ~Bound(call.operation)
        \/ member[m].version # i.version \/ ~member[m].linked
        \/ person[m].status # "ACTIVE"
     THEN Conclude(c, "FAILED", FALSE)
     ELSE IF member[m].state = "SYNCING" THEN Conclude(c, "UNKNOWN", FALSE)
     ELSE IF limited THEN Conclude(c, "FAILED", FALSE)
     ELSE BecomeSync(c, [call EXCEPT !.pc = "lock", !.source = person[m].version,
            !.seen = member[m].observed])
  /\ UNCHANGED <<syncClock, staffVars, listed, member, operation, item, clerk>>

\* Mutant of AtVersion: the version of the row is not compared.
AnyVersion(m, version) == TRUE
AtVersion(m, version) == member[m].version = version

LockRow(c) ==
  LET call == syncCall[c]
      m == call.member
  IN
  /\ call.pc = "lock"
  /\ IF AtVersion(m, item[call.operation][m].version)
     THEN /\ PutMember(m, Stored(member[m], "SYNCING"))
          /\ BecomeSync(c, [call EXCEPT !.pc = "observe", !.claimed = TRUE])
     ELSE Conclude(c, "FAILED", FALSE) /\ UNCHANGED member
  /\ UNCHANGED <<syncClock, staffVars, listed, operation, item, clerk>>

\* The campaigns that use the list, then the contact.
Observe(c) ==
  LET call == syncCall[c]
      now == listed[call.member]
  IN
  /\ call.pc = "observe"
  /\ \/ Conclude(c, "FAILED", FALSE)
     \/ now = Gone /\ Conclude(c, "UNKNOWN", FALSE)
     \/ now \notin {Gone, call.seen, call.source} /\ Conclude(c, "DIFFERENCE", FALSE)
     \/ /\ now # Gone /\ now \in {call.seen, call.source}
        /\ BecomeSync(c, [call EXCEPT !.pc = "recheck", !.seen = Gone, !.matches = (now = call.source)])
  /\ UNCHANGED <<syncClock, staffVars, listed, member, operation, item, clerk>>

\* The person and the binding once more, before the contact is changed and after.
StillTheSame(c) ==
  /\ person[syncCall[c].member].version = syncCall[c].source
  /\ Bound(syncCall[c].operation)
LookAgain(c) ==
  LET call == syncCall[c] IN
  /\ call.pc \in {"recheck", "confirm"}
  /\ IF ~StillTheSame(c) THEN Conclude(c, Doubt(c), FALSE)
     ELSE BecomeSync(c, [call EXCEPT !.pc =
            IF call.pc = "confirm" THEN "save" ELSE IF call.matches THEN "read" ELSE "write",
            !.matches = FALSE])
  /\ UNCHANGED <<syncClock, staffVars, listed, member, operation, item, clerk>>

\* The call may be carried out and its answer lost, or neither.  Only a 404 is definite: the
\* client reports a refusal for the rate, or of the credentials, as a 503.
WriteContact(c) ==
  LET call == syncCall[c]
      m == call.member
  IN
  /\ call.pc = "write"
  /\ IF listed[m] = Gone THEN UNCHANGED listed /\ Conclude(c, "FAILED", FALSE)
     ELSE /\ listed' = [listed EXCEPT ![m] = call.source]
          /\ \/ BecomeSync(c, [call EXCEPT !.pc = "read", !.attempted = TRUE])
             \/ Conclude(c, "UNKNOWN", FALSE)
  /\ UNCHANGED <<syncClock, staffVars, member, operation, item, clerk>>

WriteRefused(c) ==
  /\ syncCall[c].pc = "write"
  /\ \E limited \in BOOLEAN : Conclude(c, "UNKNOWN", limited)
  /\ UNCHANGED <<syncClock, staffVars, listed, member, operation, item, clerk>>

ReadContact(c) ==
  LET call == syncCall[c] IN
  /\ call.pc = "read"
  /\ IF listed[call.member] = call.source THEN BecomeSync(c, [call EXCEPT !.pc = "confirm"])
     ELSE Conclude(c, Doubt(c), FALSE)
  /\ UNCHANGED <<syncClock, staffVars, listed, member, operation, item, clerk>>

SaveRow(c) ==
  LET call == syncCall[c]
      m == call.member
  IN
  /\ call.pc = "save"
  /\ IF AtVersion(m, item[call.operation][m].version + 1) /\ member[m].state = "SYNCING"
     THEN /\ PutMember(m, [Stored(member[m], "LINKED") EXCEPT !.observed = call.source])
          /\ BecomeSync(c, [Between(call.operation, call.todo) EXCEPT !.member = m,
               !.pc = "record", !.result = "SYNCED"])
     ELSE Conclude(c, Doubt(c), FALSE) /\ UNCHANGED member
  /\ UNCHANGED <<syncClock, staffVars, listed, operation, item, clerk>>

\* A query fails, or the contact centre does not answer, refuses for its rate, or has no list.
ItemFails(c) ==
  /\ syncCall[c].pc \in {"check", "lock", "observe", "recheck", "read", "confirm", "save"}
  /\ \/ Conclude(c, Doubt(c), FALSE)
     \/ syncCall[c].pc \in {"observe", "read"} /\ Conclude(c, Doubt(c), TRUE)
     \/ syncCall[c].pc = "read" /\ Conclude(c, "FAILED", FALSE)
  /\ UNCHANGED <<syncClock, staffVars, listed, member, operation, item, clerk>>

SettleRow(c) ==
  LET call == syncCall[c]
      m == call.member
  IN
  /\ call.pc = "settle"
  /\ IF AtVersion(m, item[call.operation][m].version + 1) /\ member[m].state = "SYNCING"
     THEN PutMember(m, Stored(member[m], call.result))
     ELSE UNCHANGED member
  /\ BecomeSync(c, [call EXCEPT !.pc = "record"])
  /\ UNCHANGED <<syncClock, staffVars, listed, operation, item, clerk>>

RecordItem(c) ==
  LET call == syncCall[c]
      i == item[call.operation][call.member]
  IN
  /\ call.pc = "record"
  /\ item' = IF i.status = "RUNNING"
             THEN [item EXCEPT ![call.operation][call.member] =
                    [i EXCEPT !.status = call.result, !.limited = call.limited]]
             ELSE item
  /\ BecomeSync(c, Between(call.operation, call.todo))
  /\ UNCHANGED <<syncClock, staffVars, listed, member, operation, clerk>>

-----------------------------------------------------------------------------
StatusesOf(o) == {item[o][m].status : m \in DOMAIN item[o]}
\* The counts, then what they say.
CountItems(c) ==
  LET call == syncCall[c]
      found == StatusesOf(call.operation)
  IN
  /\ call.pc = "count"
  /\ BecomeSync(c,
       IF found \cap {"PENDING", "RUNNING"} # {} THEN NotCalled
       ELSE [call EXCEPT !.pc = "finish",
              !.result = IF found \subseteq {"SYNCED"} THEN "COMPLETED" ELSE "PARTIAL"])
  /\ UNCHANGED <<syncClock, staffVars, listed, member, operation, item, clerk>>

FinishOperation(c) ==
  /\ syncCall[c].pc = "finish"
  /\ operation' = [operation EXCEPT ![syncCall[c].operation].status = syncCall[c].result]
  /\ BecomeSync(c, NotCalled)
  /\ UNCHANGED <<syncClock, staffVars, listed, member, item, clerk>>

\* The host stops, or a query outside the try block fails.
StopAdvance(c) ==
  /\ syncCall[c].pc # "idle"
  /\ BecomeSync(c, NotCalled)
  /\ UNCHANGED <<syncClock, staffVars, listed, member, operation, item, clerk>>

-----------------------------------------------------------------------------
(* The staff. *)
Deed == deeds < MaxDeeds /\ deeds' = deeds + 1

\* A person that was deleted may still be changed, and with that be no longer deleted here.
ChangePerson(m, status) ==
  /\ Deed
  /\ person' = [person EXCEPT ![m] = [version |-> @.version + 1, status |-> status]]
  /\ UNCHANGED <<syncClock, list, listed, member, operation, item, syncCall, clerk>>

DeletePerson(m) ==
  /\ Deed
  /\ person' = [person EXCEPT ![m] = [version |-> @.version + 1, status |-> "DELETED"]]
  /\ IF member[m].linked THEN PutMember(m, Stored(member[m], "CRM_WITHDRAWN")) ELSE UNCHANGED member
  /\ UNCHANGED <<syncClock, list, listed, operation, item, syncCall, clerk>>

\* deleteZoomGroup, and syncContactLists, which restores the same binding.
SwitchList ==
  /\ Deed
  /\ list' = [attached |-> ~list.attached, version |-> list.version + 1]
  /\ UNCHANGED <<syncClock, person, listed, member, operation, item, syncCall, clerk>>

EditContact(m) ==
  /\ Deed /\ listed[m] # Gone
  /\ \E shown \in {Gone, Typed} : listed' = [listed EXCEPT ![m] = shown]
  /\ UNCHANGED <<syncClock, list, person, member, operation, item, syncCall, clerk>>

\* The checks of linkZoomMember, saveZoomMember and deleteZoomMember up to their first change.
BeginClerk(k, kind, m) ==
  /\ clerk[k].pc = "idle" /\ Deed /\ list.attached
  /\ listed[m] = Gone <=> kind = "create"
  /\ kind = "create" => member[m] = NoRow
  /\ kind = "update" => member[m].state # "SYNCING"
  /\ BecomeClerk(k, [pc |-> IF kind = "link" THEN "link" ELSE "send", kind |-> kind, member |-> m,
       version |-> member[m].version,
       shown |-> CASE kind = "link" -> listed[m] [] kind = "create" -> person[m].version
                   [] kind = "update" -> Typed [] kind = "delete" -> Gone])
  /\ UNCHANGED <<syncClock, list, person, listed, member, operation, item, syncCall>>

BeingSynced(m) ==
  /\ member[m].state = "SYNCING"
  /\ \E o \in Having(m) :
       item[o][m].status = "RUNNING" /\ item[o][m].claimed + ItemLife > syncClock

LinkMember(k) ==
  LET call == clerk[k] IN
  /\ call.pc = "link"
  /\ IF BeingSynced(call.member) \/ member[call.member].version # call.version
     THEN UNCHANGED member
     ELSE PutMember(call.member, [state |-> "LINKED", version |-> call.version + 1,
                                  observed |-> call.shown, linked |-> TRUE])
  /\ BecomeClerk(k, NotCalled)
  /\ UNCHANGED <<syncClock, staffVars, listed, operation, item, syncCall>>

\* The contact centre is changed, and read back.
SendByClerk(k) ==
  LET call == clerk[k] IN
  /\ call.pc = "send"
  /\ \/ /\ listed[call.member] # Gone \/ call.kind = "create"
        /\ listed' = [listed EXCEPT ![call.member] = call.shown]
        /\ BecomeClerk(k, [call EXCEPT !.pc = "read"])
     \/ UNCHANGED listed /\ BecomeClerk(k, NotCalled)
  /\ UNCHANGED <<syncClock, staffVars, member, operation, item, syncCall>>

ReadByClerk(k) ==
  /\ clerk[k].pc = "read"
  /\ BecomeClerk(k, IF listed[clerk[k].member] = clerk[k].shown THEN [clerk[k] EXCEPT !.pc = "keep"]
                    ELSE NotCalled)
  /\ UNCHANGED <<syncClock, staffVars, listed, member, operation, item, syncCall>>

KeepByClerk(k) ==
  LET call == clerk[k]
      row == member[call.member]
  IN
  /\ call.pc = "keep"
  /\ CASE call.kind = "delete" /\ row = NoRow -> UNCHANGED member
       [] call.kind = "delete" /\ row # NoRow -> PutMember(call.member, Stored(row, "REMOVED"))
       [] call.kind = "update" -> PutMember(call.member,
            [Stored(row, IF row = NoRow THEN "UNLINKED" ELSE "DIFFERENCE") EXCEPT !.observed = call.shown])
       [] call.kind = "create" -> PutMember(call.member,
            [Stored(row, "LINKED") EXCEPT !.observed = call.shown, !.linked = @ \/ row = NoRow])
  /\ BecomeClerk(k, NotCalled)
  /\ UNCHANGED <<syncClock, staffVars, listed, operation, item, syncCall>>

ClerkStops(k) ==
  /\ clerk[k].pc # "idle" /\ BecomeClerk(k, NotCalled)
  /\ UNCHANGED <<syncClock, staffVars, listed, member, operation, item, syncCall>>

SyncTick ==
  /\ syncClock < MaxSyncTime /\ syncClock' = syncClock + 1
  /\ UNCHANGED <<staffVars, listed, member, operation, item, syncCall, clerk>>

-----------------------------------------------------------------------------
AdvanceStep ==
  \E c \in SyncCall :
    \/ \E o \in DOMAIN operation : BeginAdvance(c, o)
    \/ ClaimItem(c) \/ LeaveItems(c) \/ CheckItem(c) \/ LockRow(c) \/ Observe(c) \/ LookAgain(c)
    \/ WriteContact(c) \/ WriteRefused(c) \/ ReadContact(c) \/ SaveRow(c) \/ ItemFails(c) \/ SettleRow(c)
    \/ RecordItem(c) \/ CountItems(c) \/ FinishOperation(c) \/ StopAdvance(c)

StaffStep ==
  \/ \E m \in Here :
       \/ \E status \in {"ACTIVE", "WITHDRAWN"} : ChangePerson(m, status)
       \/ DeletePerson(m) \/ EditContact(m)
       \/ \E k \in Clerk, kind \in {"link", "create", "update", "delete"} : BeginClerk(k, kind, m)
  \/ SwitchList
  \/ \E k \in Clerk :
       LinkMember(k) \/ SendByClerk(k) \/ ReadByClerk(k) \/ KeepByClerk(k) \/ ClerkStops(k)

SyncNext ==
  \/ \E o \in SyncOperation, chosen \in SUBSET Here : StartSync(o, chosen)
  \/ AdvanceStep \/ StaffStep \/ SyncTick \/ Unbound

SyncSpec == SyncInit /\ [][SyncNext]_syncVars

-----------------------------------------------------------------------------
\* An operation that is reported as finished has no item left, and COMPLETED is said of no
\* item that failed: whatever calls outlived their items' claims.
FinishedTellsItems ==
  \A o \in DOMAIN operation :
    /\ operation[o].status = "COMPLETED" => StatusesOf(o) \subseteq {"SYNCED"}
    /\ operation[o].status = "PARTIAL" =>
         StatusesOf(o) \cap {"PENDING", "RUNNING"} = {} /\ ~(StatusesOf(o) \subseteq {"SYNCED"})

\* Two operations that both synchronised a member did so one after the other, each with the
\* row for itself.
SyncedUnderOneLock ==
  \A m \in Here : \A o \in Having(m) : item[o][m].status = "SYNCED" =>
    /\ item[o][m].version + 2 <= member[m].version
    /\ \A p \in Having(m) \ {o} : item[p][m].status = "SYNCED" =>
         item[o][m].version + 2 <= item[p][m].version \/ item[p][m].version + 2 <= item[o][m].version

\* While a person is deleted, no step of an operation takes its row, nor settles it as linked.
DeletedAreLeftAlone ==
  \A m \in Here : person[m].status = "DELETED" /\ clerk' = clerk =>
    member'[m].state \notin {"SYNCING", "LINKED"} \/ member'[m] = member[m]

\* Rows and calls have their types, and what the synchronisation reports is true.
SyncReportsHold ==
  /\ []SyncTypeOK /\ []FinishedTellsItems /\ []SyncedUnderOneLock
  /\ [][DeletedAreLeftAlone]_syncVars
=============================================================================
