------------------------- MODULE RegistrationGroupSync -------------------------
(***************************************************************************)
(* One default group of a site and the contact list of the outside contact *)
(* centre it is bound to (lib/server/zaad/registration-group-sync.ts and   *)
(* default-groups.ts).  A call of syncMembership claims the row of one     *)
(* registration for the time of a lease and then talks to the contact      *)
(* centre outside any transaction: it may outlive its lease, stop at any   *)
(* point, or never learn what became of its write.  Meanwhile the staff    *)
(* reviews the registration, changes the account, binds the group to       *)
(* another list, edits the list itself, or links a row to a contact by     *)
(* hand.  A killed call is one that takes no further step.                 *)
(***************************************************************************)
EXTENDS Naturals, FiniteSets

CONSTANTS
  Member,     \* registrations that belong to the group
  Call,       \* calls of syncMembership; each stands for its claim token as well
  Operator,   \* requests of linkRegistrationMember
  List,       \* contact lists the group may be bound to
  Account, AccountOf, FirstAccount, \* accounts, the account of a list, the one set first
  Contact,    \* identifiers the contact centre gives out
  Data,       \* names and telephone numbers
  Lease,      \* length of a claim
  MaxTime, MaxChanges, \* bounds on the clock and on what people do
  None

ASSUME BoundsAssumption == Lease \in Nat /\ MaxTime \in Nat /\ MaxChanges \in Nat
ASSUME AccountAssumption == AccountOf \in [List -> Account] /\ FirstAccount \in Account
ASSUME NoneAssumption == None \notin Member \cup Call \cup List \cup Account \cup Contact \cup Data

VARIABLES
  clock,
  changes,  \* acts of people so far
  account,  \* the account in the global settings
  group,    \* the default group: its revision and the list of its binding
  source,   \* registrations: consented data, or none, and their version
  row,      \* memberships
  contact,  \* the contact centre: which list a contact is in, whether still, and its data
  created,  \* contacts the calls made, for each registration and revision of the group
  call,     \* what each call holds
  link      \* what each operator's request holds

people == <<account, source>>
vars == <<clock, changes, people, group, row, contact, created, call, link>>

Revision == 0..MaxChanges
Version == Nat
Status == {"PENDING", "SYNCING", "SYNCED", "DIFFERENCE", "UNKNOWN", "FAILED", "WITHDRAWN"}
Source == [data : Data \cup {None}, version : Revision]
Error == {"CONSENT_WITHDRAWN", "PROVIDER_RESOURCE_CHANGED", "RECONCILIATION", "REFUSED",
          "NOT_FOUND", "RATE_LIMITED", "RESULT_UNKNOWN"}
Pc == {"idle", "claim", "check", "list", "recheck", "create", "update", "store",
       "readBack", "confirm", "commit", "catch", "done"}

Row == [status : Status, contact : Contact \cup {None}, bound : Revision,
        observed : Data \cup {None}, version : Version, retryAfter : Nat,
        token : Call \cup {None}, until : Nat, attested : BOOLEAN]
ContactRow == [list : List, data : Data, there : BOOLEAN]
ASSUME ContactRowAssumption == None \notin ContactRow
CallState == [pc : Pc, member : Member \cup {None}, rev : Revision, version : Version,
              contact : Contact \cup {None}, observed : Data \cup {None},
              source : Source, list : List \cup {None}, account : Account \cup {None},
              seen : Data \cup {None}, wrote : BOOLEAN, code : Error \cup {None}]
LinkState == [pc : {"idle", "store"}, member : Member \cup {None}, version : Version,
              rev : Revision, contact : Contact \cup {None}, data : Data \cup {None},
              source : Source, account : Account \cup {None}]

NoSource == [data |-> None, version |-> 0]
Idle == [pc |-> "idle", member |-> None, rev |-> 0, version |-> 0, contact |-> None,
         observed |-> None, source |-> NoSource, list |-> None, account |-> None,
         seen |-> None, wrote |-> FALSE, code |-> None]
NoLink == [pc |-> "idle", member |-> None, version |-> 0, rev |-> 0, contact |-> None,
           data |-> None, source |-> NoSource, account |-> None]

\* A row and the claim on it go together: a row is being synchronised exactly as long as
\* some call's token is in it.
TypeOK ==
  /\ clock \in 0..MaxTime /\ changes \in 0..MaxChanges
  /\ account \in Account
  /\ group \in [rev : Revision, list : List \cup {None}]
  /\ source \in [Member -> Source]
  /\ row \in [Member -> Row]
  /\ contact \in [Contact -> ContactRow \cup {None}]
  /\ created \in [Member \X Revision -> Nat]
  /\ call \in [Call -> CallState]
  /\ link \in [Operator -> LinkState]
  /\ \A m \in Member : row[m].status = "SYNCING" <=> row[m].token # None

-----------------------------------------------------------------------------
\* addRegistrationMemberships gives every accepted registration a row; the group is
\* not bound yet.
Init ==
  /\ clock = 0 /\ changes = 0
  /\ account = FirstAccount
  /\ group = [rev |-> 0, list |-> None]
  /\ source \in [Member -> [data : Data, version : {0}]]
  /\ row = [m \in Member |->
              [status |-> "PENDING", contact |-> None, bound |-> 0, observed |-> None,
               version |-> 0, retryAfter |-> 0, token |-> None, until |-> 0,
               attested |-> FALSE]]
  /\ contact = [c \in Contact |-> None]
  /\ created = [p \in Member \X Revision |-> 0]
  /\ call = [w \in Call |-> Idle]
  /\ link = [o \in Operator |-> NoLink]

Become(w, state) == call' = [call EXCEPT ![w] = state]
Go(w, pc) == Become(w, [call[w] EXCEPT !.pc = pc])
Throw(w, code) == Become(w, [call[w] EXCEPT !.pc = "catch", !.code = code])
End(w) == Become(w, [Idle EXCEPT !.pc = "done"])
Put(m, r) == row' = [row EXCEPT ![m] = r]

Configured == group.list # None /\ AccountOf[group.list] = account
InList(c, l) == contact[c] # None /\ contact[c].there /\ contact[c].list = l

\* How the client reports an answer of the contact centre: the status of its error,
\* 0 for an error that is not the client's.  400, 401, 403 and 409 fare as 429 does.
HttpStatus(code) ==
  CASE code = "NOT_FOUND" -> 404
    [] code = "RATE_LIMITED" -> 503
    [] code = "RESULT_UNKNOWN" -> 502
    [] OTHER -> 0

-----------------------------------------------------------------------------
(* One call of syncMembership.                                             *)

\* An operation's item, or the receipt of a registration, names a row, its version and
\* the group's revision, all read before the call.
Start(w, m) ==
  /\ call[w].pc = "idle"
  /\ Become(w, [call[w] EXCEPT !.pc = "claim", !.member = m, !.rev = group.rev,
                               !.version = row[m].version])
  /\ UNCHANGED <<clock, changes, people, group, row, contact, created, link>>

\* Mutant of Claimable: what an earlier write did is not asked for.
RetriedBlindly(r) == r.status # "SYNCING" /\ r.retryAfter <= clock

Claimable(r) ==
  /\ r.status # "SYNCING"
  /\ r.retryAfter <= clock
  /\ ~(r.status = "UNKNOWN" /\ r.contact = None)

Expired(r) == r.status = "SYNCING" /\ r.until <= clock
Current(w) == group.rev = call[w].rev /\ row[call[w].member].version = call[w].version

Skip(w) ==
  LET r == row[call[w].member]
  IN  /\ call[w].pc = "claim"
      /\ ~(Current(w) /\ (Claimable(r) \/ Expired(r)))
      /\ End(w)
      /\ UNCHANGED <<clock, changes, people, group, row, contact, created, link>>

\* The claim of a call that is late, or dead: what it wrote is not known.
ReleaseClaim(w) ==
  LET m == call[w].member
      r == row[m]
  IN  /\ call[w].pc = "claim" /\ Current(w) /\ Expired(r)
      /\ Put(m, [r EXCEPT !.status = "UNKNOWN", !.token = None, !.until = 0,
                          !.version = @ + 1])
      /\ End(w)
      /\ UNCHANGED <<clock, changes, people, group, contact, created, link>>

Claim(w) ==
  LET m == call[w].member
      r == row[m]
  IN  /\ call[w].pc = "claim" /\ Current(w) /\ Claimable(r)
      /\ Put(m, [r EXCEPT !.status = "SYNCING", !.token = w, !.until = clock + Lease])
      /\ Become(w, [call[w] EXCEPT !.pc = "check", !.contact = r.contact,
                                   !.observed = r.observed])
      /\ UNCHANGED <<clock, changes, people, group, contact, created, link>>

\* Consent, binding and account; a campaign that uses the list is one more refusal (Break).
Check(w) ==
  LET m == call[w].member
  IN  /\ call[w].pc = "check"
      /\ \/ source[m].data = None /\ Throw(w, "CONSENT_WITHDRAWN")
         \/ /\ source[m].data # None /\ ~(Configured /\ group.rev = call[w].rev)
            /\ Throw(w, "REFUSED")
         \/ /\ source[m].data # None /\ Configured /\ group.rev = call[w].rev
            /\ Become(w, [call[w] EXCEPT !.pc = "list", !.source = source[m],
                                         !.list = group.list, !.account = account])
      /\ UNCHANGED <<clock, changes, people, group, row, contact, created, link>>

\* The contact on record must be in the list, and as the last call left it.
ReadList(w) ==
  LET st == call[w]
      c == st.contact
      expected == IF st.observed = None THEN st.source.data ELSE st.observed
  IN  /\ st.pc = "list"
      /\ \/ c = None /\ Go(w, "recheck")
         \/ c # None /\ ~InList(c, st.list) /\ Throw(w, "RECONCILIATION")
         \/ /\ c # None /\ InList(c, st.list)
            /\ IF contact[c].data = expected
                 THEN Become(w, [st EXCEPT !.pc = "recheck", !.seen = contact[c].data])
                 ELSE Throw(w, "PROVIDER_RESOURCE_CHANGED")
      /\ UNCHANGED <<clock, changes, people, group, row, contact, created, link>>

\* "Revalidate the consent, binding and global account immediately before the write."
Recheck(w) ==
  LET st == call[w]
  IN  /\ st.pc = "recheck"
      /\ IF source[st.member] = st.source /\ group.rev = st.rev /\ account = st.account
           THEN IF st.contact = None
                  THEN Become(w, [st EXCEPT !.pc = "create", !.wrote = TRUE])
                  ELSE IF st.seen # st.source.data
                         THEN Become(w, [st EXCEPT !.pc = "update", !.wrote = TRUE])
                         ELSE Go(w, "readBack")
           ELSE Throw(w, "REFUSED")
      /\ UNCHANGED <<clock, changes, people, group, row, contact, created, link>>

\* The contact centre makes the contact, and the answer may be lost.
Make(w) ==
  LET st == call[w]
  IN  /\ st.pc = "create"
      /\ \E c \in Contact :
           /\ contact[c] = None
           /\ contact' = [contact EXCEPT ![c] = [list |-> st.list, data |-> st.source.data,
                                                 there |-> TRUE]]
           /\ \/ Become(w, [st EXCEPT !.pc = "store", !.contact = c])
              \/ Throw(w, "RESULT_UNKNOWN")
      /\ created' = [created EXCEPT ![<<st.member, st.rev>>] = @ + 1]
      /\ UNCHANGED <<clock, changes, people, group, row, link>>

Change(w) ==
  LET st == call[w]
  IN  /\ st.pc = "update" /\ InList(st.contact, st.list)
      /\ contact' = [contact EXCEPT ![st.contact].data = st.source.data]
      /\ Go(w, "readBack") \/ Throw(w, "RESULT_UNKNOWN")
      /\ UNCHANGED <<clock, changes, people, group, row, created, link>>

\* A read fails, of the database or before any write of the contact centre.
Break(w) ==
  /\ call[w].pc \in {"check", "list", "recheck", "store", "readBack", "confirm", "commit"}
  /\ Throw(w, "REFUSED")
  /\ UNCHANGED <<clock, changes, people, group, row, contact, created, link>>

\* The write is refused or never arrives, or the list cannot be read back.
Refuse(w) ==
  /\ call[w].pc \in {"create", "update", "readBack"}
  /\ \E code \in {"NOT_FOUND", "RATE_LIMITED", "RESULT_UNKNOWN"} : Throw(w, code)
  /\ UNCHANGED <<clock, changes, people, group, row, contact, created, link>>

\* Mutant of Holds: rows are written by their identifier alone.
Knows(w) == call[w].member \in Member

\* The condition of every write of a claimed row.
Holds(w) == row[call[w].member].token = w

\* The new identifier is kept if the claim still is this call's; the unique index of
\* the table refuses one that an operator has given to another row.
Store(w) ==
  LET st == call[w]
      m == st.member
  IN  /\ st.pc = "store"
      /\ IF ~Holds(w)
           THEN Go(w, "readBack") /\ UNCHANGED row
           ELSE IF \E n \in Member \ {m} : row[n].contact = st.contact
                  THEN Throw(w, "REFUSED") /\ UNCHANGED row
                  ELSE /\ Put(m, [row[m] EXCEPT !.contact = st.contact, !.bound = st.rev])
                       /\ Go(w, "readBack")
      /\ UNCHANGED <<clock, changes, people, group, contact, created, link>>

ReadBack(w) ==
  LET st == call[w]
  IN  /\ st.pc = "readBack"
      /\ IF InList(st.contact, st.list) /\ contact[st.contact].data = st.source.data
           THEN Go(w, "confirm")
           ELSE Throw(w, "REFUSED")
      /\ UNCHANGED <<clock, changes, people, group, row, contact, created, link>>

Confirm(w) ==
  /\ call[w].pc = "confirm"
  /\ IF source[call[w].member] = call[w].source THEN Go(w, "commit") ELSE Throw(w, "REFUSED")
  /\ UNCHANGED <<clock, changes, people, group, row, contact, created, link>>

Commit(w) ==
  LET st == call[w]
      m == st.member
  IN  /\ st.pc = "commit"
      /\ IF /\ group.rev = st.rev /\ account = st.account
            /\ Holds(w) /\ row[m].version = st.version
           THEN /\ Put(m, [row[m] EXCEPT !.status = "SYNCED", !.contact = st.contact,
                             !.bound = st.rev, !.observed = st.source.data,
                             !.retryAfter = 0, !.token = None, !.until = 0,
                             !.version = @ + 1])
                /\ End(w)
           ELSE Throw(w, "REFUSED") /\ UNCHANGED row
      /\ UNCHANGED <<clock, changes, people, group, contact, created, link>>

Definite(code) == HttpStatus(code) \in {400, 401, 403, 404, 429}
StatusAfter(code, wrote) ==
  CASE code = "CONSENT_WITHDRAWN" -> "WITHDRAWN"
    [] code = "PROVIDER_RESOURCE_CHANGED" -> "DIFFERENCE"
    [] (wrote /\ ~Definite(code)) \/ code = "RECONCILIATION" -> "UNKNOWN"
    [] OTHER -> "FAILED"

\* Mutant of Catch: the claim stays in the row.
CatchAndKeep(w) ==
  LET st == call[w]
      m == st.member
  IN  /\ st.pc = "catch"
      /\ IF Holds(w)
           THEN Put(m, [row[m] EXCEPT !.status = StatusAfter(st.code, st.wrote),
                                      !.version = @ + 1])
           ELSE UNCHANGED row
      /\ End(w)
      /\ UNCHANGED <<clock, changes, people, group, contact, created, link>>

Catch(w) ==
  LET st == call[w]
      m == st.member
  IN  /\ st.pc = "catch"
      /\ IF Holds(w)
           THEN Put(m, [row[m] EXCEPT !.status = StatusAfter(st.code, st.wrote),
                          !.retryAfter = IF HttpStatus(st.code) = 429 THEN clock + 1 ELSE 0,
                          !.token = None, !.until = 0, !.version = @ + 1])
           ELSE UNCHANGED row
      /\ End(w)
      /\ UNCHANGED <<clock, changes, people, group, contact, created, link>>

CallStep(w) ==
  \/ \E m \in Member : Start(w, m)
  \/ Skip(w) \/ ReleaseClaim(w) \/ Claim(w)
  \/ Check(w) \/ ReadList(w) \/ Recheck(w)
  \/ Make(w) \/ Change(w) \/ Break(w) \/ Refuse(w) \/ Store(w)
  \/ ReadBack(w) \/ Confirm(w) \/ Commit(w) \/ Catch(w)

-----------------------------------------------------------------------------
(* What people do.                                                         *)

Act == changes < MaxChanges /\ changes' = changes + 1

\* linkRegistrationMember: the operator attests that a contact of the list is this
\* registration, of the version his screen shows.
ReadLink(o, m, c) ==
  /\ link[o].pc = "idle" /\ Act
  /\ Configured /\ InList(c, group.list)
  /\ row[m].status # "SYNCING" /\ source[m].data # None
  /\ link' = [link EXCEPT ![o] = [pc |-> "store", member |-> m, version |-> row[m].version,
                                  rev |-> group.rev, contact |-> c, data |-> contact[c].data,
                                  source |-> source[m], account |-> account]]
  /\ UNCHANGED <<clock, people, group, row, contact, created, call>>

\* Everything read before is read again, in the transaction that writes.
Linkable(o) ==
  LET k == link[o]
      m == k.member
  IN  /\ \A n \in Member \ {m} : row[n].contact # k.contact
      /\ group.rev = k.rev /\ account = k.account
      /\ source[m] = k.source
      /\ row[m].version = k.version /\ row[m].status # "SYNCING"

StoreLink(o) ==
  LET k == link[o]
      m == k.member
  IN  /\ k.pc = "store"
      /\ IF Linkable(o)
           THEN Put(m, [row[m] EXCEPT
                          !.status = IF k.data = k.source.data THEN "SYNCED" ELSE "DIFFERENCE",
                          !.contact = k.contact, !.bound = k.rev, !.observed = k.data,
                          !.attested = TRUE, !.version = @ + 1])
           ELSE UNCHANGED row
      /\ link' = [link EXCEPT ![o] = NoLink]
      /\ UNCHANGED <<clock, changes, people, group, contact, created, call>>

\* Mutant of Unsettled: a claim is taken for dead when its lease has ended.
LiveOrUnknown ==
  {m \in Member : \/ row[m].status = "SYNCING" /\ row[m].until > clock
                  \/ group.list # None /\ row[m].status = "UNKNOWN"}

\* Rows that forbid another binding: those with a claim, ended or not, and, once there is
\* a binding, those whose last write is unknown.
Unsettled ==
  {m \in Member : \/ row[m].status = "SYNCING"
                  \/ group.list # None /\ row[m].status = "UNKNOWN"}

\* bindDefaultGroup to another list than before: all rows but the unknown ones begin anew.
Bind(l) ==
  /\ Act /\ l # group.list /\ AccountOf[l] = account /\ Unsettled = {}
  /\ group' = [rev |-> group.rev + 1, list |-> l]
  /\ row' = [m \in Member |->
               IF row[m].status = "UNKNOWN" THEN row[m]
               ELSE [row[m] EXCEPT !.status = "PENDING", !.contact = None, !.observed = None,
                                   !.bound = group.rev + 1, !.retryAfter = 0,
                                   !.version = @ + 1]]
  /\ UNCHANGED <<clock, people, contact, created, call, link>>

SaveDeveloperApiSettings(a) ==
  /\ Act /\ account' = a
  /\ UNCHANGED <<clock, source, group, row, contact, created, call, link>>

\* The registration is corrected, withdrawn, or consented to again.
Review(m, d) ==
  /\ Act
  /\ source' = [source EXCEPT ![m] = [data |-> d, version |-> @.version + 1]]
  /\ UNCHANGED <<clock, account, group, row, contact, created, call, link>>

\* Somebody adds, edits or removes a contact in the contact centre itself.
EditOutside(c, l, d, there) ==
  /\ Act
  /\ contact' = [contact EXCEPT ![c] = [list |-> IF @ = None THEN l ELSE @.list,
                                        data |-> d, there |-> there]]
  /\ UNCHANGED <<clock, people, group, row, created, call, link>>

Tick ==
  /\ clock < MaxTime /\ clock' = clock + 1
  /\ UNCHANGED <<changes, people, group, row, contact, created, call, link>>

AllDone ==
  /\ \A w \in Call : call[w].pc = "done"
  /\ UNCHANGED vars

Next ==
  \/ \E w \in Call : CallStep(w)
  \/ \E o \in Operator, m \in Member, c \in Contact : ReadLink(o, m, c)
  \/ \E o \in Operator : StoreLink(o)
  \/ \E l \in List : Bind(l)
  \/ \E a \in Account : SaveDeveloperApiSettings(a)
  \/ \E m \in Member, d \in Data \cup {None} : Review(m, d)
  \/ \E c \in Contact, l \in List, d \in Data, there \in BOOLEAN : EditOutside(c, l, d, there)
  \/ Tick
  \/ AllDone

Spec == Init /\ [][Next]_vars

-----------------------------------------------------------------------------
\* However often a registration is synchronised, whoever dies, is late or loses an
\* answer, the calls of one binding make one contact for it: a write whose result is
\* unknown is never sent a second time (registration-group-sync.ts:143).
CreatedOnce == \A m \in Member, r \in Revision : created[<<m, r>>] <= 1

\* The contact on record is one of the list the group is bound to now: a late call or an
\* operator whose screen is old never stores a contact of a former list.
ContactOfBoundList ==
  \A m \in Member :
    row[m].contact # None =>
      /\ row[m].bound = group.rev
      /\ contact[row[m].contact] # None
      /\ contact[row[m].contact].list = group.list

\* "A live claim excludes re-binding while a write could be in flight.  Expired claims
\* also require reconciliation: a time limit is not proof of no write."
\* (default-groups.ts:120): a call about to create a contact in a former list has lost its
\* claim, and an operator has decided about the row since.
RebindingWaitsForWrites ==
  \A w \in Call :
    call[w].pc \in {"create", "update"} /\ call[w].rev # group.rev =>
      /\ row[call[w].member].token # w
      /\ call[w].pc = "create" => row[call[w].member].attested

\* A call refused for its rate leaves a row that a later call tries again, after a
\* while: it does not end as one whose result is unknown.
RateLimitIsRetried ==
  [][\A w \in Call :
       /\ call[w].pc = "catch" /\ call[w].code = "RATE_LIMITED"
       /\ Holds(w) /\ Catch(w)
       => row'[call[w].member].status # "UNKNOWN"]_vars
=============================================================================
