--------------------------- MODULE OneTimeDispatch ---------------------------
(***************************************************************************)
(* One-time dispatches (lib/server/zaad/one-time.ts), together with the    *)
(* staff's starting and pausing of campaigns (zaad/resources.ts) and the   *)
(* drafts that dispatches.ts keeps in the same table.  A preflight signs   *)
(* what it found: the recipients and the settings of the base campaign.    *)
(* A preparation resolves them again and then builds a contact list, a     *)
(* recording and a campaign in the outside contact centre, one call after  *)
(* another, with a checkpoint in the dispatch's row after each.  An answer *)
(* may be lost, a checkpoint may fail, and the host may stop anywhere: a   *)
(* preparation that has stopped is one that takes no further step.         *)
(***************************************************************************)
EXTENDS Naturals, FiniteSets

CONSTANTS
  OperationKey,   \* operation keys the browsers make up, one for each dispatch
  Actor, Draft,   \* administrators; what a request asks for
  Person, Setting, \* a person stands for a batch of recipients; settings of a campaign
  Preparation, Starter, \* calls of prepareZaadOneTime, of updateZaadCampaignStatus
  TokenLife,      \* PREFLIGHT_TTL_SECONDS
  MaxDispatchTime, MaxEdits, \* bounds on the clock and on changes of the sources
  Nothing

ASSUME DispatchBoundsAssumption ==
  TokenLife \in Nat /\ MaxDispatchTime \in Nat /\ MaxEdits \in Nat
ASSUME NothingAssumption == Nothing \notin Setting \cup Draft \cup Actor \cup OperationKey

VARIABLES
  dispatchClock,
  edits,     \* changes of the sources so far
  sources,   \* what the selection and the base campaign resolve to now
  tokens,    \* preflight tokens that were signed
  dispatch,  \* the row of each operation key
  zoom,      \* what was made in the contact centre for each operation key
  prepare,   \* what each preparation holds
  starter    \* what each change of a campaign's status holds

around == <<dispatchClock, edits, sources, tokens>>
dispatchVars == <<around, dispatch, zoom, prepare, starter>>

\* lastCompletedStep, in the order of the code.
SnapshotVerified == 0
ListCreated == 1
ContactsCreated == 2
AssetCreated == 3
CampaignCreated == 4
DraftVerified == 5
Configured == 6
ConfigurationVerified == 7
ReadySet == 8
ReadbackVerified == 9
Step == 0..9

Snapshot == [people : SUBSET Person, setting : Setting]
Token == [key : OperationKey, draft : Draft, found : Snapshot, expires : Nat]
Status == {"none", "draft", "ready", "running", "paused"}
Row == [actor : Actor, draft : Draft \cup {Nothing}, step : Step,
        state : {"VALIDATING", "PREPARING", "READY", "RESULT_UNKNOWN", "FAILED"}]
ASSUME RowAssumption == Nothing \notin Row
Outside == [lists : Nat, assets : Nat, campaigns : Nat, contacts : SUBSET Person,
            setting : Setting \cup {Nothing}, audio : BOOLEAN, status : Status]
PrepareState ==
  [pc : {"idle", "lookup", "resolve", "create", "act", "save", "catch", "done"},
   actor : Actor \cup {Nothing}, token : Token \cup {Nothing},
   snapshot : Snapshot \cup {Nothing}, sent : SUBSET Person,
   step : Step, unknown : BOOLEAN]
ASSUME TokenAssumption == Nothing \notin Token \cup Snapshot
StarterState == [pc : {"idle", "set", "read", "done"}, key : OperationKey \cup {Nothing},
                 to : Status]

Untouched == [lists |-> 0, assets |-> 0, campaigns |-> 0, contacts |-> {},
              setting |-> Nothing, audio |-> FALSE, status |-> "none"]
NotPreparing == [pc |-> "idle", actor |-> Nothing, token |-> Nothing, snapshot |-> Nothing,
                 sent |-> {}, step |-> 0, unknown |-> FALSE]
NotStarting == [pc |-> "idle", key |-> Nothing, to |-> "none"]

DispatchTypeOK ==
  /\ dispatchClock \in 0..MaxDispatchTime
  /\ edits \in 0..MaxEdits
  /\ sources \in Snapshot
  /\ tokens \in SUBSET Token
  /\ dispatch \in [OperationKey -> Row \cup {Nothing}]
  /\ zoom \in [OperationKey -> Outside]
  /\ prepare \in [Preparation -> PrepareState]
  /\ starter \in [Starter -> StarterState]

-----------------------------------------------------------------------------
DispatchInit ==
  /\ dispatchClock = 0 /\ edits = 0
  /\ sources \in Snapshot
  /\ tokens = {}
  /\ dispatch = [k \in OperationKey |-> Nothing]
  /\ zoom = [k \in OperationKey |-> Untouched]
  /\ prepare = [c \in Preparation |-> NotPreparing]
  /\ starter = [o \in Starter |-> NotStarting]

BecomeCall(c, state) == prepare' = [prepare EXCEPT ![c] = state]
GoOn(c, pc) == BecomeCall(c, [prepare[c] EXCEPT !.pc = pc])
KeyOf(c) == prepare[c].token.key
PutDispatch(k, r) == dispatch' = [dispatch EXCEPT ![k] = r]
PutZoom(k, z) == zoom' = [zoom EXCEPT ![k] = z]

\* resolveSnapshot: nobody left to call is an error.
Resolvable == sources.people # {}

\* preflightZaadOneTime.
Preflight(k, d) ==
  /\ Resolvable
  /\ tokens' = tokens \cup
       {[key |-> k, draft |-> d, found |-> sources, expires |-> dispatchClock + TokenLife]}
  /\ UNCHANGED <<dispatchClock, edits, sources, dispatch, zoom, prepare, starter>>

\* preflightDispatch of dispatches.ts: its draft takes the operation key in the same table.
Validate(k, a) ==
  /\ dispatch[k] = Nothing
  /\ PutDispatch(k, [actor |-> a, draft |-> Nothing, step |-> SnapshotVerified,
                     state |-> "VALIDATING"])
  /\ UNCHANGED <<around, zoom, prepare, starter>>

-----------------------------------------------------------------------------
(* prepareZaadOneTime, up to the row.                                      *)

\* A request carries a token; its key and draft must be the signed ones.
Request(c, a, t) ==
  /\ prepare[c].pc = "idle" /\ t \in tokens
  /\ BecomeCall(c, [NotPreparing EXCEPT !.pc = "lookup", !.actor = a, !.token = t])
  /\ UNCHANGED <<around, dispatch, zoom, starter>>

\* A row of the key answers the request, with its state or with a conflict; a token too
\* old for a new row is refused.
Lookup(c) ==
  /\ prepare[c].pc = "lookup"
  /\ GoOn(c, IF \/ dispatch[KeyOf(c)] # Nothing
                \/ prepare[c].token.expires <= dispatchClock
             THEN "done" ELSE "resolve")
  /\ UNCHANGED <<around, dispatch, zoom, starter>>

\* Mutant of SameAsSigned: only the settings of the campaign are compared.
SameSettings(t) == sources.setting = t.found.setting

SameAsSigned(t) == sources = t.found

\* The snapshot that is resolved again is the one that is dialled.
Resolve(c) ==
  /\ prepare[c].pc = "resolve"
  /\ IF Resolvable /\ SameAsSigned(prepare[c].token)
     THEN BecomeCall(c, [prepare[c] EXCEPT !.pc = "create", !.snapshot = sources])
     ELSE GoOn(c, "done")
  /\ UNCHANGED <<around, dispatch, zoom, starter>>

\* The row is created; the unique operation key lets one request do it.  A commit whose
\* answer is lost ends the request with the row left behind.
Create(c) ==
  /\ prepare[c].pc = "create"
  /\ dispatch[KeyOf(c)] = Nothing
  /\ PutDispatch(KeyOf(c), [actor |-> prepare[c].actor, draft |-> prepare[c].token.draft,
                            step |-> SnapshotVerified, state |-> "PREPARING"])
  /\ \/ BecomeCall(c, [prepare[c] EXCEPT !.pc = "act", !.step = ListCreated])
     \/ GoOn(c, "done")
  /\ UNCHANGED <<around, zoom, starter>>

\* The create fails; on a conflict the row of the other request answers this one.
CreateFails(c) ==
  /\ prepare[c].pc = "create"
  /\ GoOn(c, "done")
  /\ UNCHANGED <<around, dispatch, zoom, starter>>

-----------------------------------------------------------------------------
(* The calls to the contact centre.                                        *)

\* What a call makes when it is carried out.  A contact list takes one batch at a time.
Made(z, s, p, setting) ==
  CASE s = ListCreated -> [z EXCEPT !.lists = @ + 1]
    [] s = ContactsCreated -> [z EXCEPT !.contacts = @ \cup {p}]
    [] s = AssetCreated -> [z EXCEPT !.assets = @ + 1]
    [] s = CampaignCreated ->
         [z EXCEPT !.campaigns = @ + 1, !.status = "draft", !.setting = setting]
    [] s = Configured -> [z EXCEPT !.audio = TRUE, !.setting = setting]
    [] s = ReadySet -> [z EXCEPT !.status = "ready"]

Writes == {ListCreated, ContactsCreated, AssetCreated, CampaignCreated, Configured, ReadySet}
Reads == {DraftVerified, ConfigurationVerified, ReadbackVerified}

\* The person of the batch, and the settings the contact centre takes, if not those asked for.
Choice(c) ==
  {ps \in Person \X Setting :
     prepare[c].step = ContactsCreated => ps[1] \in prepare[c].snapshot.people \ prepare[c].sent}

Answered(c) ==
  /\ prepare[c].pc = "act" /\ prepare[c].step \in Writes
  /\ \E ps \in Choice(c) :
       /\ PutZoom(KeyOf(c), Made(zoom[KeyOf(c)], prepare[c].step, ps[1], ps[2]))
       /\ BecomeCall(c, [prepare[c] EXCEPT !.pc = "save",
            !.sent = IF prepare[c].step = ContactsCreated THEN @ \cup {ps[1]} ELSE @])
  /\ UNCHANGED <<around, dispatch, starter>>

Throw(c, unknown) ==
  BecomeCall(c, [prepare[c] EXCEPT !.pc = "catch", !.unknown = unknown])

\* No answer, a failure of the server, an answer that cannot be read: carried out or not.
Unheard(c) ==
  /\ prepare[c].pc = "act" /\ prepare[c].step \in Writes
  /\ \/ UNCHANGED zoom
     \/ \E ps \in Choice(c) :
          PutZoom(KeyOf(c), Made(zoom[KeyOf(c)], prepare[c].step, ps[1], ps[2]))
  /\ Throw(c, TRUE)
  /\ UNCHANGED <<around, dispatch, starter>>

\* A closed gate, no access token, a refusal: not carried out.  A refused batch may have
\* left some of its contacts in the list.
Refused(c) ==
  /\ prepare[c].pc = "act" /\ prepare[c].step \in Writes
  /\ \/ UNCHANGED zoom
     \/ /\ prepare[c].step = ContactsCreated
        /\ \E ps \in Choice(c) :
             PutZoom(KeyOf(c), Made(zoom[KeyOf(c)], ContactsCreated, ps[1], ps[2]))
  /\ Throw(c, FALSE)
  /\ UNCHANGED <<around, dispatch, starter>>

\* What the three reads of the campaign must find.
AsExpected(z, s, setting) ==
  /\ z.setting = setting
  /\ z.status = IF s = ReadbackVerified THEN "ready" ELSE "draft"
  /\ s # DraftVerified => z.audio

ReadBack(c) ==
  /\ prepare[c].pc = "act" /\ prepare[c].step \in Reads
  /\ IF AsExpected(zoom[KeyOf(c)], prepare[c].step, prepare[c].snapshot.setting)
     THEN GoOn(c, "save")
     ELSE Throw(c, FALSE)
  /\ UNCHANGED <<around, dispatch, zoom, starter>>

\* getCampaignReadbackOrUnknown.
ReadBackFails(c) ==
  /\ prepare[c].pc = "act" /\ prepare[c].step \in Reads
  /\ Throw(c, TRUE)
  /\ UNCHANGED <<around, dispatch, zoom, starter>>

\* The contacts are sent batch by batch; the last checkpoint makes the dispatch ready.
NextStep(c) ==
  IF prepare[c].step \in {ListCreated, ContactsCreated}
  THEN IF prepare[c].sent = prepare[c].snapshot.people THEN AssetCreated ELSE ContactsCreated
  ELSE prepare[c].step + 1

Checkpoint(c) ==
  PutDispatch(KeyOf(c), [dispatch[KeyOf(c)] EXCEPT
    !.step = prepare[c].step,
    !.state = IF prepare[c].step = ReadbackVerified THEN "READY" ELSE @])

Save(c) ==
  /\ prepare[c].pc = "save"
  /\ Checkpoint(c)
  /\ IF prepare[c].step = ReadbackVerified THEN GoOn(c, "done")
     ELSE BecomeCall(c, [prepare[c] EXCEPT !.pc = "act", !.step = NextStep(c)])
  /\ UNCHANGED <<around, zoom, starter>>

\* Mutant of SaveFails: a checkpoint that was not recorded counts as a failure of the call.
SaveRefused(c) ==
  /\ prepare[c].pc = "save"
  /\ UNCHANGED dispatch \/ Checkpoint(c)
  /\ Throw(c, FALSE)
  /\ UNCHANGED <<around, zoom, starter>>

\* CheckpointPersistenceError: the update failed, or was committed with its answer lost.
SaveFails(c) ==
  /\ prepare[c].pc = "save"
  /\ UNCHANGED dispatch \/ Checkpoint(c)
  /\ Throw(c, TRUE)
  /\ UNCHANGED <<around, zoom, starter>>

Verdict(c) == IF prepare[c].unknown THEN "RESULT_UNKNOWN" ELSE "FAILED"

\* The transaction of the error handler.
Catch(c) ==
  /\ prepare[c].pc = "catch"
  /\ PutDispatch(KeyOf(c), [dispatch[KeyOf(c)] EXCEPT !.state = Verdict(c)])
  /\ GoOn(c, "done")
  /\ UNCHANGED <<around, zoom, starter>>

CatchFails(c) ==
  /\ prepare[c].pc = "catch"
  /\ GoOn(c, "done")
  /\ UNCHANGED <<around, dispatch, zoom, starter>>

-----------------------------------------------------------------------------
(* updateZaadCampaignStatus.                                               *)

BecomeStarter(o, state) == starter' = [starter EXCEPT ![o] = state]

MayBecome(from, to) ==
  \/ to = "running" /\ from \in {"ready", "paused"}
  \/ to = "paused" /\ from = "running"

\* The status is read; one that is not the expected one, or from which the other cannot be
\* reached, ends the call, and so does one that is there already.
StartStatus(o, k, to) ==
  /\ starter[o].pc = "idle" /\ zoom[k].campaigns > 0
  /\ BecomeStarter(o, [pc |-> IF MayBecome(zoom[k].status, to) THEN "set" ELSE "done",
                       key |-> k, to |-> to])
  /\ UNCHANGED <<around, dispatch, zoom, prepare>>

\* Carried out, and heard of or not.
SetStatus(o) ==
  /\ starter[o].pc = "set"
  /\ PutZoom(starter[o].key, [zoom[starter[o].key] EXCEPT !.status = starter[o].to])
  /\ BecomeStarter(o, [starter[o] EXCEPT !.pc = "read"])
  /\ UNCHANGED <<around, dispatch, prepare>>

\* Not carried out: a refusal ends the call, an unknown result leads to the read.
SetStatusFails(o) ==
  /\ starter[o].pc = "set"
  /\ \E pc \in {"read", "done"} : BecomeStarter(o, [starter[o] EXCEPT !.pc = pc])
  /\ UNCHANGED <<around, dispatch, zoom, prepare>>

\* The answer is a success, or unknown, by what is read.
ReadStatus(o) ==
  /\ starter[o].pc = "read"
  /\ BecomeStarter(o, [starter[o] EXCEPT !.pc = "done"])
  /\ UNCHANGED <<around, dispatch, zoom, prepare>>

-----------------------------------------------------------------------------
\* Contacts, residents and the base campaign change.
Edit ==
  /\ edits < MaxEdits /\ edits' = edits + 1
  /\ sources' \in Snapshot
  /\ UNCHANGED <<dispatchClock, tokens, dispatch, zoom, prepare, starter>>

DispatchTick ==
  /\ dispatchClock < MaxDispatchTime /\ dispatchClock' = dispatchClock + 1
  /\ UNCHANGED <<edits, sources, tokens, dispatch, zoom, prepare, starter>>

PrepareStep(c) ==
  \/ \E a \in Actor, t \in tokens : Request(c, a, t)
  \/ Lookup(c) \/ Resolve(c) \/ Create(c) \/ CreateFails(c)
  \/ Answered(c) \/ Unheard(c) \/ Refused(c) \/ ReadBack(c) \/ ReadBackFails(c)
  \/ Save(c) \/ SaveFails(c) \/ Catch(c) \/ CatchFails(c)

StarterStep(o) ==
  \/ \E k \in OperationKey, to \in {"running", "paused"} : StartStatus(o, k, to)
  \/ SetStatus(o) \/ SetStatusFails(o) \/ ReadStatus(o)

DispatchNext ==
  \/ \E k \in OperationKey, d \in Draft : Preflight(k, d)
  \/ \E k \in OperationKey, a \in Actor : Validate(k, a)
  \/ \E c \in Preparation : PrepareStep(c)
  \/ \E o \in Starter : StarterStep(o)
  \/ Edit
  \/ DispatchTick

DispatchSpec == DispatchInit /\ [][DispatchNext]_dispatchVars

-----------------------------------------------------------------------------
\* What is in the contact centre once the first s steps have been carried out.
Reached(z, s) ==
  /\ z.lists = (IF s >= ListCreated THEN 1 ELSE 0)
  /\ z.assets = (IF s >= AssetCreated THEN 1 ELSE 0)
  /\ z.campaigns = (IF s >= CampaignCreated THEN 1 ELSE 0)
  /\ z.audio <=> s >= Configured
  /\ z.status \in (IF s >= ReadySet THEN {"ready", "running", "paused"}
                   ELSE IF s >= CampaignCreated THEN {"draft"} ELSE {"none"})

\* A dispatch that is settled as ready or failed names in its row everything that was made
\* for it; until then, and when the result is unknown, at most the one next step is in
\* doubt.  So each operation key makes at most one contact list, recording and campaign,
\* whoever repeats the request, and a campaign that may dial is never taken for a draft.
RowTellsOutside ==
  \A k \in OperationKey :
    IF dispatch[k] = Nothing \/ dispatch[k].state = "VALIDATING" THEN zoom[k] = Untouched
    ELSE \/ Reached(zoom[k], dispatch[k].step)
         \/ /\ dispatch[k].state \in {"PREPARING", "RESULT_UNKNOWN"}
            /\ dispatch[k].step < ReadbackVerified
            /\ Reached(zoom[k], dispatch[k].step + 1)

\* A campaign that may dial calls exactly the people, with exactly the settings, that a
\* preflight of the same key and request showed, however the sources changed meanwhile.
DialsAsConfirmed ==
  \A k \in OperationKey : zoom[k].status \in {"ready", "running", "paused"} =>
    \E t \in tokens : /\ t.key = k /\ t.draft = dispatch[k].draft
                      /\ t.found = [people |-> zoom[k].contacts, setting |-> zoom[k].setting]
=============================================================================
