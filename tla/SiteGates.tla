------------------------------- MODULE SiteGates -------------------------------
(***************************************************************************)
(* The two gates before the public sites (proxy.ts): the shared access     *)
(* codes (lib/server/site-access-*.ts, public-access-gate.ts) and the      *)
(* maintenance switch (lib/server/maintenance-*.ts), for one environment.  *)
(* Every statement of a request is a step of its own, but for the two that *)
(* delete expired rows, which go with the issuing of a session.  A visitor *)
(* is one browser, which does one thing at a time and keeps one cookie;    *)
(* visitors without a verified address share one bucket of attempts.  A    *)
(* request whose store fails is answered with 503, and serves nothing.     *)
(***************************************************************************)
EXTENDS Naturals

CONSTANTS
  Tenant, Global, Entry, \* the tenants, the scope of all of them, the site that leads to them
  Code, NoCode,
  Visitor, Editor,       \* browsers; administrators' calls of saveSiteAccessSettings
  Tries, WindowLength,   \* attempts let through in a window, and how long it is
  Lifetimes, Schedules,  \* values of sessionDays, and pairs <<start, end>> to schedule
  MaxGateTime, MaxChanges, \* bounds on the clock and on changes of the settings
  NoRecord               \* no session, no schedule

ASSUME GateLimitsAssumption ==
  /\ Tries \in Nat /\ WindowLength \in Nat \ {0}
  /\ Lifetimes \subseteq Nat \ {0} /\ Lifetimes # {}
  /\ Schedules \subseteq {s \in Nat \X Nat : s[1] < s[2]}
ASSUME GateBoundsAssumption == MaxGateTime \in Nat /\ MaxChanges \in Nat
ASSUME ScopesAssumption == Global \notin Tenant /\ Entry \notin Tenant
ASSUME CodeAssumption == NoCode \notin Code

VARIABLES
  gateClock,
  access,    \* site_access_settings
  sessions,  \* site_access_sessions: that of each browser's cookie
  attempts,  \* site_access_attempts: the count of each window, 0 for no row
  switch,    \* site_maintenance_settings
  changes,   \* changes of the settings so far
  visit,     \* what the request of each visitor holds
  editor,    \* what each administrator's call holds
  compared   \* codes let through to be compared while each window lasted

gateVars == <<gateClock, access, sessions, attempts, switch, changes, visit, editor, compared>>
settings == <<access, switch, changes, editor>>

Scope == Tenant \cup {Global}
Site == Tenant \cup {Entry}
Window == 0..(MaxGateTime \div WindowLength)
WindowOf(t) == t \div WindowLength

AccessRow == [enabled : BOOLEAN, code : Code \cup {NoCode}, days : Lifetimes, revision : Nat]
\* The code is not stored: it is what the visitor entered.
Session == [scope : Scope, site : Site, revision : Nat, expires : Nat, entered : Code]
SwitchRow == [mode : {"DISABLED", "ENABLED", "SCHEDULED"},
              schedule : Schedules \cup {NoRecord}, revision : Nat]
VisitState ==
  [pc : {"idle", "consume", "read", "issue", "settings", "session", "maintenance", "served"},
   site : Site, code : Code \cup {NoCode}, now : Nat,
   seen : [Scope -> AccessRow],           \* the settings the request read
   entered : Code \cup {NoCode}]          \* the code of the session that let it in
EditState == [pc : {"idle", "hash"}, scope : Scope, enabled : BOOLEAN,
              code : Code \cup {NoCode}, days : Lifetimes, expected : Nat]

ASSUME NoRecordAssumption == NoRecord \notin Session \cup Schedules

GatesTypeOK ==
  /\ gateClock \in 0..MaxGateTime
  /\ access \in [Scope -> AccessRow]
  /\ sessions \in [Visitor -> Session \cup {NoRecord}]
  /\ attempts \in [Window -> 0..(Tries + 1)]
  /\ switch \in [Tenant -> SwitchRow]
  /\ changes \in 0..MaxChanges
  /\ visit \in [Visitor -> VisitState]
  /\ editor \in [Editor -> EditState]
  /\ compared \in [Window -> Nat]

-----------------------------------------------------------------------------
Fresh == [enabled |-> FALSE, code |-> NoCode, days |-> CHOOSE d \in Lifetimes : TRUE,
          revision |-> 1]
NoVisit == [pc |-> "idle", site |-> Entry, code |-> NoCode, now |-> 0,
            seen |-> [s \in Scope |-> Fresh], entered |-> NoCode]
NoEdit == [pc |-> "idle", scope |-> Global, enabled |-> FALSE, code |-> NoCode,
           days |-> Fresh.days, expected |-> 1]

\* The rows the migrations make.
GatesInit ==
  /\ gateClock = 0
  /\ access = [s \in Scope |-> Fresh]
  /\ sessions = [v \in Visitor |-> NoRecord]
  /\ attempts = [w \in Window |-> 0]
  /\ switch = [t \in Tenant |-> [mode |-> "DISABLED", schedule |-> NoRecord, revision |-> 1]]
  /\ changes = 0
  /\ visit = [v \in Visitor |-> NoVisit]
  /\ editor = [e \in Editor |-> NoEdit]
  /\ compared = [w \in Window |-> 0]

BecomeVisit(v, state) == visit' = [visit EXCEPT ![v] = state]
NextOf(v, pc) == BecomeVisit(v, [visit[v] EXCEPT !.pc = pc])
Leave(v) == BecomeVisit(v, NoVisit)

\* accessCodeScopes and siteIsRestricted.
CodeScopes(site) == IF site = Entry THEN Scope ELSE {Global, site}
Restricted(rows, site) ==
  \E s \in {Global, site} \cap Scope : rows[s].enabled

-----------------------------------------------------------------------------
(* verifySiteAccess: a visitor enters a code.                              *)

EnterCode(v, site, code) ==
  /\ visit[v].pc \in {"idle", "served"}
  /\ BecomeVisit(v, [NoVisit EXCEPT
       !.pc = "consume", !.site = site, !.code = code, !.now = gateClock])
  /\ UNCHANGED <<gateClock, settings, sessions, attempts, compared>>

\* Mutant of CountUpTo: the count has no end.
CountOn(n) == n + 1

\* Mutant of CountUpTo: the count stops at the last attempt that is let through.
CountUpToLimit(n) == IF n < Tries THEN n + 1 ELSE Tries

CountUpTo(n) == IF n < Tries + 1 THEN n + 1 ELSE Tries + 1

\* consumeAccessAttempt: one statement counts the attempt in the window of the call's clock.
Consume(v) ==
  /\ visit[v].pc = "consume"
  /\ LET w == WindowOf(visit[v].now)
         count == CountUpTo(attempts[w])
     IN /\ attempts' = [attempts EXCEPT ![w] = count]
        /\ IF count > Tries THEN Leave(v) ELSE NextOf(v, "read")
        /\ compared' = IF count <= Tries /\ WindowOf(gateClock) = w
                       THEN [compared EXCEPT ![w] = @ + 1] ELSE compared
  /\ UNCHANGED <<gateClock, settings, sessions>>

ReadForCode(v) ==
  /\ visit[v].pc = "read"
  /\ BecomeVisit(v, [visit[v] EXCEPT !.pc = "issue", !.seen = access])
  /\ UNCHANGED <<gateClock, settings, sessions, attempts, compared>>

Matching(v) == {s \in CodeScopes(visit[v].site) :
                  visit[v].seen[s].enabled /\ visit[v].seen[s].code = visit[v].code}

\* issueSiteAccessSession, under the settings read before the code was compared; rows that
\* have expired are deleted with it.
Issue(v) ==
  /\ visit[v].pc = "issue"
  /\ Leave(v)
  /\ IF Matching(v) = {} THEN UNCHANGED <<sessions, attempts>>
     ELSE \E s \in Matching(v) :
       /\ Global \in Matching(v) => s = Global
       /\ sessions' = [u \in Visitor |->
            IF u = v
            THEN [scope |-> s, site |-> visit[v].site, revision |-> visit[v].seen[s].revision,
                  expires |-> visit[v].now + visit[v].seen[s].days, entered |-> visit[v].code]
            ELSE IF sessions[u] # NoRecord /\ sessions[u].expires <= visit[v].now
                 THEN NoRecord ELSE sessions[u]]
       /\ attempts' = [w \in Window |->
            IF (w + 1) * WindowLength <= visit[v].now THEN 0 ELSE attempts[w]]
  /\ UNCHANGED <<gateClock, settings, compared>>

-----------------------------------------------------------------------------
(* proxy: a visitor asks for a page.                                       *)

Arrive(v, site) ==
  /\ visit[v].pc \in {"idle", "served"}
  /\ BecomeVisit(v, [NoVisit EXCEPT !.pc = "settings", !.site = site])
  /\ UNCHANGED <<gateClock, settings, sessions, attempts, compared>>

\* requirePublicAccess: the settings are read before the session is.
ReadAccess(v) ==
  /\ visit[v].pc = "settings"
  /\ BecomeVisit(v, [visit[v] EXCEPT
       !.seen = access, !.pc = IF Restricted(access, visit[v].site) THEN "session"
                               ELSE "maintenance"])
  /\ UNCHANGED <<gateClock, settings, sessions, attempts, compared>>

\* Mutant of Admits: a session stays valid when the code of its scope changes.
AdmitsAnyRevision(v, session) ==
  /\ session.site = visit[v].site /\ session.expires > gateClock
  /\ session.scope \in CodeScopes(visit[v].site)
  /\ visit[v].seen[session.scope].enabled

Admits(v, session) ==
  /\ session.site = visit[v].site /\ session.expires > gateClock
  /\ session.scope \in CodeScopes(visit[v].site)
  /\ visit[v].seen[session.scope].enabled
  /\ visit[v].seen[session.scope].revision = session.revision

\* hasSiteAccessSession.
CheckSession(v) ==
  /\ visit[v].pc = "session"
  /\ IF sessions[v] # NoRecord /\ Admits(v, sessions[v])
     THEN BecomeVisit(v, [visit[v] EXCEPT
            !.pc = "maintenance", !.entered = sessions[v].entered])
     ELSE Leave(v)
  /\ UNCHANGED <<gateClock, settings, sessions, attempts, compared>>

\* resolveMaintenanceEffectiveState.
Active(row, t) ==
  \/ row.mode = "ENABLED"
  \/ row.mode = "SCHEDULED" /\ row.schedule[1] <= t /\ t < row.schedule[2]

\* handleMaintenanceRequest; the entry site has no maintenance.
CheckMaintenance(v) ==
  /\ visit[v].pc = "maintenance"
  /\ IF visit[v].site # Entry /\ Active(switch[visit[v].site], gateClock)
     THEN Leave(v) ELSE NextOf(v, "served")
  /\ UNCHANGED <<gateClock, settings, sessions, attempts, compared>>

GateFails(v) ==
  /\ visit[v].pc \notin {"idle", "served"}
  /\ Leave(v)
  /\ UNCHANGED <<gateClock, settings, sessions, attempts, compared>>

-----------------------------------------------------------------------------
(* The administrators.                                                     *)

visits == <<gateClock, sessions, attempts, visit, compared>>
BecomeEditor(e, state) == editor' = [editor EXCEPT ![e] = state]
Change == changes < MaxChanges /\ changes' = changes + 1

\* saveSiteAccessSettings: whether there is a code is read before the new one is hashed.
BeginSave(e, scope, enabled, code, days, expected) ==
  /\ editor[e].pc = "idle" /\ changes < MaxChanges
  /\ enabled /\ code = NoCode => access[scope].code # NoCode
  /\ BecomeEditor(e, [pc |-> "hash", scope |-> scope, enabled |-> enabled, code |-> code,
                      days |-> days, expected |-> expected])
  /\ UNCHANGED <<access, switch, changes, visits>>

\* COALESCE: a save without a code keeps the old one.
CodeAfter(row, code) == IF code = NoCode THEN row.code ELSE code

\* The update and its audit are one statement, for the expected revision only.
FinishSave(e) ==
  LET ed == editor[e]
      row == access[ed.scope]
  IN
  /\ ed.pc = "hash"
  /\ row.revision = ed.expected /\ Change
  /\ access' = [access EXCEPT ![ed.scope] =
       [enabled |-> ed.enabled, code |-> CodeAfter(row, ed.code), days |-> ed.days,
        revision |-> row.revision + 1]]
  /\ BecomeEditor(e, NoEdit)
  /\ UNCHANGED <<switch, visits>>

\* SITE_ACCESS_SETTINGS_CONFLICT, or the store fails.
SaveAccessFails(e) ==
  /\ editor[e].pc = "hash"
  /\ BecomeEditor(e, NoEdit)
  /\ UNCHANGED <<access, switch, changes, visits>>

\* saveMaintenanceSettings: one update of the row, for the expected revision only; the modes
\* set by hand keep the schedule.
SaveMaintenance(t, mode, schedule) ==
  /\ Change
  /\ mode = "SCHEDULED" => schedule[2] > gateClock
  /\ switch' = [switch EXCEPT ![t] =
       [mode |-> mode, schedule |-> IF mode = "SCHEDULED" THEN schedule ELSE @.schedule,
        revision |-> @.revision + 1]]
  /\ UNCHANGED <<access, editor, visits>>

GateTick ==
  /\ gateClock < MaxGateTime /\ gateClock' = gateClock + 1
  /\ UNCHANGED <<settings, sessions, attempts, visit, compared>>

VisitStep(v) ==
  \/ \E site \in Site, code \in Code : EnterCode(v, site, code)
  \/ Consume(v) \/ ReadForCode(v) \/ Issue(v)
  \/ \E site \in Site : Arrive(v, site)
  \/ ReadAccess(v) \/ CheckSession(v) \/ CheckMaintenance(v) \/ GateFails(v)

EditorStep(e) ==
  \/ \E scope \in Scope, enabled \in BOOLEAN, code \in Code \cup {NoCode}, days \in Lifetimes :
       \E expected \in 1..access[scope].revision :
         BeginSave(e, scope, enabled, code, days, expected)
  \/ FinishSave(e) \/ SaveAccessFails(e)

GatesNext ==
  \/ \E v \in Visitor : VisitStep(v)
  \/ \E e \in Editor : EditorStep(e)
  \/ \E t \in Tenant, mode \in {"DISABLED", "ENABLED", "SCHEDULED"}, s \in Schedules :
       SaveMaintenance(t, mode, s)
  \/ GateTick

GatesSpec == GatesInit /\ [][GatesNext]_gateVars

-----------------------------------------------------------------------------
\* A page that is restricted is served only to a browser whose visitor entered the code that
\* was in force, for the site or for all of them, in the settings the request read: a code
\* that was replaced or switched off opens nothing, also when the change fell between the
\* reading of the settings and the issuing of the session.
CodeInForceOpens ==
  \A v \in Visitor :
    visit[v].pc = "served" /\ Restricted(visit[v].seen, visit[v].site) =>
      \E s \in CodeScopes(visit[v].site) :
        visit[v].seen[s].enabled /\ visit[v].seen[s].code = visit[v].entered

\* While a window of attempts lasts, no more codes are compared than it allows, although
\* calls of other clocks count in it and delete expired windows.
TriesPerWindow == \A w \in Window : compared[w] <= Tries
=============================================================================
