--------------------------- MODULE PublicSiteProofs ---------------------------
(***************************************************************************)
(* Proofs about what anybody can reach from outside.  SiteGates: for any   *)
(* tenants, browsers, administrators and codes, any limit of attempts and  *)
(* any length of its window.  PasswordResets: for any number of requests   *)
(* the server works on at one time and any limits and durations.  The two  *)
(* share no state; each has its own specification.                         *)
(***************************************************************************)
EXTENDS SiteGates, PasswordResets, FiniteSetTheorems, TLAPS

-----------------------------------------------------------------------------
(* The gates: the inductive invariant.                                     *)

\* The settings of a scope that are in force, or that some request still holds.
Views(s) == {Fresh, access[s]} \cup {visit[v].seen[s] : v \in Visitor}

\* A revision names one version of the settings, and the newest is in force.
RevisionNames(s) ==
  /\ \A r \in Views(s) : r.revision <= access[s].revision
  /\ \A r, q \in Views(s) : r.revision = q.revision => r = q

\* Who holds the settings a session was issued under finds its code in them.
SessionTells(x) ==
  /\ x.revision <= access[x.scope].revision
  /\ \A r \in Views(x.scope) :
       r.revision = x.revision => r.enabled /\ r.code = x.entered

\* What lets a request x past the gate of codes.
LetIn(x) ==
  x.pc \in {"maintenance", "served"} /\ Restricted(x.seen, x.site) =>
    \E s \in CodeScopes(x.site) : x.seen[s].enabled /\ x.seen[s].code = x.entered

\* What a request x holds.
VisitTells(x) ==
  /\ x.now <= gateClock
  /\ x.pc \in {"consume", "read", "issue"} => x.code \in Code
  /\ LetIn(x)

\* A window that lasts, or is to come, has counted what was let through in it.
Counted(w) ==
  /\ compared[w] <= Tries
  /\ WindowOf(gateClock) <= w => compared[w] <= attempts[w]

GatesInv ==
  /\ GatesTypeOK
  /\ \A s \in Scope : RevisionNames(s)
  /\ \A u \in Visitor : sessions[u] # NoRecord => SessionTells(sessions[u])
  /\ \A v \in Visitor : VisitTells(visit[v])
  /\ \A w \in Window : Counted(w)

-----------------------------------------------------------------------------
(* Windows of attempts.                                                    *)

LEMMA WindowsInOrder ==
  ASSUME NEW t \in Nat, NEW u \in Nat, t <= u
  PROVE  WindowOf(t) \in Nat /\ WindowOf(t) <= WindowOf(u)
  BY GateLimitsAssumption DEF WindowOf

\* A window whose end has come is not the one of the clock.
LEMMA WindowOver ==
  ASSUME NEW w \in Nat, NEW t \in Nat, (w + 1) * WindowLength <= t
  PROVE  w < WindowOf(t)
  BY GateLimitsAssumption DEF WindowOf

LEMMA WindowType == Window \subseteq Nat
  BY GateLimitsAssumption, GateBoundsAssumption DEF Window

-----------------------------------------------------------------------------
(* Types.                                                                  *)

LEMMA FreshType == Fresh \in AccessRow /\ Fresh.revision = 1 /\ Fresh.days \in Lifetimes
  BY GateLimitsAssumption DEF Fresh, AccessRow

LEMMA NoVisitType ==
  /\ NoVisit \in VisitState /\ NoVisit.pc = "idle" /\ NoVisit.now = 0
  /\ \A s \in Scope : NoVisit.seen[s] = Fresh
  BY FreshType DEF NoVisit, VisitState, Site

LEMMA NoEditType == NoEdit \in EditState
  BY FreshType DEF NoEdit, EditState, Scope

LEMMA CodeScopesType == \A site \in Site : CodeScopes(site) \subseteq Scope
  BY DEF CodeScopes, Site, Scope

LEMMA InitGates == GatesInit => GatesInv
  <1> SUFFICES ASSUME GatesInit PROVE GatesInv
    OBVIOUS
  <1>1. GatesTypeOK
    BY FreshType, NoVisitType, NoEditType, GateLimitsAssumption, GateBoundsAssumption
    DEF GatesInit, GatesTypeOK, SwitchRow
  <1>2. \A s \in Scope : Views(s) = {Fresh}
    BY NoVisitType DEF GatesInit, Views
  <1>3. \A s \in Scope : RevisionNames(s)
    BY <1>2, FreshType DEF GatesInit, RevisionNames
  <1>4. \A v \in Visitor : VisitTells(visit[v])
    BY NoVisitType DEF GatesInit, VisitTells, LetIn
  <1>5. \A w \in Window : Counted(w)
    BY GateLimitsAssumption DEF GatesInit, Counted
  <1>. QED BY <1>1, <1>3, <1>4, <1>5 DEF GatesInit, GatesInv

-----------------------------------------------------------------------------
(* Steps that leave the settings alone.                                    *)

\* A request holds the settings it had, those in force, or none.
LEMMA ViewsKept ==
  ASSUME GatesInv, NEW v \in Visitor, NEW new, BecomeVisit(v, new),
         \A s \in Scope : new.seen[s] \in Views(s), UNCHANGED access
  PROVE  /\ \A s \in Scope : Views(s)' \subseteq Views(s) /\ RevisionNames(s)'
         /\ \A x \in Session : SessionTells(x) => SessionTells(x)'
  <1>1. \A u \in Visitor : visit'[u] = IF u = v THEN new ELSE visit[u]
    BY DEF GatesInv, GatesTypeOK, BecomeVisit
  <1>2. \A s \in Scope : Views(s)' \subseteq Views(s)
    BY <1>1 DEF Views
  <1>3. \A s \in Scope : RevisionNames(s)'
    BY <1>2 DEF GatesInv, RevisionNames
  <1>4. \A x \in Session : SessionTells(x) => SessionTells(x)'
    BY <1>2 DEF Session, SessionTells
  <1>. QED BY <1>2, <1>3, <1>4

\* A step of a request that writes nothing.
LEMMA RequestMoves ==
  ASSUME GatesInv, NEW v \in Visitor, NEW new \in VisitState, BecomeVisit(v, new),
         VisitTells(new), \A s \in Scope : new.seen[s] \in Views(s),
         UNCHANGED <<gateClock, settings, sessions, attempts, compared>>
  PROVE  GatesInv'
  <1>0. UNCHANGED <<access, switch, changes, editor>> BY DEF settings
  <1>1. visit' \in [Visitor -> VisitState]
        /\ \A u \in Visitor : visit'[u] = IF u = v THEN new ELSE visit[u]
    BY DEF GatesInv, GatesTypeOK, BecomeVisit
  <1>2. GatesTypeOK'
    BY <1>0, <1>1 DEF GatesInv, GatesTypeOK
  <1>3. ASSUME NEW u \in Visitor PROVE VisitTells(visit[u])'
    <2>1. CASE u = v BY <1>1, <2>1 DEF VisitTells, LetIn
    <2>2. CASE u # v BY <1>1, <2>2 DEF GatesInv, VisitTells, LetIn
    <2>. QED BY <2>1, <2>2
  <1>4. ASSUME NEW u \in Visitor, sessions[u] # NoRecord PROVE SessionTells(sessions[u])'
    <2>1. PICK x \in Session : x = sessions[u]
      BY <1>4 DEF GatesInv, GatesTypeOK
    <2>2. SessionTells(x)'
      BY <1>0, <1>4, <2>1, ViewsKept DEF GatesInv
    <2>. QED BY <2>1, <2>2 DEF SessionTells
  <1>5. \A w \in Window : Counted(w)'
    BY DEF GatesInv, Counted
  <1>. QED BY <1>0, <1>2, <1>3, <1>4, <1>5, ViewsKept DEF GatesInv

LEMMA EnterCodeKept ==
  ASSUME GatesInv, NEW v \in Visitor, NEW site \in Site, NEW code \in Code,
         EnterCode(v, site, code)
  PROVE  GatesInv'
  <1> DEFINE new == [NoVisit EXCEPT
        !.pc = "consume", !.site = site, !.code = code, !.now = gateClock]
  <1>0. gateClock \in Nat
    BY GateBoundsAssumption DEF GatesInv, GatesTypeOK
  <1>1. new \in VisitState /\ new.pc = "consume" /\ new.now = gateClock /\ new.code = code
        /\ new.seen = NoVisit.seen
    BY <1>0, NoVisitType DEF VisitState
  <1>2. VisitTells(new)
    BY <1>1, GateBoundsAssumption DEF VisitTells, LetIn, GatesInv, GatesTypeOK
  <1>3. \A s \in Scope : new.seen[s] \in Views(s)
    BY <1>1, NoVisitType DEF Views
  <1>4. BecomeVisit(v, new)
        /\ UNCHANGED <<gateClock, settings, sessions, attempts, compared>>
    BY DEF EnterCode
  <1>. HIDE DEF new
  <1>. QED BY <1>1, <1>2, <1>3, <1>4, RequestMoves

LEMMA ArriveKept ==
  ASSUME GatesInv, NEW v \in Visitor, NEW site \in Site, Arrive(v, site)
  PROVE  GatesInv'
  <1> DEFINE new == [NoVisit EXCEPT !.pc = "settings", !.site = site]
  <1>1. new \in VisitState /\ new.pc = "settings" /\ new.now = 0 /\ new.seen = NoVisit.seen
    BY NoVisitType DEF VisitState
  <1>2. VisitTells(new)
    BY <1>1, GateBoundsAssumption DEF VisitTells, LetIn, GatesInv, GatesTypeOK
  <1>3. \A s \in Scope : new.seen[s] \in Views(s)
    BY <1>1, NoVisitType DEF Views
  <1>4. BecomeVisit(v, new)
        /\ UNCHANGED <<gateClock, settings, sessions, attempts, compared>>
    BY DEF Arrive
  <1>. HIDE DEF new
  <1>. QED BY <1>1, <1>2, <1>3, <1>4, RequestMoves

\* A request that ends holds nothing.
LEMMA NothingTells == GatesInv => VisitTells(NoVisit) /\ \A s \in Scope : NoVisit.seen[s] \in Views(s)
  BY NoVisitType, GateBoundsAssumption DEF GatesInv, GatesTypeOK, VisitTells, LetIn, Views

LEMMA LeaveKept ==
  ASSUME GatesInv, NEW v \in Visitor, Leave(v),
         UNCHANGED <<gateClock, settings, sessions, attempts, compared>>
  PROVE  GatesInv'
  BY NoVisitType, NothingTells, RequestMoves DEF Leave

\* What a request holds, as the invariant has it.
LEMMA RequestHolds ==
  ASSUME GatesInv, NEW v \in Visitor
  PROVE  /\ visit[v] \in VisitState /\ VisitTells(visit[v])
         /\ \A s \in Scope : visit[v].seen[s] \in Views(s)
  BY DEF GatesInv, GatesTypeOK, Views

LEMMA ReadForCodeKept ==
  ASSUME GatesInv, NEW v \in Visitor, ReadForCode(v)
  PROVE  GatesInv'
  <1> DEFINE new == [visit[v] EXCEPT !.pc = "issue", !.seen = access]
  <1>1. new \in VisitState /\ new.pc = "issue" /\ new.now = visit[v].now
        /\ new.code = visit[v].code /\ new.seen = access
    BY RequestHolds DEF VisitState, GatesInv, GatesTypeOK
  <1>2. VisitTells(new)
    BY <1>1, RequestHolds DEF VisitTells, LetIn, ReadForCode
  <1>3. \A s \in Scope : new.seen[s] \in Views(s)
    BY <1>1 DEF Views
  <1>4. BecomeVisit(v, new)
        /\ UNCHANGED <<gateClock, settings, sessions, attempts, compared>>
    BY DEF ReadForCode
  <1>. HIDE DEF new
  <1>. QED BY <1>1, <1>2, <1>3, <1>4, RequestMoves

LEMMA ReadAccessKept ==
  ASSUME GatesInv, NEW v \in Visitor, ReadAccess(v)
  PROVE  GatesInv'
  <1> DEFINE new == [visit[v] EXCEPT
        !.seen = access, !.pc = IF Restricted(access, visit[v].site) THEN "session"
                                ELSE "maintenance"]
  <1>1. new \in VisitState /\ new.now = visit[v].now /\ new.seen = access
        /\ new.site = visit[v].site
        /\ new.pc = IF Restricted(access, visit[v].site) THEN "session" ELSE "maintenance"
    BY RequestHolds DEF VisitState, GatesInv, GatesTypeOK
  <1>2. VisitTells(new)
    BY <1>1, RequestHolds DEF VisitTells, LetIn
  <1>3. \A s \in Scope : new.seen[s] \in Views(s)
    BY <1>1 DEF Views
  <1>4. BecomeVisit(v, new)
        /\ UNCHANGED <<gateClock, settings, sessions, attempts, compared>>
    BY DEF ReadAccess
  <1>. HIDE DEF new
  <1>. QED BY <1>1, <1>2, <1>3, <1>4, RequestMoves

\* A session is admitted under the settings it was issued under, which hold its code.
LEMMA CheckSessionKept ==
  ASSUME GatesInv, NEW v \in Visitor, CheckSession(v)
  PROVE  GatesInv'
  <1>1. CASE sessions[v] # NoRecord /\ Admits(v, sessions[v])
    <2>1. PICK x \in Session : x = sessions[v]
      BY <1>1 DEF GatesInv, GatesTypeOK
    <2> DEFINE new == [visit[v] EXCEPT !.pc = "maintenance", !.entered = x.entered]
    <2>2. new \in VisitState /\ new.pc = "maintenance" /\ new.now = visit[v].now
          /\ new.seen = visit[v].seen /\ new.site = visit[v].site /\ new.entered = x.entered
      BY RequestHolds DEF VisitState, Session
    <2>3. x.scope \in CodeScopes(visit[v].site) /\ x.scope \in Scope
          /\ visit[v].seen[x.scope].revision = x.revision
      BY <1>1, <2>1 DEF Admits, Session
    <2>4. visit[v].seen[x.scope].enabled /\ visit[v].seen[x.scope].code = x.entered
      BY <1>1, <2>1, <2>3, RequestHolds DEF GatesInv, SessionTells
    <2>5. VisitTells(new)
      BY <2>2, <2>3, <2>4, RequestHolds DEF VisitTells, LetIn
    <2>6. BecomeVisit(v, new)
          /\ UNCHANGED <<gateClock, settings, sessions, attempts, compared>>
      BY <1>1, <2>1 DEF CheckSession
    <2>. HIDE DEF new
    <2>. QED BY <2>2, <2>5, <2>6, RequestHolds, RequestMoves
  <1>2. CASE ~(sessions[v] # NoRecord /\ Admits(v, sessions[v]))
    BY <1>2, LeaveKept DEF CheckSession
  <1>. QED BY <1>1, <1>2

LEMMA CheckMaintenanceKept ==
  ASSUME GatesInv, NEW v \in Visitor, CheckMaintenance(v)
  PROVE  GatesInv'
  <1>1. CASE Leave(v)
    BY <1>1, LeaveKept DEF CheckMaintenance
  <1>2. CASE NextOf(v, "served")
    <2> DEFINE new == [visit[v] EXCEPT !.pc = "served"]
    <2>1. new \in VisitState /\ new.pc = "served" /\ new.now = visit[v].now
          /\ new.seen = visit[v].seen /\ new.site = visit[v].site
          /\ new.entered = visit[v].entered
      BY RequestHolds DEF VisitState
    <2>2. VisitTells(new)
      BY <2>1, RequestHolds DEF VisitTells, LetIn, CheckMaintenance
    <2>3. BecomeVisit(v, new)
          /\ UNCHANGED <<gateClock, settings, sessions, attempts, compared>>
      BY <1>2 DEF NextOf, CheckMaintenance
    <2>. HIDE DEF new
    <2>. QED BY <2>1, <2>2, <2>3, RequestHolds, RequestMoves
  <1>. QED BY <1>1, <1>2 DEF CheckMaintenance

LEMMA GateFailsKept ==
  ASSUME GatesInv, NEW v \in Visitor, GateFails(v)
  PROVE  GatesInv'
  BY LeaveKept DEF GateFails

-----------------------------------------------------------------------------
(* Steps of a request that write.                                          *)

LEMMA CountUpToType ==
  ASSUME NEW n \in 0..(Tries + 1)
  PROVE  CountUpTo(n) \in 1..(Tries + 1) /\ n <= CountUpTo(n)
         /\ (CountUpTo(n) <= Tries => CountUpTo(n) = n + 1)
  BY GateLimitsAssumption DEF CountUpTo

\* An attempt is counted before its code is compared.
LEMMA ConsumeKept ==
  ASSUME GatesInv, NEW v \in Visitor, Consume(v)
  PROVE  GatesInv'
  <1> DEFINE w == WindowOf(visit[v].now)
             count == CountUpTo(attempts[w])
             new == IF count > Tries THEN NoVisit ELSE [visit[v] EXCEPT !.pc = "read"]
  <1>0. UNCHANGED <<gateClock, access, switch, changes, editor, sessions>>
    BY DEF Consume, settings
  <1>1. visit[v].now \in Nat /\ visit[v].now <= gateClock /\ gateClock \in 0..MaxGateTime
        /\ gateClock \in Nat /\ MaxGateTime \in Nat
    BY RequestHolds, GateBoundsAssumption DEF VisitState, VisitTells, GatesInv, GatesTypeOK
  <1>2. w \in Window /\ w <= WindowOf(gateClock) /\ w \in Nat /\ WindowOf(gateClock) \in Nat
    <2>1. w \in Nat /\ w <= WindowOf(gateClock)
      BY <1>1, WindowsInOrder
    <2>2. w <= WindowOf(MaxGateTime) /\ WindowOf(MaxGateTime) \in Nat /\ WindowOf(gateClock) \in Nat
      BY <1>1, WindowsInOrder
    <2>. QED BY <2>1, <2>2 DEF Window, WindowOf
  <1>3. count \in 1..(Tries + 1) /\ attempts[w] <= count
        /\ (count <= Tries => count = attempts[w] + 1)
    BY <1>2, CountUpToType DEF GatesInv, GatesTypeOK
  <1>4. /\ attempts' = [attempts EXCEPT ![w] = count]
        /\ BecomeVisit(v, new)
        /\ compared' = IF count <= Tries /\ WindowOf(gateClock) = w
                       THEN [compared EXCEPT ![w] = @ + 1] ELSE compared
    BY DEF Consume, NextOf, Leave
  <1>5. new \in VisitState /\ VisitTells(new) /\ \A s \in Scope : new.seen[s] \in Views(s)
    <2>1. CASE count > Tries
      BY <2>1, NoVisitType, NothingTells
    <2>2. CASE ~(count > Tries)
      <3>1. new \in VisitState /\ new.pc = "read" /\ new.now = visit[v].now
            /\ new.code = visit[v].code /\ new.seen = visit[v].seen
        BY <2>2, RequestHolds DEF VisitState
      <3>. QED BY <3>1, RequestHolds DEF VisitTells, LetIn, Consume
    <2>. QED BY <2>1, <2>2
  <1>. HIDE DEF new
  <1>6. visit' \in [Visitor -> VisitState]
        /\ \A u \in Visitor : visit'[u] = IF u = v THEN new ELSE visit[u]
    BY <1>4, <1>5 DEF GatesInv, GatesTypeOK, BecomeVisit
  <1>. HIDE DEF count, w
  <1>7. /\ compared' \in [Window -> Nat] /\ attempts' \in [Window -> 0..(Tries + 1)]
        /\ \A x \in Window : attempts'[x] = (IF x = w THEN count ELSE attempts[x])
        /\ \A x \in Window : compared'[x] = IF x = w /\ count <= Tries /\ WindowOf(gateClock) = w
                                            THEN compared[x] + 1 ELSE compared[x]
    BY <1>2, <1>3, <1>4, GateLimitsAssumption DEF GatesInv, GatesTypeOK
  <1>8. GatesTypeOK'
    BY <1>0, <1>6, <1>7 DEF GatesInv, GatesTypeOK
  <1>9. ASSUME NEW x \in Window PROVE Counted(x)'
    <2>1. compared[x] \in Nat /\ attempts[x] \in Nat /\ x \in Nat /\ count \in Nat /\ Tries \in Nat
          /\ compared[x] <= Tries /\ (WindowOf(gateClock) <= x => compared[x] <= attempts[x])
      BY <1>3, WindowType, GateLimitsAssumption DEF GatesInv, GatesTypeOK, Counted
    <2>2. WindowOf(gateClock)' = WindowOf(gateClock)
      BY <1>0
    <2>3. CASE x # w
      <3>1. compared'[x] = compared[x] /\ attempts'[x] = attempts[x]
        BY <1>7, <2>3
      <3>. QED BY <2>1, <2>2, <3>1 DEF Counted
    <2>4. CASE x = w /\ count <= Tries /\ WindowOf(gateClock) = w
      <3>1. compared'[x] = compared[x] + 1 /\ attempts'[x] = attempts[x] + 1
            /\ attempts[x] + 1 <= Tries /\ WindowOf(gateClock) <= x
        BY <1>2, <1>3, <1>7, <2>4
      <3>. QED BY <2>1, <2>2, <3>1 DEF Counted
    <2>5. CASE x = w /\ ~(count <= Tries /\ WindowOf(gateClock) = w)
      <3>1. compared'[x] = compared[x] /\ attempts'[x] = count /\ attempts[x] <= count
        BY <1>3, <1>7, <2>5
      <3>. QED BY <2>1, <2>2, <3>1 DEF Counted
    <2>. QED BY <2>3, <2>4, <2>5
  <1>10. ASSUME NEW u \in Visitor PROVE VisitTells(visit[u])'
    <2>1. CASE u = v BY <1>0, <1>5, <1>6, <2>1 DEF VisitTells, LetIn
    <2>2. CASE u # v BY <1>0, <1>6, <2>2 DEF GatesInv, VisitTells, LetIn
    <2>. QED BY <2>1, <2>2
  <1>11. ASSUME NEW u \in Visitor, sessions[u] # NoRecord PROVE SessionTells(sessions[u])'
    <2>1. PICK x \in Session : x = sessions[u]
      BY <1>11 DEF GatesInv, GatesTypeOK
    <2>2. SessionTells(x)'
      BY <1>0, <1>4, <1>5, <1>11, <2>1, ViewsKept DEF GatesInv
    <2>. QED BY <1>0, <2>1, <2>2 DEF SessionTells
  <1>12. \A s \in Scope : RevisionNames(s)'
    BY <1>0, <1>4, <1>5, ViewsKept
  <1>. QED BY <1>0, <1>8, <1>9, <1>10, <1>11, <1>12 DEF GatesInv

\* The session of a code names the revision in which the code was found; the windows whose
\* count is deleted are over for every clock.
LEMMA IssueKept ==
  ASSUME GatesInv, NEW v \in Visitor, Issue(v), Matching(v) # {}
  PROVE  GatesInv'
  <1>1. PICK s \in Matching(v) :
          /\ sessions' = [u \in Visitor |->
               IF u = v
               THEN [scope |-> s, site |-> visit[v].site, revision |-> visit[v].seen[s].revision,
                     expires |-> visit[v].now + visit[v].seen[s].days, entered |-> visit[v].code]
               ELSE IF sessions[u] # NoRecord /\ sessions[u].expires <= visit[v].now
                    THEN NoRecord ELSE sessions[u]]
          /\ attempts' = [w \in Window |->
               IF (w + 1) * WindowLength <= visit[v].now THEN 0 ELSE attempts[w]]
    BY DEF Issue
  <1>2. UNCHANGED <<gateClock, access, switch, changes, editor, compared>> /\ BecomeVisit(v, NoVisit)
    BY DEF Issue, settings, Leave
  <1>3. s \in Scope /\ visit[v].seen[s].enabled /\ visit[v].seen[s].code = visit[v].code
        /\ visit[v].seen[s] \in AccessRow /\ visit[v].code \in Code /\ visit[v].site \in Site
        /\ visit[v].now \in Nat /\ visit[v].now <= gateClock
    BY RequestHolds, CodeScopesType DEF Matching, VisitState, VisitTells, Issue
  <1> DEFINE issued ==
        [scope |-> s, site |-> visit[v].site, revision |-> visit[v].seen[s].revision,
         expires |-> visit[v].now + visit[v].seen[s].days, entered |-> visit[v].code]
  <1>4. issued \in Session /\ issued.scope = s /\ issued.entered = visit[v].code
        /\ issued.revision = visit[v].seen[s].revision
    <2>1. visit[v].seen[s].days \in Nat /\ visit[v].seen[s].revision \in Nat
      BY <1>3, GateLimitsAssumption DEF AccessRow
    <2>. QED BY <1>3, <2>1 DEF Session
  <1>5. SessionTells(issued)
    <2>1. visit[v].seen[s] \in Views(s) /\ RevisionNames(s)
      BY <1>3, RequestHolds DEF GatesInv
    <2>. QED BY <1>3, <1>4, <2>1 DEF RevisionNames, SessionTells
  <1>. HIDE DEF issued
  <1>6. \A u \in Visitor : sessions'[u] \in {NoRecord, sessions[u], issued}
        /\ (sessions'[u] = issued \/ sessions'[u] = NoRecord \/ sessions'[u] = sessions[u])
    BY <1>1 DEF issued
  <1>7. sessions' \in [Visitor -> Session \cup {NoRecord}]
    <2>1. DOMAIN sessions' = Visitor /\ sessions' = [u \in Visitor |-> sessions'[u]]
      BY <1>1
    <2>2. \A u \in Visitor : sessions'[u] \in Session \cup {NoRecord}
      BY <1>4, <1>6 DEF GatesInv, GatesTypeOK
    <2>. QED BY <2>1, <2>2
  <1>8. attempts' \in [Window -> 0..(Tries + 1)]
    BY <1>1, GateLimitsAssumption DEF GatesInv, GatesTypeOK
  <1>9. visit' \in [Visitor -> VisitState]
        /\ \A u \in Visitor : visit'[u] = IF u = v THEN NoVisit ELSE visit[u]
    BY <1>2, NoVisitType DEF GatesInv, GatesTypeOK, BecomeVisit
  <1>10. GatesTypeOK'
    BY <1>2, <1>7, <1>8, <1>9 DEF GatesInv, GatesTypeOK
  <1>11. /\ \A t \in Scope : RevisionNames(t)'
         /\ \A x \in Session : SessionTells(x) => SessionTells(x)'
    BY <1>2, NothingTells, ViewsKept
  <1>12. ASSUME NEW u \in Visitor, sessions'[u] # NoRecord PROVE SessionTells(sessions[u])'
    <2>1. PICK x \in Session : x = sessions'[u]
      BY <1>7, <1>12
    <2>2. SessionTells(x)
      BY <1>5, <1>6, <1>12, <2>1 DEF GatesInv
    <2>3. SessionTells(x)'
      BY <1>11, <2>2
    <2>. QED BY <2>1, <2>3 DEF SessionTells
  <1>13. ASSUME NEW u \in Visitor PROVE VisitTells(visit[u])'
    <2>1. CASE u = v BY <1>2, <1>9, <2>1, NothingTells DEF VisitTells, LetIn
    <2>2. CASE u # v BY <1>2, <1>9, <2>2 DEF GatesInv, VisitTells, LetIn
    <2>. QED BY <2>1, <2>2
  <1>14. ASSUME NEW w \in Window PROVE Counted(w)'
    <2>1. gateClock \in Nat
      BY GateBoundsAssumption DEF GatesInv, GatesTypeOK
    <2>2. CASE (w + 1) * WindowLength <= visit[v].now
      <3>1. w \in Nat /\ WindowOf(visit[v].now) \in Nat /\ WindowOf(gateClock) \in Nat
            /\ w < WindowOf(visit[v].now) /\ WindowOf(visit[v].now) <= WindowOf(gateClock)
        BY <1>3, <2>1, <2>2, WindowType, WindowOver, WindowsInOrder
      <3>2. ~(WindowOf(gateClock) <= w)
        BY <3>1
      <3>. QED BY <1>2, <3>2 DEF GatesInv, Counted
    <2>3. CASE ~((w + 1) * WindowLength <= visit[v].now)
      <3>1. attempts'[w] = attempts[w]
        BY <1>1, <2>3
      <3>. QED BY <1>2, <3>1 DEF GatesInv, Counted
    <2>. QED BY <2>2, <2>3
  <1>. QED BY <1>10, <1>11, <1>12, <1>13, <1>14 DEF GatesInv

-----------------------------------------------------------------------------
(* The administrators and the clock.                                       *)

\* A step that leaves the requests and the settings of the codes alone.
LEMMA OthersKept ==
  ASSUME GatesInv, GatesTypeOK', UNCHANGED <<access, visits>>
  PROVE  GatesInv'
  <1>0. UNCHANGED <<access, gateClock, sessions, attempts, visit, compared>>
    BY DEF visits
  <1>1. \A s \in Scope : RevisionNames(s)'
    BY <1>0 DEF GatesInv, RevisionNames, Views
  <1>2. ASSUME NEW u \in Visitor, sessions'[u] # NoRecord PROVE SessionTells(sessions[u])'
    BY <1>0, <1>2 DEF GatesInv, SessionTells, Views
  <1>3. \A v \in Visitor : VisitTells(visit[v])'
    BY <1>0 DEF GatesInv, VisitTells, LetIn
  <1>4. \A w \in Window : Counted(w)'
    BY <1>0 DEF GatesInv, Counted
  <1>. QED BY <1>1, <1>2, <1>3, <1>4 DEF GatesInv

LEMMA BeginSaveKept ==
  ASSUME GatesInv, NEW e \in Editor, NEW scope \in Scope, NEW enabled \in BOOLEAN,
         NEW code \in Code \cup {NoCode}, NEW days \in Lifetimes,
         NEW expected \in 1..access[scope].revision,
         BeginSave(e, scope, enabled, code, days, expected)
  PROVE  GatesInv'
  <1>1. access[scope].revision \in Nat
    BY DEF GatesInv, GatesTypeOK, AccessRow
  <1>2. editor' \in [Editor -> EditState]
    BY <1>1 DEF BeginSave, BecomeEditor, GatesInv, GatesTypeOK, EditState
  <1>3. GatesTypeOK' /\ UNCHANGED <<access, visits>>
    BY <1>2 DEF BeginSave, visits, GatesInv, GatesTypeOK
  <1>. QED BY <1>3, OthersKept

LEMMA SaveAccessFailsKept ==
  ASSUME GatesInv, NEW e \in Editor, SaveAccessFails(e)
  PROVE  GatesInv'
  <1>1. GatesTypeOK' /\ UNCHANGED <<access, visits>>
    BY NoEditType DEF SaveAccessFails, BecomeEditor, visits, GatesInv, GatesTypeOK
  <1>. QED BY <1>1, OthersKept

LEMMA SaveMaintenanceKept ==
  ASSUME GatesInv, NEW t \in Tenant, NEW mode \in {"DISABLED", "ENABLED", "SCHEDULED"},
         NEW schedule \in Schedules, SaveMaintenance(t, mode, schedule)
  PROVE  GatesInv'
  <1>1. switch' \in [Tenant -> SwitchRow]
    <2>1. switch[t] \in SwitchRow
      BY DEF GatesInv, GatesTypeOK
    <2>2. [mode |-> mode,
           schedule |-> IF mode = "SCHEDULED" THEN schedule ELSE switch[t].schedule,
           revision |-> switch[t].revision + 1] \in SwitchRow
      BY <2>1 DEF SwitchRow
    <2>. QED BY <2>2 DEF SaveMaintenance, GatesInv, GatesTypeOK
  <1>2. changes' \in 0..MaxChanges
    BY GateBoundsAssumption DEF SaveMaintenance, Change, GatesInv, GatesTypeOK
  <1>3. GatesTypeOK' /\ UNCHANGED <<access, visits>>
    BY <1>1, <1>2 DEF SaveMaintenance, visits, GatesInv, GatesTypeOK
  <1>. QED BY <1>3, OthersKept

\* The revision a save makes is one that nobody has seen.
LEMMA FinishSaveKept ==
  ASSUME GatesInv, NEW e \in Editor, FinishSave(e)
  PROVE  GatesInv'
  <1>. PICK scope \in Scope : scope = editor[e].scope
    BY DEF GatesInv, GatesTypeOK, EditState
  <1> DEFINE old == access[scope]
             saved == [enabled |-> editor[e].enabled, code |-> CodeAfter(old, editor[e].code),
                       days |-> editor[e].days, revision |-> old.revision + 1]
  <1>0. UNCHANGED <<gateClock, sessions, attempts, visit, compared, switch>>
    BY DEF FinishSave, visits
  <1>1. editor[e] \in EditState /\ scope \in Scope /\ old \in AccessRow
    BY DEF GatesInv, GatesTypeOK, EditState
  <1>2. saved \in AccessRow /\ saved.revision = old.revision + 1 /\ old.revision \in Nat
    BY <1>1 DEF AccessRow, EditState, CodeAfter
  <1>3. access' = [access EXCEPT ![scope] = saved]
    BY DEF FinishSave
  <1>. HIDE DEF saved
  <1>4. access' \in [Scope -> AccessRow]
        /\ \A s \in Scope : access'[s] = IF s = scope THEN saved ELSE access[s]
    BY <1>1, <1>2, <1>3 DEF GatesInv, GatesTypeOK
  <1>5. changes' \in 0..MaxChanges /\ editor' \in [Editor -> EditState]
    BY NoEditType, GateBoundsAssumption
    DEF FinishSave, Change, BecomeEditor, GatesInv, GatesTypeOK
  <1>6. GatesTypeOK'
    BY <1>0, <1>4, <1>5 DEF GatesInv, GatesTypeOK
  <1>7. \A s \in Scope : s # scope => Views(s)' = Views(s)
    BY <1>0, <1>4 DEF Views
  <1>8. Views(scope)' \subseteq Views(scope) \cup {saved}
    BY <1>0, <1>1, <1>4 DEF Views
  <1>9. \A r \in Views(scope) : r.revision <= old.revision /\ r.revision \in Nat
    <2>1. \A r \in Views(scope) : r \in AccessRow
      BY <1>1, FreshType DEF Views, GatesInv, GatesTypeOK, VisitState
    <2>2. \A r \in Views(scope) : r.revision <= old.revision
      BY <1>1 DEF GatesInv, RevisionNames
    <2>. QED BY <2>1, <2>2 DEF AccessRow
  <1>10. ASSUME NEW s \in Scope PROVE RevisionNames(s)'
    <2>1. CASE s = scope
      <3>1. access'[s] = saved
        BY <1>4, <2>1
      <3>2. \A r \in Views(scope)' : r = saved \/ (r \in Views(scope) /\ r.revision < saved.revision)
        BY <1>2, <1>8, <1>9
      <3>3. \A r \in Views(scope)' : r.revision <= saved.revision
        BY <1>2, <1>9, <3>2
      <3>4. \A r, q \in Views(scope) : r.revision = q.revision => r = q
        BY <1>1 DEF GatesInv, RevisionNames
      <3>5. \A r, q \in Views(scope)' : r.revision = q.revision => r = q
        BY <1>2, <1>9, <3>2, <3>4
      <3>6. Views(s)' = Views(scope)'
        BY <1>0, <1>4, <2>1 DEF Views
      <3>. QED BY <3>1, <3>3, <3>5, <3>6 DEF RevisionNames
    <2>2. CASE s # scope
      BY <1>4, <1>7, <2>2 DEF GatesInv, RevisionNames
    <2>. QED BY <2>1, <2>2
  <1>11. ASSUME NEW u \in Visitor, sessions'[u] # NoRecord PROVE SessionTells(sessions[u])'
    <2>1. PICK x \in Session : x = sessions[u]
      BY <1>0, <1>11 DEF GatesInv, GatesTypeOK
    <2>2. SessionTells(x)
      BY <1>0, <1>11, <2>1 DEF GatesInv
    <2>3. SessionTells(x)'
      <3>1. CASE x.scope = scope
        <4>1. x.revision <= old.revision /\ x.revision \in Nat
              /\ \A r \in Views(scope) : r.revision = x.revision => r.enabled /\ r.code = x.entered
          BY <2>1, <2>2, <3>1 DEF SessionTells, Session
        <4>2. access'[x.scope] = saved /\ x.revision < saved.revision
          BY <1>1, <1>2, <1>4, <3>1, <4>1
        <4>3. \A r \in Views(scope)' : r.revision = x.revision => r.enabled /\ r.code = x.entered
          BY <1>2, <1>8, <4>1, <4>2
        <4>4. Views(x.scope)' = Views(scope)'
          BY <1>0, <1>4, <3>1 DEF Views
        <4>. QED BY <1>2, <4>1, <4>2, <4>3, <4>4 DEF SessionTells
      <3>2. CASE x.scope # scope
        <4>1. x.scope \in Scope BY <2>1 DEF Session
        <4>. QED BY <1>4, <1>7, <2>2, <3>2, <4>1 DEF SessionTells
      <3>. QED BY <3>1, <3>2
    <2>. QED BY <1>0, <2>1, <2>3 DEF SessionTells
  <1>12. \A v \in Visitor : VisitTells(visit[v])'
    BY <1>0 DEF GatesInv, VisitTells, LetIn
  <1>13. \A w \in Window : Counted(w)'
    BY <1>0 DEF GatesInv, Counted
  <1>. QED BY <1>6, <1>10, <1>11, <1>12, <1>13 DEF GatesInv

LEMMA GateTickKept ==
  ASSUME GatesInv, GateTick
  PROVE  GatesInv'
  <1>0. UNCHANGED <<access, sessions, attempts, visit, compared, switch, changes, editor>>
    BY DEF GateTick, settings
  <1>1. gateClock \in Nat /\ gateClock' = gateClock + 1 /\ gateClock' \in 0..MaxGateTime
        /\ gateClock' \in Nat
    BY GateBoundsAssumption DEF GateTick, GatesInv, GatesTypeOK
  <1>2. GatesTypeOK'
    BY <1>0, <1>1 DEF GatesInv, GatesTypeOK
  <1>3. \A s \in Scope : RevisionNames(s)'
    BY <1>0 DEF GatesInv, RevisionNames, Views
  <1>4. ASSUME NEW u \in Visitor, sessions'[u] # NoRecord PROVE SessionTells(sessions[u])'
    BY <1>0, <1>4 DEF GatesInv, SessionTells, Views
  <1>5. ASSUME NEW v \in Visitor PROVE VisitTells(visit[v])'
    <2>1. visit[v].now \in Nat /\ VisitTells(visit[v])
      BY RequestHolds DEF VisitState
    <2>2. visit'[v] = visit[v] /\ visit[v].now <= gateClock'
      BY <1>0, <1>1, <2>1 DEF VisitTells
    <2>. QED BY <2>1, <2>2 DEF VisitTells, LetIn
  <1>6. ASSUME NEW w \in Window PROVE Counted(w)'
    <2>1. WindowOf(gateClock) \in Nat /\ WindowOf(gateClock') \in Nat /\ w \in Nat
          /\ WindowOf(gateClock) <= WindowOf(gateClock')
      BY <1>1, WindowType, WindowsInOrder
    <2>2. compared[w] <= Tries /\ (WindowOf(gateClock) <= w => compared[w] <= attempts[w])
      BY DEF GatesInv, Counted
    <2>3. WindowOf(gateClock)' = WindowOf(gateClock')
      BY DEF WindowOf
    <2>. QED BY <1>0, <2>1, <2>2, <2>3 DEF Counted
  <1>. QED BY <1>2, <1>3, <1>4, <1>5, <1>6 DEF GatesInv

-----------------------------------------------------------------------------
(* The theorems.                                                           *)

LEMMA GatesStep ==
  ASSUME GatesInv, GatesNext
  PROVE  GatesInv'
  <1>1. ASSUME NEW v \in Visitor, VisitStep(v) PROVE GatesInv'
    <2>1. CASE \E site \in Site, code \in Code : EnterCode(v, site, code)
      BY <2>1, EnterCodeKept
    <2>2. CASE Consume(v) BY <2>2, ConsumeKept
    <2>3. CASE ReadForCode(v) BY <2>3, ReadForCodeKept
    <2>4. CASE Issue(v)
      <3>1. CASE Matching(v) # {} BY <2>4, <3>1, IssueKept
      <3>2. CASE Matching(v) = {} BY <2>4, <3>2, LeaveKept DEF Issue
      <3>. QED BY <3>1, <3>2
    <2>5. CASE \E site \in Site : Arrive(v, site) BY <2>5, ArriveKept
    <2>6. CASE ReadAccess(v) BY <2>6, ReadAccessKept
    <2>7. CASE CheckSession(v) BY <2>7, CheckSessionKept
    <2>8. CASE CheckMaintenance(v) BY <2>8, CheckMaintenanceKept
    <2>9. CASE GateFails(v) BY <2>9, GateFailsKept
    <2>. QED BY <1>1, <2>1, <2>2, <2>3, <2>4, <2>5, <2>6, <2>7, <2>8, <2>9 DEF VisitStep
  <1>2. ASSUME NEW e \in Editor, EditorStep(e) PROVE GatesInv'
    BY <1>2, BeginSaveKept, FinishSaveKept, SaveAccessFailsKept DEF EditorStep
  <1>3. ASSUME NEW t \in Tenant, NEW mode \in {"DISABLED", "ENABLED", "SCHEDULED"},
               NEW s \in Schedules, SaveMaintenance(t, mode, s)
        PROVE GatesInv'
    BY <1>3, SaveMaintenanceKept
  <1>. QED BY <1>1, <1>2, <1>3, GateTickKept DEF GatesNext

LEMMA GatesStutter ==
  ASSUME GatesInv, UNCHANGED gateVars
  PROVE  GatesInv'
  <1>1. UNCHANGED <<gateClock, access, sessions, attempts, switch, changes, visit, editor, compared>>
    BY DEF gateVars
  <1>2. GatesTypeOK' /\ UNCHANGED <<access, visits>>
    BY <1>1 DEF GatesInv, GatesTypeOK, visits
  <1>. QED BY <1>2, OthersKept

\* Whatever the visitors and the administrators do and however their calls interleave, the
\* state has its type, a revision names one version of a scope's settings, every session
\* holds the code of the version it names, and the attempts of a window that lasts count
\* every code that was compared in it.
THEOREM GatesHold == GatesSpec => []GatesInv
  <1>1. GatesInv /\ [GatesNext]_gateVars => GatesInv'
    BY GatesStep, GatesStutter
  <1>. QED BY InitGates, <1>1, PTL DEF GatesSpec

\* A page that is restricted is served only to a browser whose visitor entered the code that
\* was in force in the settings the request read (requirePublicAccess, hasSiteAccessSession,
\* issueSiteAccessSession), also when the code changed while it was being compared.
THEOREM OnlyCodesInForceOpen == GatesSpec => []CodeInForceOpens
  <1>1. GatesInv => CodeInForceOpens
    BY DEF GatesInv, VisitTells, LetIn, CodeInForceOpens
  <1>. QED BY GatesHold, <1>1, PTL

\* No more codes are compared in a window, while it lasts, than consumeAccessAttempt lets
\* through, although issueSiteAccessSession deletes rows of attempts by the clock of its call.
THEOREM TriesAreBounded == GatesSpec => []TriesPerWindow
  <1>1. GatesInv => TriesPerWindow
    BY DEF GatesInv, Counted, TriesPerWindow
  <1>. QED BY GatesHold, <1>1, PTL

-----------------------------------------------------------------------------
(* Password resets: the inductive invariant.                               *)

\* The requests that have passed a question and may still create a row.
Passed(question) ==
  {c \in ResetCall : /\ resetCall[c].pc \in {"count", "create"} /\ resetCall[c].admitted
                     /\ question \notin resetCall[c].open}

Recent == Since(Ago(resetClock, GlobalWindow))

\* Whoever passed a count found room, and at most Extra pass one beside the others.
RoomInAll == Cardinality(resets) + Cardinality(Passed("total")) < TotalLimit + Extra
RoomInWindow == Cardinality(Recent) + Cardinality(Passed("window")) < WindowLimit + Extra

\* What a request x holds.
ResetCallFits(x) ==
  /\ x.now <= resetClock
  /\ x.pc # "idle" => x.email \in Email
  /\ x.pc = "create" => x.admitted /\ x.open = {}

\* The rows of one address and one instant are numbered from 0.
Numbered == \A r \in resets : r.number < Cardinality(Twins(r.email, r.at))

ResetsInv ==
  /\ ResetsTypeOK
  /\ \A c \in ResetCall : ResetCallFits(resetCall[c])
  /\ RoomInAll /\ RoomInWindow /\ Numbered

-----------------------------------------------------------------------------
(* Password resets: counting.                                              *)

LEMMA AgoGrows ==
  ASSUME NEW t \in Nat, NEW u \in Nat, t <= u, NEW d \in Nat
  PROVE  Ago(t, d) \in Nat /\ Ago(u, d) \in Nat /\ Ago(t, d) <= Ago(u, d)
  BY DEF Ago

LEMMA ExtraType == Extra \in Nat
  BY ResetLimitsAssumption, FS_CardinalityType DEF Extra

\* No set of requests is larger than that of all.
LEMMA CallsCount ==
  ASSUME NEW S, S \subseteq ResetCall
  PROVE  IsFiniteSet(S) /\ Cardinality(S) \in Nat /\ Cardinality(S) <= Extra
  BY ResetLimitsAssumption, FS_Subset, FS_CardinalityType DEF Extra

LEMMA PassedCount ==
  ASSUME NEW question
  PROVE  /\ Passed(question) \subseteq ResetCall /\ IsFiniteSet(Passed(question))
         /\ Cardinality(Passed(question)) \in Nat /\ Cardinality(Passed(question)) <= Extra
  BY CallsCount DEF Passed

\* Fewer rows count less.
LEMMA Fewer ==
  ASSUME NEW S, IsFiniteSet(S), NEW T, T \subseteq S
  PROVE  /\ IsFiniteSet(T) /\ Cardinality(T) \in Nat /\ Cardinality(S) \in Nat
         /\ Cardinality(T) <= Cardinality(S)
  BY FS_Subset, FS_CardinalityType

LEMMA OneRowMore ==
  ASSUME NEW S, IsFiniteSet(S), NEW x
  PROVE  /\ IsFiniteSet(S \cup {x}) /\ Cardinality(S) \in Nat /\ Cardinality(S \cup {x}) \in Nat
         /\ Cardinality(S \cup {x}) <= Cardinality(S) + 1
         /\ x \notin S => Cardinality(S \cup {x}) = Cardinality(S) + 1
  <1>1. Cardinality(S) \in Nat
    BY FS_CardinalityType
  <1>2. /\ IsFiniteSet(S \cup {x})
        /\ Cardinality(S \cup {x}) = Cardinality(S) \/ Cardinality(S \cup {x}) = Cardinality(S) + 1
        /\ x \notin S => Cardinality(S \cup {x}) = Cardinality(S) + 1
    BY FS_AddElement
  <1>. QED BY <1>1, <1>2

LEMMA RowsCount ==
  ASSUME ResetsInv
  PROVE  /\ IsFiniteSet(resets) /\ Cardinality(resets) \in Nat
         /\ \A t : IsFiniteSet(Since(t)) /\ Cardinality(Since(t)) \in Nat
         /\ \A e, t : IsFiniteSet(Twins(e, t)) /\ Cardinality(Twins(e, t)) \in Nat
  BY Fewer, FS_CardinalityType DEF ResetsInv, ResetsTypeOK, Since, Twins

LEMMA ResetLimits ==
  /\ TotalLimit \in Nat /\ TotalLimit > 0 /\ WindowLimit \in Nat /\ WindowLimit > 0
  /\ DuplicateWindow \in Nat /\ GlobalWindow \in Nat /\ ResetRetention \in Nat /\ MaxResetTime \in Nat
  BY ResetLimitsAssumption

LEMMA InitResets == ResetsInit => ResetsInv
  <1> SUFFICES ASSUME ResetsInit PROVE ResetsInv
    OBVIOUS
  <1>1. ResetsTypeOK
    BY ResetLimits, FS_EmptySet DEF ResetsInit, ResetsTypeOK, NoReset, ResetCallState
  <1>2. \A c \in ResetCall : ResetCallFits(resetCall[c])
    BY DEF ResetsInit, NoReset, ResetCallFits
  <1>3. Passed("total") = {} /\ Passed("window") = {} /\ Recent = {}
    BY DEF ResetsInit, NoReset, Passed, Recent, Since
  <1>4. RoomInAll /\ RoomInWindow
    BY <1>3, FS_EmptySet, ExtraType, ResetLimits DEF ResetsInit, RoomInAll, RoomInWindow
  <1>5. Numbered
    BY DEF ResetsInit, Numbered
  <1>. QED BY <1>1, <1>2, <1>4, <1>5 DEF ResetsInv

\* A request, as the invariant has it.
LEMMA ResetRequest ==
  ASSUME ResetsInv, NEW c \in ResetCall
  PROVE  /\ resetCall[c] \in ResetCallState /\ ResetCallFits(resetCall[c])
         /\ resetCall[c].now \in Nat /\ resetClock \in Nat
  BY ResetLimits DEF ResetsInv, ResetsTypeOK, ResetCallState

LEMMA NoResetType ==
  ResetsInv => NoReset \in ResetCallState /\ NoReset.pc = "idle" /\ ResetCallFits(NoReset)
  BY ResetLimits DEF ResetsInv, ResetsTypeOK, NoReset, ResetCallState, ResetCallFits

-----------------------------------------------------------------------------
(* Password resets: the steps.                                             *)

\* A count that lets a request pass found room; so did everybody before it.
LEMMA CallPasses ==
  ASSUME ResetsInv, NEW c \in ResetCall, NEW new \in ResetCallState, BecomeReset(c, new),
         ResetCallFits(new), UNCHANGED <<resetClock, resets>>,
         \A question \in {"total", "window"} :
           new.pc \in {"count", "create"} /\ new.admitted /\ question \notin new.open =>
             c \in Passed(question) \/ Admitted(c, question)
  PROVE  ResetsInv'
  <1>1. resetCall' \in [ResetCall -> ResetCallState]
        /\ \A d \in ResetCall : resetCall'[d] = IF d = c THEN new ELSE resetCall[d]
    BY DEF ResetsInv, ResetsTypeOK, BecomeReset
  <1>2. ResetsTypeOK'
    BY <1>1 DEF ResetsInv, ResetsTypeOK
  <1>3. \A d \in ResetCall : ResetCallFits(resetCall[d])'
    BY <1>1 DEF ResetsInv, ResetCallFits
  <1>4. \A question \in {"total", "window"} :
          Passed(question)' \subseteq Passed(question) \/ Admitted(c, question)
    BY <1>1 DEF Passed
  <1>5. ASSUME NEW question \in {"total", "window"}
        PROVE  /\ Cardinality(Passed(question)') \in Nat /\ Cardinality(Passed(question)') <= Extra
               /\ Cardinality(Passed(question)) \in Nat
               /\ ~Admitted(c, question) =>
                    Cardinality(Passed(question)') <= Cardinality(Passed(question))
    <2>1. Passed(question)' \subseteq ResetCall
      BY DEF Passed
    <2>. QED BY <1>4, <2>1, CallsCount, PassedCount, Fewer
  <1>6. RoomInAll'
    <2>1. Cardinality(resets) \in Nat /\ (Admitted(c, "total") => Cardinality(resets) < TotalLimit)
      BY RowsCount DEF Admitted
    <2>2. Cardinality(resets) + Cardinality(Passed("total")') < TotalLimit + Extra
      BY <1>5, <2>1, ExtraType, ResetLimits DEF ResetsInv, RoomInAll
    <2>. QED BY <2>2 DEF RoomInAll, Extra
  <1>7. RoomInWindow'
    <2>1. Recent \subseteq Since(Ago(resetCall[c].now, GlobalWindow))
      <3>1. Ago(resetCall[c].now, GlobalWindow) \in Nat /\ Ago(resetClock, GlobalWindow) \in Nat
            /\ Ago(resetCall[c].now, GlobalWindow) <= Ago(resetClock, GlobalWindow)
        <4>1. resetCall[c].now \in Nat /\ resetClock \in Nat /\ resetCall[c].now <= resetClock
          BY ResetRequest DEF ResetCallFits
        <4>. QED BY <4>1, ResetLimits, AgoGrows
      <3>2. \A r \in resets : r.at \in Nat
        BY DEF ResetsInv, ResetsTypeOK, ResetRow
      <3>. QED BY <3>1, <3>2 DEF Recent, Since
    <2>2. Cardinality(Recent) \in Nat /\ (Admitted(c, "window") => Cardinality(Recent) < WindowLimit)
      <3>1. /\ Cardinality(Recent) \in Nat
            /\ Cardinality(Since(Ago(resetCall[c].now, GlobalWindow))) \in Nat
            /\ Cardinality(Recent) <= Cardinality(Since(Ago(resetCall[c].now, GlobalWindow)))
        BY <2>1, RowsCount, Fewer
      <3>2. Admitted(c, "window") =>
              Cardinality(Since(Ago(resetCall[c].now, GlobalWindow))) < WindowLimit
        BY DEF Admitted
      <3>. QED BY <3>1, <3>2, ResetLimits
    <2>3. Cardinality(Recent) + Cardinality(Passed("window")') < WindowLimit + Extra
      BY <1>5, <2>2, ExtraType, ResetLimits DEF ResetsInv, RoomInWindow
    <2>. QED BY <2>3 DEF RoomInWindow, Extra, Recent, Since
  <1>8. Numbered'
    BY DEF ResetsInv, Numbered, Twins
  <1>. QED BY <1>2, <1>3, <1>6, <1>7, <1>8 DEF ResetsInv

LEMMA AskResetKept ==
  ASSUME ResetsInv, NEW c \in ResetCall, NEW email \in Email, AskReset(c, email)
  PROVE  ResetsInv'
  <1> DEFINE new == [NoReset EXCEPT !.pc = "purge", !.email = email, !.now = resetClock]
  <1>1. new \in ResetCallState /\ new.pc = "purge" /\ new.email = email /\ new.now = resetClock
    BY ResetRequest DEF NoReset, ResetCallState
  <1>2. ResetCallFits(new)
    BY <1>1, ResetRequest DEF ResetCallFits
  <1>3. BecomeReset(c, new) /\ UNCHANGED <<resetClock, resets>>
    BY DEF AskReset
  <1>. HIDE DEF new
  <1>. QED BY <1>1, <1>2, <1>3, CallPasses

LEMMA ResetFailsKept ==
  ASSUME ResetsInv, NEW c \in ResetCall, BecomeReset(c, NoReset),
         UNCHANGED <<resetClock, resets>>
  PROVE  ResetsInv'
  BY NoResetType, CallPasses

LEMMA AnswerKept ==
  ASSUME ResetsInv, NEW c \in ResetCall, NEW question \in Question, Answer(c, question)
  PROVE  ResetsInv'
  <1> DEFINE admitted == resetCall[c].admitted /\ Admitted(c, question)
             waits == [resetCall[c] EXCEPT !.open = @ \ {question}, !.admitted = admitted]
             goes == [resetCall[c] EXCEPT !.pc = "create", !.open = {}]
  <1>0. resetCall[c].pc = "count" /\ UNCHANGED <<resetClock, resets>>
    BY DEF Answer
  <1>1. CASE resetCall[c].open # {question} /\ BecomeReset(c, waits)
    <2>0. admitted \in BOOLEAN
      BY ResetRequest DEF ResetCallState
    <2>1. /\ waits \in ResetCallState /\ waits.pc = "count" /\ waits.now = resetCall[c].now
          /\ waits.email = resetCall[c].email /\ waits.admitted = admitted
          /\ waits.open = resetCall[c].open \ {question}
      BY <1>0, <2>0, ResetRequest DEF ResetCallState
    <2>2. ResetCallFits(waits)
      BY <1>0, <2>1, ResetRequest DEF ResetCallFits
    <2>3. \A other \in {"total", "window"} :
            waits.admitted /\ other \notin waits.open => c \in Passed(other) \/ Admitted(c, other)
      BY <1>0, <2>1 DEF Passed
    <2>. HIDE DEF waits
    <2>. QED BY <1>0, <1>1, <2>1, <2>2, <2>3, CallPasses
  <1>2. CASE resetCall[c].open = {question} /\ admitted /\ BecomeReset(c, goes)
    <2>1. /\ goes \in ResetCallState /\ goes.pc = "create" /\ goes.now = resetCall[c].now
          /\ goes.email = resetCall[c].email /\ goes.admitted = resetCall[c].admitted
          /\ goes.open = {}
      BY ResetRequest DEF ResetCallState
    <2>2. ResetCallFits(goes)
      BY <1>0, <1>2, <2>1, ResetRequest DEF ResetCallFits
    <2>3. \A other \in {"total", "window"} : c \in Passed(other) \/ Admitted(c, other)
      BY <1>0, <1>2 DEF Passed
    <2>. HIDE DEF goes
    <2>. QED BY <1>0, <1>2, <2>1, <2>2, <2>3, CallPasses
  <1>3. CASE BecomeReset(c, NoReset)
    BY <1>0, <1>3, ResetFailsKept
  <1>. QED BY <1>1, <1>2, <1>3 DEF Answer

\* Rows of one address and one instant go together.
LEMMA PurgeKept ==
  ASSUME ResetsInv, NEW c \in ResetCall, Purge(c)
  PROVE  ResetsInv'
  <1>. PICK t \in Nat : t = Ago(resetCall[c].now, ResetRetention)
    <2>1. resetCall[c].now \in Nat /\ resetCall[c].now <= resetCall[c].now
      BY ResetRequest
    <2>2. Ago(resetCall[c].now, ResetRetention) \in Nat
      BY <2>1, ResetLimits, AgoGrows
    <2>. QED BY <2>2
  <1> DEFINE new == [resetCall[c] EXCEPT !.pc = "count", !.open = Question]
  <1>0. resetCall[c].pc = "purge" /\ UNCHANGED resetClock
        /\ resets' = {r \in resets : r.at >= t}
    BY DEF Purge, Since
  <1>1. /\ new \in ResetCallState /\ new.pc = "count" /\ new.now = resetCall[c].now
        /\ new.email = resetCall[c].email /\ new.open = Question
    BY ResetRequest DEF ResetCallState
  <1>2. resetCall' \in [ResetCall -> ResetCallState]
        /\ \A d \in ResetCall : resetCall'[d] = IF d = c THEN new ELSE resetCall[d]
    BY <1>1 DEF Purge, ResetsInv, ResetsTypeOK, BecomeReset
  <1>. HIDE DEF new
  <1>3. resets' \subseteq resets /\ IsFiniteSet(resets')
    BY <1>0, RowsCount, Fewer
  <1>4. ResetsTypeOK'
    BY <1>0, <1>2, <1>3 DEF ResetsInv, ResetsTypeOK
  <1>5. \A d \in ResetCall : ResetCallFits(resetCall[d])'
    BY <1>0, <1>1, <1>2 DEF ResetsInv, ResetCallFits
  <1>6. \A question \in {"total", "window"} : Passed(question)' \subseteq Passed(question)
    BY <1>1, <1>2 DEF Passed, Question
  <1>7. Recent' \subseteq Recent
    BY <1>0 DEF Recent, Since
  <1>8. RoomInAll'
    <2>1. /\ Cardinality(resets') \in Nat /\ Cardinality(resets) \in Nat
          /\ Cardinality(resets') <= Cardinality(resets)
      BY <1>3, RowsCount, Fewer
    <2>2. /\ Cardinality(Passed("total")') \in Nat /\ Cardinality(Passed("total")) \in Nat
          /\ Cardinality(Passed("total")') <= Cardinality(Passed("total"))
      BY <1>6, PassedCount, Fewer
    <2>3. Cardinality(resets') + Cardinality(Passed("total")') < TotalLimit + Extra
      BY <2>1, <2>2, ExtraType, ResetLimits DEF ResetsInv, RoomInAll
    <2>. QED BY <2>3 DEF RoomInAll, Extra
  <1>9. RoomInWindow'
    <2>1. /\ Cardinality(Recent') \in Nat /\ Cardinality(Recent) \in Nat
          /\ Cardinality(Recent') <= Cardinality(Recent)
      BY <1>7, RowsCount, Fewer DEF Recent
    <2>2. /\ Cardinality(Passed("window")') \in Nat /\ Cardinality(Passed("window")) \in Nat
          /\ Cardinality(Passed("window")') <= Cardinality(Passed("window"))
      BY <1>6, PassedCount, Fewer
    <2>3. Cardinality(Recent') + Cardinality(Passed("window")') < WindowLimit + Extra
      BY <2>1, <2>2, ExtraType, ResetLimits DEF ResetsInv, RoomInWindow
    <2>. QED BY <2>3 DEF RoomInWindow, Extra
  <1>10. Numbered'
    <2>1. ASSUME NEW r \in resets' PROVE Twins(r.email, r.at)' = Twins(r.email, r.at)
      BY <1>0 DEF Twins
    <2>. QED BY <1>3, <2>1 DEF ResetsInv, Numbered, Twins
  <1>. QED BY <1>4, <1>5, <1>8, <1>9, <1>10 DEF ResetsInv

\* The new row is one more.
LEMMA CreatedIsNew ==
  ASSUME ResetsInv, NEW email, NEW t
  PROVE  [email |-> email, at |-> t, number |-> Cardinality(Twins(email, t))] \notin resets
  <1> DEFINE row == [email |-> email, at |-> t, number |-> Cardinality(Twins(email, t))]
  <1> SUFFICES ASSUME row \in resets PROVE FALSE
    OBVIOUS
  <1>1. row.number < Cardinality(Twins(row.email, row.at))
    BY DEF ResetsInv, Numbered
  <1>2. Cardinality(Twins(email, t)) \in Nat
    BY RowsCount
  <1>. QED BY <1>1, <1>2

\* A request that creates its row had passed both counts.
LEMMA CreateResetKept ==
  ASSUME ResetsInv, NEW c \in ResetCall, CreateReset(c)
  PROVE  ResetsInv'
  <1>. PICK email \in Email : email = resetCall[c].email
    BY ResetRequest DEF CreateReset, ResetCallFits
  <1>. PICK t \in Nat : t = resetClock
    BY ResetRequest
  <1>. PICK n \in Nat : n = Cardinality(Twins(email, t))
    BY RowsCount
  <1>. PICK row \in ResetRow : row.email = email /\ row.at = t /\ row.number = n
                               /\ row = [email |-> email, at |-> t, number |-> n]
    BY DEF ResetRow
  <1>0. resetCall[c].pc = "create" /\ UNCHANGED resetClock
        /\ resets' = resets \cup {row} /\ row \notin resets
    BY CreatedIsNew DEF CreateReset
  <1>1. resetCall' \in [ResetCall -> ResetCallState]
        /\ \A d \in ResetCall : resetCall'[d] = IF d = c THEN NoReset ELSE resetCall[d]
    BY NoResetType DEF CreateReset, ResetsInv, ResetsTypeOK, BecomeReset
  <1>2. IsFiniteSet(resets') /\ Cardinality(resets') = Cardinality(resets) + 1
        /\ Cardinality(resets) \in Nat
    BY <1>0, RowsCount, OneRowMore
  <1>3. ResetsTypeOK'
    BY <1>0, <1>1, <1>2 DEF ResetsInv, ResetsTypeOK
  <1>4. \A d \in ResetCall : ResetCallFits(resetCall[d])'
    BY <1>0, <1>1, NoResetType DEF ResetsInv, ResetCallFits
  <1>5. ASSUME NEW question \in {"total", "window"}
        PROVE  /\ Cardinality(Passed(question)') = Cardinality(Passed(question)) - 1
               /\ Cardinality(Passed(question)') \in Nat /\ Cardinality(Passed(question)) \in Nat
    <2>1. c \in Passed(question)
      BY <1>0, ResetRequest DEF Passed, ResetCallFits
    <2>2. Passed(question)' = Passed(question) \ {c}
      BY <1>1, NoResetType DEF Passed
    <2>3. Passed(question)' \subseteq ResetCall
      BY DEF Passed
    <2>. QED BY <2>1, <2>2, <2>3, CallsCount, PassedCount, FS_RemoveElement
  <1>6. RoomInAll'
    <2>1. Cardinality(resets') + Cardinality(Passed("total")') < TotalLimit + Extra
      BY <1>2, <1>5, ExtraType, ResetLimits DEF ResetsInv, RoomInAll
    <2>. QED BY <2>1 DEF RoomInAll, Extra
  <1>7. RoomInWindow'
    <2>1. Recent' \subseteq Recent \cup {row}
      BY <1>0 DEF Recent, Since
    <2>2. /\ Cardinality(Recent') \in Nat /\ Cardinality(Recent) \in Nat
          /\ Cardinality(Recent') <= Cardinality(Recent) + 1
      <3>1. IsFiniteSet(Recent) /\ Cardinality(Recent) \in Nat
        BY RowsCount DEF Recent
      <3>2. IsFiniteSet(Recent \cup {row}) /\ Cardinality(Recent \cup {row}) <= Cardinality(Recent) + 1
        BY <3>1, OneRowMore
      <3>. QED BY <2>1, <3>1, <3>2, Fewer
    <2>3. Cardinality(Recent') + Cardinality(Passed("window")') < WindowLimit + Extra
      BY <1>5, <2>2, ExtraType, ResetLimits DEF ResetsInv, RoomInWindow
    <2>. QED BY <2>3 DEF RoomInWindow, Extra
  <1>8. Numbered'
    <2>1. ASSUME NEW r \in resets' PROVE r.number < Cardinality(Twins(r.email, r.at)')
      <3>1. CASE r.email = email /\ r.at = t
        <4>1. Twins(r.email, r.at)' = Twins(email, t) \cup {row} /\ row \notin Twins(email, t)
          BY <1>0, <3>1 DEF Twins
        <4>2. Cardinality(Twins(r.email, r.at)') = n + 1
          BY <4>1, RowsCount, OneRowMore
        <4>3. r = row \/ r.number < n
          BY <1>0, <3>1 DEF ResetsInv, Numbered
        <4>4. r.number \in Nat
          BY <1>3 DEF ResetsTypeOK, ResetRow
        <4>. QED BY <4>2, <4>3, <4>4
      <3>2. CASE ~(r.email = email /\ r.at = t)
        <4>1. r \in resets /\ Twins(r.email, r.at)' = Twins(r.email, r.at)
          BY <1>0, <3>2 DEF Twins
        <4>. QED BY <4>1 DEF ResetsInv, Numbered
      <3>. QED BY <3>1, <3>2
    <2>. QED BY <2>1 DEF Numbered, Twins
  <1>. QED BY <1>3, <1>4, <1>6, <1>7, <1>8 DEF ResetsInv

LEMMA ResetTickKept ==
  ASSUME ResetsInv, ResetTick
  PROVE  ResetsInv'
  <1>1. resetClock \in Nat /\ resetClock' = resetClock + 1 /\ resetClock' \in 0..MaxResetTime
        /\ resetClock' \in Nat /\ UNCHANGED <<resets, resetCall>>
    BY ResetLimits DEF ResetTick, ResetsInv, ResetsTypeOK
  <1>2. ResetsTypeOK'
    BY <1>1 DEF ResetsInv, ResetsTypeOK
  <1>3. ASSUME NEW c \in ResetCall PROVE ResetCallFits(resetCall[c])'
    BY <1>1, ResetRequest DEF ResetCallFits
  <1>4. \A question : Passed(question)' = Passed(question)
    BY <1>1 DEF Passed
  <1>5. RoomInAll'
    BY <1>1, <1>4 DEF ResetsInv, RoomInAll, Extra
  <1>6. RoomInWindow'
    <2>1. Ago(resetClock, GlobalWindow) \in Nat /\ Ago(resetClock', GlobalWindow) \in Nat
          /\ Ago(resetClock, GlobalWindow) <= Ago(resetClock', GlobalWindow)
      BY <1>1, ResetLimits, AgoGrows
    <2>2. \A r \in resets : r.at \in Nat
      BY DEF ResetsInv, ResetsTypeOK, ResetRow
    <2>3. Recent' = {r \in resets : r.at >= Ago(resetClock', GlobalWindow)}
      BY <1>1 DEF Recent, Since, Ago
    <2>4. Recent' \subseteq Recent
      BY <2>1, <2>2, <2>3 DEF Recent, Since
    <2>5. /\ Cardinality(Recent') \in Nat /\ Cardinality(Recent) \in Nat
          /\ Cardinality(Recent') <= Cardinality(Recent)
      BY <2>4, RowsCount, Fewer DEF Recent
    <2>6. Cardinality(Recent') + Cardinality(Passed("window")') < WindowLimit + Extra
      BY <1>4, <2>5, PassedCount, ExtraType, ResetLimits DEF ResetsInv, RoomInWindow
    <2>. QED BY <2>6 DEF RoomInWindow, Extra
  <1>7. Numbered'
    BY <1>1 DEF ResetsInv, Numbered, Twins
  <1>. QED BY <1>2, <1>3, <1>5, <1>6, <1>7 DEF ResetsInv

-----------------------------------------------------------------------------
(* Password resets: the theorems.                                          *)

LEMMA ResetsStep ==
  ASSUME ResetsInv, ResetsNext
  PROVE  ResetsInv'
  <1>1. ASSUME NEW c \in ResetCall, ResetFails(c) PROVE ResetsInv'
    BY <1>1, ResetFailsKept DEF ResetFails
  <1>. QED BY <1>1, AskResetKept, PurgeKept, AnswerKept, CreateResetKept, ResetTickKept
           DEF ResetsNext

LEMMA ResetsStutter ==
  ASSUME ResetsInv, UNCHANGED resetVars
  PROVE  ResetsInv'
  <1>1. UNCHANGED <<resetClock, resets, resetCall>>
    BY DEF resetVars
  <1>. QED BY <1>1 DEF ResetsInv, ResetsTypeOK, ResetCallFits, RoomInAll, RoomInWindow, Passed,
                   Recent, Since, Ago, Extra, Numbered, Twins

\* The rows together with the requests that have passed a count, and may still add one, stay
\* below the limit and the number of requests the server works on at one time.
THEOREM PassedRequestsCount == ResetsSpec => []ResetsInv
  <1>1. ResetsInv /\ [ResetsNext]_resetVars => ResetsInv'
    BY ResetsStep, ResetsStutter
  <1>. QED BY InitResets, <1>1, PTL DEF ResetsSpec

\* What the public form stores stays bounded, whatever requests pass the counts of
\* createBoundedPasswordResetRequest together.
THEOREM StorageIsBounded == ResetsSpec => []ResetsBounded
  <1>1. ResetsInv => ResetsBounded
    <2> SUFFICES ASSUME ResetsInv PROVE ResetsBounded
      OBVIOUS
    <2>1. /\ Cardinality(resets) \in Nat /\ Cardinality(Recent) \in Nat /\ Extra \in Nat
          /\ Cardinality(Passed("total")) \in Nat /\ Cardinality(Passed("window")) \in Nat
      BY RowsCount, PassedCount, ExtraType DEF Recent
    <2>. QED BY <2>1, ResetLimits DEF ResetsInv, RoomInAll, RoomInWindow, ResetsBounded, Recent
  <1>. QED BY PassedRequestsCount, <1>1, PTL
===============================================================================
