---------------------------- MODULE GroupSyncProofs ----------------------------
(***************************************************************************)
(* Proofs about RegistrationGroupSync for any registrations, calls,        *)
(* operators, lists, accounts and contacts, any lease, and any bounds;     *)
(* then about RegularGroupSync for any members, operations, calls and      *)
(* clerks, any waits and any bounds.                                       *)
(***************************************************************************)
EXTENDS RegistrationGroupSync, RegularGroupSync, TLAPS

-----------------------------------------------------------------------------
(* Registrations: the inductive invariant.                                 *)

Making == {"check", "list", "recheck", "create"}
Listed == {"list", "recheck", "create", "update", "store", "readBack", "confirm", "commit"}
Holding == {"update", "store", "readBack", "confirm", "commit"}
Claimed == Making \cup Holding \cup {"catch"}

\* Call w may still make a contact for registration m in revision r of the group.
Maker(w, m, r) ==
  /\ call[w].pc \in Making /\ call[w].contact = None
  /\ call[w].member = m /\ call[w].rev = r

Untouched(m, r) == created[<<m, r>>] = 0 /\ \A w \in Call : ~Maker(w, m, r)

\* Revisions and versions are bounded by the acts of people.
Counted ==
  /\ group.rev <= changes
  /\ \A m \in Member : source[m].version <= changes
  /\ \A m \in Member, r \in Revision : r > group.rev => created[<<m, r>>] = 0

\* What a call holds at each of its steps.
CallOK(w) ==
  LET st == call[w]
  IN  /\ st.pc \notin {"idle", "done"} => st.member \in Member /\ st.rev <= group.rev
      /\ st.pc \in Listed =>
           /\ st.list \in List /\ st.source.data # None
           /\ st.rev = group.rev => st.list = group.list
      /\ st.pc \in Listed \ {"list"} /\ st.contact # None =>
           contact[st.contact] # None /\ contact[st.contact].list = st.list
      /\ st.pc \in Holding => st.contact # None
      /\ st.pc = "create" => st.contact = None
      /\ st.pc \in {"create", "update", "store"} => st.wrote = TRUE

\* The call whose token is in a row has not ended, and nobody has bound the group to
\* another list; it ends with a row that may be tried again only if nothing was made.
TokenOK(m) ==
  LET st == call[row[m].token]
  IN  row[m].token # None =>
        /\ st.pc \in Claimed /\ st.member = m /\ st.rev = group.rev
        /\ st.pc \in Making => row[m].contact = st.contact
        /\ st.pc \in Holding \ {"store"} => row[m].contact # None
        /\ st.pc = "catch" /\ row[m].contact = None
             /\ StatusAfter(st.code, st.wrote) # "UNKNOWN" => Untouched(m, group.rev)

\* A call that may make a contact is the only one, and nothing has been made.
MakerOK(w) ==
  \A m \in Member, r \in Revision :
    Maker(w, m, r) =>
      /\ created[<<m, r>>] = 0
      /\ \A v \in Call : v # w => ~Maker(v, m, r)

\* A row that may be claimed and has no contact has none in the contact centre either.
RowOK(m) ==
  row[m].contact = None /\ row[m].status \notin {"SYNCING", "UNKNOWN"} =>
    Untouched(m, group.rev)

\* A call that may make a contact holds its row, or its row is unknown, or an operator
\* has decided about it.
WaitOK(w) ==
  \A m \in Member, r \in Revision :
    Maker(w, m, r) =>
      \/ r # group.rev /\ call[w].pc # "create"
      \/ row[m].attested
      \/ /\ r = group.rev
         /\ \/ row[m].token = w
            \/ row[m].status = "UNKNOWN" /\ row[m].contact = None

LinkOK(o) ==
  LET k == link[o]
  IN  k.pc = "store" =>
        /\ k.member \in Member /\ k.contact \in Contact /\ k.data \in Data
        /\ k.rev <= group.rev /\ contact[k.contact] # None
        /\ k.rev = group.rev => contact[k.contact].list = group.list

CallsOK == \A w \in Call : CallOK(w) /\ MakerOK(w) /\ WaitOK(w)
RowsOK == \A m \in Member : TokenOK(m) /\ RowOK(m)
LinksOK == \A o \in Operator : LinkOK(o)

Inv ==
  /\ TypeOK /\ Counted /\ CallsOK /\ RowsOK /\ LinksOK
  /\ CreatedOnce /\ ContactOfBoundList

-----------------------------------------------------------------------------
(* Steps that change what a call holds, and nothing else.                  *)

Only(w, new) ==
  /\ Become(w, new)
  /\ UNCHANGED <<clock, changes, people, group, row, contact, created, link>>

LEMMA InvInit == Init => Inv
  <1> SUFFICES ASSUME Init PROVE Inv
    OBVIOUS
  <1>1. TypeOK
    <2>1. Idle \in CallState
      BY BoundsAssumption DEF Idle, CallState, Pc, Version, Revision, NoSource, Source
    <2>2. NoLink \in LinkState
      BY BoundsAssumption DEF NoLink, LinkState, Version, Revision, NoSource, Source
    <2>3. row \in [Member -> Row]
      BY BoundsAssumption DEF Init, Row, Status, Version, Revision
    <2>4. source \in [Member -> Source]
      BY BoundsAssumption DEF Init, Source, Revision
    <2>5. \A m \in Member : row[m].status = "SYNCING" <=> row[m].token # None
      BY DEF Init
    <2>6. clock \in 0..MaxTime /\ changes \in 0..MaxChanges /\ account \in Account
      BY BoundsAssumption, AccountAssumption DEF Init
    <2>7. group \in [rev : Revision, list : List \cup {None}]
      BY BoundsAssumption DEF Init, Revision
    <2>8. contact \in [Contact -> ContactRow \cup {None}] BY DEF Init
    <2>9. created \in [Member \X Revision -> Nat] BY DEF Init
    <2>10. call \in [Call -> CallState] BY <2>1 DEF Init
    <2>11. link \in [Operator -> LinkState] BY <2>2 DEF Init
    <2>. QED
      BY <2>3, <2>4, <2>5, <2>6, <2>7, <2>8, <2>9, <2>10, <2>11 DEF TypeOK
  <1>2. \A m \in Member, r \in Revision, w \in Call : ~Maker(w, m, r)
    BY DEF Init, Maker, Idle, Making
  <1>3. Counted BY BoundsAssumption DEF Init, Counted, Source, Revision
  <1>4. \A w \in Call : CallOK(w)
    BY DEF Init, CallOK, Idle, Listed, Holding
  <1>5. \A m \in Member : TokenOK(m) BY DEF Init, TokenOK
  <1>6. \A m \in Member : Untouched(m, group.rev)
    BY <1>2, BoundsAssumption DEF Init, Untouched, Revision
  <1>. QED
    BY <1>1, <1>2, <1>3, <1>4, <1>5, <1>6
    DEF Init, Inv, CallsOK, RowsOK, LinksOK, MakerOK, WaitOK, RowOK, LinkOK, NoLink,
        CreatedOnce, ContactOfBoundList

LEMMA CallMoves ==
  ASSUME Inv, NEW w \in Call, NEW new \in CallState, Only(w, new), CallOK(w)',
         \A m \in Member, r \in Revision : Maker(w, m, r)' => Maker(w, m, r),
         new.pc = "create" => new.rev = group.rev,
         \A m \in Member : row[m].token = w => TokenOK(m)'
  PROVE  Inv'
  <1>1. call \in [Call -> CallState] /\ call' = [call EXCEPT ![w] = new]
    BY DEF Inv, TypeOK, Only, Become
  <1>2. call'[w] = new /\ \A v \in Call \ {w} : call'[v] = call[v]
    BY <1>1
  <1>3. UNCHANGED <<clock, changes, account, source, group, row, contact, created, link>>
    BY DEF Only, people
  <1>4. TypeOK' BY <1>1, <1>3 DEF Inv, TypeOK
  <1>5. Counted' BY <1>3 DEF Inv, Counted
  <1>6. \A v \in Call, m \in Member, r \in Revision : Maker(v, m, r)' => Maker(v, m, r)
    BY <1>2 DEF Maker
  <1>7. \A v \in Call : CallOK(v)'
    BY <1>2, <1>3 DEF Inv, CallsOK, CallOK
  <1>8. \A v \in Call : MakerOK(v)'
    BY <1>3, <1>6 DEF Inv, CallsOK, MakerOK
  <1>9. \A v \in Call : WaitOK(v)'
    <2> SUFFICES ASSUME NEW v \in Call, NEW m \in Member, NEW r \in Revision, Maker(v, m, r)'
                 PROVE  \/ r # group.rev /\ call'[v].pc # "create"
                        \/ row[m].attested
                        \/ /\ r = group.rev
                           /\ \/ row[m].token = v
                              \/ row[m].status = "UNKNOWN" /\ row[m].contact = None
      BY <1>3 DEF WaitOK
    <2>1. Maker(v, m, r) BY <1>6
    <2>2. CASE v # w BY <1>2, <2>1, <2>2 DEF Inv, CallsOK, WaitOK
    <2>3. CASE v = w
      <3>1. call'[v].rev = r BY DEF Maker
      <3>. QED BY <1>2, <2>1, <2>3, <3>1 DEF Inv, CallsOK, WaitOK
    <2>. QED BY <2>2, <2>3
  <1>10. \A m \in Member : Untouched(m, group.rev) => Untouched(m, group.rev)'
    <2>1. group.rev \in Revision BY DEF Inv, TypeOK
    <2>. QED BY <1>3, <1>6, <2>1 DEF Untouched
  <1>11. \A m \in Member : TokenOK(m)'
    <2> SUFFICES ASSUME NEW m \in Member PROVE TokenOK(m)'
      OBVIOUS
    <2>1. CASE row[m].token = w BY <2>1
    <2>2. CASE row[m].token # w
      <3>1. row[m].token \in Call \cup {None} BY DEF Inv, TypeOK, Row
      <3>2. TokenOK(m) BY DEF Inv, RowsOK
      <3>3. row[m].token # None => call'[row[m].token] = call[row[m].token]
        BY <1>2, <2>2, <3>1
      <3>. QED BY <1>3, <1>10, <3>2, <3>3 DEF TokenOK
    <2>. QED BY <2>1, <2>2
  <1>12. \A m \in Member : RowOK(m)' BY <1>3, <1>10 DEF Inv, RowsOK, RowOK
  <1>13. LinksOK' BY <1>3 DEF Inv, LinksOK, LinkOK
  <1>14. CreatedOnce' /\ ContactOfBoundList'
    BY <1>3 DEF Inv, CreatedOnce, ContactOfBoundList
  <1>. QED
    BY <1>4, <1>5, <1>7, <1>8, <1>9, <1>11, <1>12, <1>13, <1>14 DEF Inv, CallsOK, RowsOK

\* A call that throws keeps its claim; its row may be tried again only if the call was the
\* one that could have made a contact, and did not.
LEMMA ThrowMoves ==
  ASSUME Inv, NEW w \in Call, NEW code \in Error, call[w].pc \in Making \cup Holding,
         call[w].pc = "store" => code = "REFUSED",
         Throw(w, code),
         UNCHANGED <<clock, changes, people, group, row, contact, created, link>>
  PROVE  Inv'
  <1> DEFINE new == [call[w] EXCEPT !.pc = "catch", !.code = code]
  <1>1. call[w] \in CallState BY DEF Inv, TypeOK
  <1>2. new \in CallState /\ new.pc = "catch" /\ new.code = code /\ new.member = call[w].member
          /\ new.rev = call[w].rev /\ new.wrote = call[w].wrote /\ new.contact = call[w].contact
    BY <1>1, ZenonT(40) DEF CallState, Pc
  <1>3. Only(w, new) BY DEF Only, Throw
  <1>4. call'[w] = new BY DEF Throw, Become, Inv, TypeOK
  <1>5. UNCHANGED <<group, row, contact, created>> OBVIOUS
  <1> HIDE DEF new
  <1>6. CallOK(w)'
    <2>1. CallOK(w) /\ call[w].pc \notin {"idle", "done"} BY DEF Inv, CallsOK, Making, Holding
    <2>. QED BY <1>2, <1>4, <1>5, <2>1 DEF CallOK, Listed, Holding
  <1>7. \A m \in Member, r \in Revision : ~Maker(w, m, r)'
    BY <1>2, <1>4 DEF Maker, Making
  <1>8. ASSUME NEW m \in Member, row[m].token = w PROVE TokenOK(m)'
    <2>1. TokenOK(m) /\ row[m].token # None BY <1>8, NoneAssumption DEF Inv, RowsOK
    <2>2. call[w].member = m /\ call[w].rev = group.rev BY <1>8, <2>1 DEF TokenOK
    <2>3. ASSUME row[m].contact = None, StatusAfter(code, call[w].wrote) # "UNKNOWN"
          PROVE  Untouched(m, group.rev)'
      <3>1. CASE call[w].pc \in Making
        <4>1. group.rev \in Revision BY DEF Inv, TypeOK
        <4>2. Maker(w, m, group.rev) BY <1>8, <2>1, <2>2, <2>3, <3>1 DEF TokenOK, Maker
        <4>3. created[<<m, group.rev>>] = 0 /\ \A v \in Call : v # w => ~Maker(v, m, group.rev)
          BY <4>1, <4>2 DEF Inv, CallsOK, MakerOK
        <4>4. \A v \in Call : v # w => call'[v] = call[v]
          BY DEF Throw, Become, Inv, TypeOK
        <4>5. \A v \in Call : v # w => ~Maker(v, m, group.rev)'
          BY <1>5, <4>3, <4>4 DEF Maker
        <4>. QED BY <1>5, <1>7, <4>1, <4>3, <4>5 DEF Untouched
      <3>2. CASE call[w].pc \in Holding \ {"store"} BY <1>8, <2>1, <2>3, <3>2 DEF TokenOK
      <3>3. CASE call[w].pc = "store"
        <4>1. call[w].wrote = TRUE BY <3>3 DEF Inv, CallsOK, CallOK
        <4>2. StatusAfter("REFUSED", TRUE) = "UNKNOWN"
          BY DEF StatusAfter, Definite, HttpStatus
        <4>. QED BY <2>3, <3>3, <4>1, <4>2
      <3>. QED BY <3>1, <3>2, <3>3
    <2>. QED
      BY <1>2, <1>4, <1>5, <1>8, <2>1, <2>2, <2>3 DEF TokenOK, Claimed, Making, Holding
  <1>. QED BY <1>2, <1>3, <1>6, <1>7, <1>8, CallMoves

LEMMA StartStep ==
  ASSUME Inv, NEW w \in Call, NEW m \in Member, Start(w, m)
  PROVE  Inv'
  <1> DEFINE new == [call[w] EXCEPT !.pc = "claim", !.member = m, !.rev = group.rev,
                                    !.version = row[m].version]
  <1>1. call[w] \in CallState /\ row[m] \in Row /\ group.rev \in Revision /\ group.rev \in Nat
    BY DEF Inv, TypeOK, Revision
  <1>2. new \in CallState /\ new.pc = "claim" /\ new.member = m /\ new.rev = group.rev
    BY <1>1 DEF CallState, Row, Pc
  <1>3. Only(w, new) BY DEF Only, Start
  <1>4. call'[w] = new BY <1>3 DEF Only, Become, Inv, TypeOK
  <1>5. UNCHANGED <<group, row>> BY <1>3 DEF Only
  <1>6. call[w].pc = "idle" BY DEF Start
  <1> HIDE DEF new
  <1>7. CallOK(w)' BY <1>1, <1>2, <1>4, <1>5 DEF CallOK, Listed, Holding
  <1>8. \A n \in Member, r \in Revision : ~Maker(w, n, r)'
    BY <1>2, <1>4 DEF Maker, Making
  <1>9. \A n \in Member : row[n].token # w
    BY <1>6, NoneAssumption DEF Inv, RowsOK, TokenOK, Claimed, Making, Holding
  <1>. QED BY <1>2, <1>3, <1>7, <1>8, <1>9, CallMoves

\* A call that ends has given its claim back, or never had one.
LEMMA EndMoves ==
  ASSUME Inv, NEW w \in Call, End(w), \A m \in Member : row[m].token # w,
         UNCHANGED <<clock, changes, people, group, row, contact, created, link>>
  PROVE  Inv'
  <1> DEFINE new == [Idle EXCEPT !.pc = "done"]
  <1>1. new \in CallState /\ new.pc = "done"
    <2>1. Idle \in CallState
      BY BoundsAssumption DEF Idle, CallState, Pc, Version, Revision, NoSource, Source
    <2>. QED BY <2>1 DEF CallState, Pc
  <1>2. Only(w, new) BY DEF Only, End
  <1>3. call'[w] = new BY <1>2 DEF Only, Become, Inv, TypeOK
  <1> HIDE DEF new
  <1>4. CallOK(w)' BY <1>1, <1>3 DEF CallOK, Listed, Holding
  <1>5. \A m \in Member, r \in Revision : ~Maker(w, m, r)' BY <1>1, <1>3 DEF Maker, Making
  <1>. QED BY <1>1, <1>2, <1>4, <1>5, CallMoves

LEMMA NotClaimed ==
  ASSUME Inv, NEW w \in Call, call[w].pc \notin Claimed
  PROVE  \A m \in Member : row[m].token # w
  BY NoneAssumption DEF Inv, RowsOK, TokenOK

LEMMA SkipStep ==
  ASSUME Inv, NEW w \in Call, Skip(w)
  PROVE  Inv'
  <1>1. call[w].pc \notin Claimed BY DEF Skip, Claimed, Making, Holding
  <1>. QED BY <1>1, NotClaimed, EndMoves DEF Skip

\* A call that goes on, without becoming one that may make a contact.
LEMMA GoMoves ==
  ASSUME Inv, NEW w \in Call, NEW new \in CallState, Only(w, new), CallOK(w)',
         call[w].pc \in Claimed, call[w].pc # "catch", new.pc \in Claimed \ {"catch"},
         new.member = call[w].member, new.rev = call[w].rev, new.contact = call[w].contact,
         new.pc \in Making => call[w].pc \in Making,
         new.pc = "create" => new.rev = group.rev,
         new.pc \in Holding \ {"store"} =>
           \A m \in Member : row[m].token = w => row[m].contact # None
  PROVE  Inv'
  <1>1. call'[w] = new BY DEF Only, Become, Inv, TypeOK
  <1>2. UNCHANGED <<group, row>> BY DEF Only
  <1>3. \A m \in Member, r \in Revision : Maker(w, m, r)' => Maker(w, m, r)
    BY <1>1 DEF Maker
  <1>4. ASSUME NEW m \in Member, row[m].token = w PROVE TokenOK(m)'
    <2>1. TokenOK(m) /\ row[m].token # None BY <1>4, NoneAssumption DEF Inv, RowsOK
    <2>2. new.pc # "catch" OBVIOUS
    <2>. QED BY <1>1, <1>2, <1>4, <2>1, <2>2 DEF TokenOK
  <1>. QED BY <1>3, <1>4, CallMoves

LEMMA CheckStep ==
  ASSUME Inv, NEW w \in Call, Check(w)
  PROVE  Inv'
  <1> DEFINE m == call[w].member
             new == [call[w] EXCEPT !.pc = "list", !.source = source[m],
                                    !.list = group.list, !.account = account]
  <1>1. call[w].pc = "check" /\ call[w].pc \in Making BY DEF Check, Making
  <1>2. UNCHANGED <<clock, changes, people, group, row, contact, created, link>> BY DEF Check
  <1>3. CASE \E code \in Error : Throw(w, code) BY <1>1, <1>2, <1>3, ThrowMoves
  <1>4. CASE /\ source[m].data # None /\ Configured /\ group.rev = call[w].rev
             /\ Become(w, new)
    <2>1. call[w] \in CallState /\ m \in Member /\ source[m] \in Source
            /\ group.list \in List /\ account \in Account
      BY <1>1, <1>4 DEF Inv, TypeOK, CallsOK, CallOK, Configured
    <2>2. /\ new \in CallState /\ new.pc = "list" /\ new.member = m /\ new.rev = call[w].rev
          /\ new.contact = call[w].contact /\ new.source = source[m] /\ new.list = group.list
      BY <2>1 DEF CallState, Pc
    <2>3. Only(w, new) BY <1>2, <1>4 DEF Only
    <2>4. call'[w] = new BY <2>3 DEF Only, Become, Inv, TypeOK
    <2> HIDE DEF new
    <2>5. CallOK(w)'
      BY <1>1, <1>2, <1>4, <2>1, <2>2, <2>4 DEF Inv, CallsOK, CallOK, Listed, Holding
    <2>. QED BY <1>1, <2>2, <2>3, <2>5, GoMoves DEF Claimed, Making, Holding
  <1>. QED
    <2>1. "CONSENT_WITHDRAWN" \in Error /\ "REFUSED" \in Error BY DEF Error
    <2>. QED BY <1>3, <1>4, <2>1 DEF Check

LEMMA ReadListStep ==
  ASSUME Inv, NEW w \in Call, ReadList(w)
  PROVE  Inv'
  <1> DEFINE st == call[w]
             c == st.contact
             new == [st EXCEPT !.pc = "recheck", !.seen = contact[c].data]
             same == [st EXCEPT !.pc = "recheck"]
  <1>1. st.pc = "list" /\ st.pc \in Making BY DEF ReadList, Making
  <1>2. UNCHANGED <<clock, changes, people, group, row, contact, created, link>> BY DEF ReadList
  <1>3. st \in CallState /\ CallOK(w) BY DEF Inv, TypeOK, CallsOK
  <1>4. CASE \E code \in Error : Throw(w, code) BY <1>1, <1>2, <1>4, ThrowMoves
  <1>5. CASE c = None /\ Go(w, "recheck")
    <2>1. same \in CallState /\ same.pc = "recheck" /\ same.contact = None
            /\ same.member = st.member /\ same.rev = st.rev /\ same.list = st.list
            /\ same.source = st.source
      BY <1>3, <1>5 DEF CallState, Pc
    <2>2. Only(w, same) BY <1>2, <1>5 DEF Only, Go
    <2>3. call'[w] = same BY <2>2 DEF Only, Become, Inv, TypeOK
    <2> HIDE DEF same
    <2>4. CallOK(w)'
      BY <1>1, <1>2, <1>3, <2>1, <2>3 DEF CallOK, Listed, Holding
    <2>. QED BY <1>1, <1>5, <2>1, <2>2, <2>4, GoMoves DEF Claimed, Making, Holding
  <1>6. CASE c # None /\ InList(c, st.list) /\ Become(w, new)
    <2>1. contact[c] # None /\ contact[c].list = st.list /\ contact[c].data \in Data
      BY <1>3, <1>6 DEF InList, Inv, TypeOK, CallState, ContactRow
    <2>2. new \in CallState /\ new.pc = "recheck" /\ new.contact = c
            /\ new.member = st.member /\ new.rev = st.rev /\ new.list = st.list
            /\ new.source = st.source
      BY <1>3, <2>1, ZenonT(40) DEF CallState, Pc
    <2>3. Only(w, new) BY <1>2, <1>6 DEF Only
    <2>4. call'[w] = new BY <2>3 DEF Only, Become, Inv, TypeOK
    <2> HIDE DEF new
    <2>5. CallOK(w)'
      BY <1>1, <1>2, <1>3, <2>1, <2>2, <2>4 DEF CallOK, Listed, Holding
    <2>. QED BY <1>1, <2>2, <2>3, <2>5, GoMoves DEF Claimed, Making, Holding
  <1>. QED
    <2>1. "RECONCILIATION" \in Error /\ "PROVIDER_RESOURCE_CHANGED" \in Error BY DEF Error
    <2>. QED BY <1>4, <1>5, <1>6, <2>1 DEF ReadList

\* While a call holds a row and has not written, the row has the contact it read.
LEMMA HeldContact ==
  ASSUME Inv, NEW w \in Call, NEW m \in Member, row[m].token = w
  PROVE  /\ m = call[w].member /\ call[w].rev = group.rev
         /\ call[w].pc \in Making => row[m].contact = call[w].contact
         /\ call[w].pc \in Holding \ {"store"} => row[m].contact # None
  BY NoneAssumption DEF Inv, RowsOK, TokenOK

LEMMA RecheckStep ==
  ASSUME Inv, NEW w \in Call, Recheck(w)
  PROVE  Inv'
  <1> DEFINE st == call[w]
             to(p) == [st EXCEPT !.pc = p, !.wrote = TRUE]
             same == [st EXCEPT !.pc = "readBack"]
  <1>1. st.pc = "recheck" /\ st.pc \in Making BY DEF Recheck, Making
  <1>2. UNCHANGED <<clock, changes, people, group, row, contact, created, link>> BY DEF Recheck
  <1>3. st \in CallState /\ CallOK(w) BY DEF Inv, TypeOK, CallsOK
  <1>4. CASE Throw(w, "REFUSED")
    <2>1. "REFUSED" \in Error BY DEF Error
    <2>. QED BY <1>1, <1>2, <1>4, <2>1, ThrowMoves
  <1>5. ASSUME NEW p \in {"create", "update"}, Become(w, to(p)), group.rev = st.rev,
               p = "create" <=> st.contact = None
        PROVE  Inv'
    <2>1. /\ to(p) \in CallState /\ to(p).pc = p /\ to(p).wrote = TRUE
          /\ to(p).contact = st.contact /\ to(p).member = st.member /\ to(p).rev = st.rev
          /\ to(p).list = st.list /\ to(p).source = st.source
      BY <1>3, ZenonT(40) DEF CallState, Pc
    <2>2. Only(w, to(p)) BY <1>2, <1>5 DEF Only
    <2>3. call'[w] = to(p) BY <2>2 DEF Only, Become, Inv, TypeOK
    <2> HIDE DEF to
    <2>4. CallOK(w)'
      BY <1>1, <1>2, <1>3, <1>5, <2>1, <2>3 DEF CallOK, Listed, Holding
    <2>5. p = "update" => \A m \in Member : row[m].token = w => row[m].contact # None
      BY <1>1, <1>5, HeldContact
    <2>. QED BY <1>1, <1>5, <2>1, <2>2, <2>4, <2>5, GoMoves DEF Claimed, Making, Holding
  <1>6. CASE Go(w, "readBack") /\ st.contact # None
    <2>1. /\ same \in CallState /\ same.pc = "readBack"
          /\ same.contact = st.contact /\ same.member = st.member /\ same.rev = st.rev
          /\ same.list = st.list /\ same.source = st.source
      BY <1>3 DEF CallState, Pc
    <2>2. Only(w, same) BY <1>2, <1>6 DEF Only, Go
    <2>3. call'[w] = same BY <2>2 DEF Only, Become, Inv, TypeOK
    <2> HIDE DEF same
    <2>4. CallOK(w)'
      BY <1>1, <1>2, <1>3, <1>6, <2>1, <2>3 DEF CallOK, Listed, Holding
    <2>5. \A m \in Member : row[m].token = w => row[m].contact # None
      BY <1>1, <1>6, HeldContact
    <2>. QED BY <1>1, <2>1, <2>2, <2>4, <2>5, GoMoves DEF Claimed, Making, Holding
  <1>. QED BY <1>4, <1>5, <1>6 DEF Recheck

LEMMA FailSteps ==
  ASSUME Inv, NEW w \in Call, Break(w) \/ Refuse(w)
  PROVE  Inv'
  <1>1. CASE Break(w)
    <2>1. "REFUSED" \in Error BY DEF Error
    <2>. QED BY <1>1, <2>1, ThrowMoves DEF Break, Making, Holding
  <1>2. CASE Refuse(w)
    <2>1. PICK code \in {"NOT_FOUND", "RATE_LIMITED", "RESULT_UNKNOWN"} : Throw(w, code)
      BY <1>2 DEF Refuse
    <2>2. code \in Error BY DEF Error
    <2>. QED BY <1>2, <2>1, <2>2, ThrowMoves DEF Refuse, Making, Holding
  <1>. QED BY <1>1, <1>2

\* Steps of a call that has its contact.
LEMMA HavingMoves ==
  ASSUME Inv, NEW w \in Call, NEW p \in Holding \ {"store", "update"}, Go(w, p),
         call[w].pc \in Holding,
         call[w].pc = "store" => row[call[w].member].token # w,
         UNCHANGED <<clock, changes, people, group, row, contact, created, link>>
  PROVE  Inv'
  <1> DEFINE st == call[w]
             same == [st EXCEPT !.pc = p]
  <1>1. st \in CallState /\ CallOK(w) BY DEF Inv, TypeOK, CallsOK
  <1>2. /\ same \in CallState /\ same.pc = p
        /\ same.contact = st.contact /\ same.member = st.member /\ same.rev = st.rev
        /\ same.list = st.list /\ same.source = st.source
    BY <1>1 DEF CallState, Pc, Holding
  <1>3. Only(w, same) BY DEF Only, Go
  <1>4. call'[w] = same BY <1>3 DEF Only, Become, Inv, TypeOK
  <1>5. UNCHANGED <<group, row, contact>> OBVIOUS
  <1> HIDE DEF same
  <1>6. CallOK(w)' BY <1>1, <1>2, <1>4, <1>5 DEF CallOK, Listed, Holding
  <1>7. \A m \in Member : row[m].token = w => row[m].contact # None BY HeldContact
  <1>. QED BY <1>2, <1>3, <1>6, <1>7, GoMoves DEF Claimed, Making, Holding

LEMMA ReadBackStep ==
  ASSUME Inv, NEW w \in Call, ReadBack(w) \/ Confirm(w)
  PROVE  Inv'
  <1>1. UNCHANGED <<clock, changes, people, group, row, contact, created, link>>
    BY DEF ReadBack, Confirm
  <1>2. call[w].pc \in {"readBack", "confirm"} BY DEF ReadBack, Confirm
  <1>3. CASE Throw(w, "REFUSED")
    <2>1. "REFUSED" \in Error BY DEF Error
    <2>. QED BY <1>1, <1>2, <1>3, <2>1, ThrowMoves DEF Holding
  <1>4. CASE \E p \in {"confirm", "commit"} : Go(w, p)
    BY <1>1, <1>2, <1>4, HavingMoves DEF Holding
  <1>. QED BY <1>3, <1>4 DEF ReadBack, Confirm

-----------------------------------------------------------------------------
(* Steps that write the row of a registration.                             *)

LEMMA FewerMakers ==
  ASSUME Inv, NEW w \in Call, NEW new, Become(w, new), new.pc \notin Making, UNCHANGED created
  PROVE  /\ \A v \in Call : MakerOK(v)'
         /\ \A v \in Call, m \in Member, r \in Revision : Maker(v, m, r)' => Maker(v, m, r)
         /\ \A m \in Member, r \in Revision : ~Maker(w, m, r)'
  <1>1. call'[w] = new /\ \A v \in Call \ {w} : call'[v] = call[v]
    BY DEF Become, Inv, TypeOK
  <1>2. \A m \in Member, r \in Revision : ~Maker(w, m, r)' BY <1>1 DEF Maker
  <1>3. \A v \in Call, m \in Member, r \in Revision : Maker(v, m, r)' => Maker(v, m, r)
    BY <1>1, <1>2 DEF Maker
  <1>. QED BY <1>2, <1>3 DEF Inv, CallsOK, MakerOK

LEMMA RowMoves ==
  ASSUME Inv, NEW w \in Call, NEW new \in CallState, Become(w, new),
         NEW m \in Member, NEW r \in Row, Put(m, r),
         UNCHANGED <<clock, changes, people, group, contact, created, link>>,
         r.status = "SYNCING" <=> r.token # None,
         CallOK(w)', TokenOK(m)', RowOK(m)',
         \A n \in Member \ {m} : row[n].token # w,
         \A n \in Member \ {m}, q \in Revision : ~Maker(w, n, q)',
         \A v \in Call : MakerOK(v)' /\ WaitOK(v)',
         r.contact # None => /\ r.bound = group.rev /\ contact[r.contact] # None
                             /\ contact[r.contact].list = group.list
  PROVE  Inv'
  <1>1. call' = [call EXCEPT ![w] = new] /\ row' = [row EXCEPT ![m] = r] BY DEF Become, Put
  <1>2. call'[w] = new /\ \A v \in Call \ {w} : call'[v] = call[v]
    BY <1>1 DEF Inv, TypeOK
  <1>3. row'[m] = r /\ \A n \in Member \ {m} : row'[n] = row[n]
    BY <1>1 DEF Inv, TypeOK
  <1>4. UNCHANGED <<clock, changes, account, source, group, contact, created, link>> BY DEF people
  <1>5. TypeOK'
    <2>1. call' \in [Call -> CallState] /\ row' \in [Member -> Row] BY <1>1 DEF Inv, TypeOK
    <2>2. \A n \in Member : row'[n].status = "SYNCING" <=> row'[n].token # None
      BY <1>3 DEF Inv, TypeOK
    <2>. QED BY <1>4, <2>1, <2>2 DEF Inv, TypeOK
  <1>6. Counted' BY <1>4 DEF Inv, Counted
  <1>7. \A v \in Call : CallOK(v)' BY <1>2, <1>4 DEF Inv, CallsOK, CallOK
  <1>8. \A n \in Member \ {m} : Untouched(n, group.rev) => Untouched(n, group.rev)'
    <2>1. group.rev \in Revision BY DEF Inv, TypeOK
    <2>2. \A n \in Member, v \in Call \ {w} : Maker(v, n, group.rev)' => Maker(v, n, group.rev)
      BY <1>2, <1>4 DEF Maker
    <2>. QED BY <1>4, <2>1, <2>2 DEF Untouched
  <1>9. \A n \in Member : TokenOK(n)' /\ RowOK(n)'
    <2> SUFFICES ASSUME NEW n \in Member \ {m} PROVE TokenOK(n)' /\ RowOK(n)'
      OBVIOUS
    <2>1. row'[n] = row[n] /\ row[n].token \in (Call \ {w}) \cup {None}
      BY <1>3 DEF Inv, TypeOK, Row
    <2>2. TokenOK(n) /\ RowOK(n) BY DEF Inv, RowsOK
    <2>3. row[n].token # None => call'[row[n].token] = call[row[n].token] BY <1>2, <2>1
    <2>. QED BY <1>4, <1>8, <2>1, <2>2, <2>3 DEF TokenOK, RowOK
  <1>10. LinksOK' BY <1>4 DEF Inv, LinksOK, LinkOK
  <1>11. CreatedOnce' /\ ContactOfBoundList'
    BY <1>3, <1>4 DEF Inv, CreatedOnce, ContactOfBoundList
  <1>. QED BY <1>5, <1>6, <1>7, <1>9, <1>10, <1>11 DEF Inv, CallsOK, RowsOK

\* The holder of a row gives nobody else's wait up.
LEMMA HolderWaits ==
  ASSUME Inv, NEW w \in Call, NEW new \in CallState, Become(w, new), new.pc \notin Making,
         NEW m \in Member, NEW r \in Row, Put(m, r), row[m].token = w,
         r.attested = row[m].attested, UNCHANGED <<group, created>>
  PROVE  \A v \in Call : WaitOK(v)'
  <1> SUFFICES ASSUME NEW v \in Call, NEW n \in Member, NEW q \in Revision, Maker(v, n, q)'
               PROVE  \/ q # group.rev /\ call'[v].pc # "create"
                      \/ row'[n].attested
                      \/ /\ q = group.rev
                         /\ \/ row'[n].token = v
                            \/ row'[n].status = "UNKNOWN" /\ row'[n].contact = None
    BY DEF WaitOK
  <1>1. v # w /\ Maker(v, n, q) BY FewerMakers
  <1>2. call'[v] = call[v] BY <1>1 DEF Become, Inv, TypeOK
  <1>3. row'[m] = r /\ \A k \in Member \ {m} : row'[k] = row[k] BY DEF Put, Inv, TypeOK
  <1>4. \/ q # group.rev /\ call[v].pc # "create"
        \/ row[n].attested
        \/ /\ q = group.rev
           /\ \/ row[n].token = v
              \/ row[n].status = "UNKNOWN" /\ row[n].contact = None
    BY <1>1 DEF Inv, CallsOK, WaitOK
  <1>5. CASE n # m BY <1>2, <1>3, <1>4, <1>5
  <1>6. CASE n = m
    <2>1. row[m].status = "SYNCING" BY NoneAssumption DEF Inv, TypeOK
    <2>. QED BY <1>1, <1>2, <1>3, <1>4, <1>6, <2>1
  <1>. QED BY <1>5, <1>6

LEMMA EndState ==
  ASSUME Inv, NEW w \in Call, End(w)
  PROVE  \E new \in CallState : Become(w, new) /\ new.pc = "done" /\ CallOK(w)'
  <1> DEFINE new == [Idle EXCEPT !.pc = "done"]
  <1>1. new \in CallState /\ new.pc = "done"
    <2>1. Idle \in CallState
      BY BoundsAssumption DEF Idle, CallState, Pc, Version, Revision, NoSource, Source
    <2>. QED BY <2>1 DEF CallState, Pc
  <1>2. Become(w, new) BY DEF End
  <1>3. call'[w] = new BY <1>2 DEF Become, Inv, TypeOK
  <1> HIDE DEF new
  <1>4. CallOK(w)' BY <1>1, <1>3 DEF CallOK, Listed, Holding
  <1>. QED BY <1>1, <1>2, <1>4

LEMMA ReleaseClaimStep ==
  ASSUME Inv, NEW w \in Call, ReleaseClaim(w)
  PROVE  Inv'
  <1>1. PICK m \in Member : m = call[w].member
    BY DEF ReleaseClaim, Inv, CallsOK, CallOK
  <1> DEFINE r == [row[m] EXCEPT !.status = "UNKNOWN", !.token = None, !.until = 0,
                                 !.version = @ + 1]
  <1>2. call[w].pc = "claim" /\ Expired(row[m]) /\ Put(m, r) BY <1>1 DEF ReleaseClaim
  <1>3. r \in Row /\ r.status = "UNKNOWN" /\ r.token = None /\ r.contact = row[m].contact
          /\ r.bound = row[m].bound /\ r.attested = row[m].attested
    <2>1. row[m] \in Row BY DEF Inv, TypeOK
    <2>2. row[m].version + 1 \in Version BY <2>1 DEF Row, Version
    <2>3. r \in Row BY <2>1, <2>2 DEF Row, Status
    <2>. QED BY <2>1, <2>3 DEF Row
  <1>4. UNCHANGED <<clock, changes, people, group, contact, created, link>> BY DEF ReleaseClaim
  <1>5. PICK new \in CallState : Become(w, new) /\ new.pc = "done" /\ CallOK(w)'
    BY EndState DEF ReleaseClaim
  <1> HIDE DEF r
  <1>6. \A n \in Member : row[n].token # w
    BY <1>2, NotClaimed DEF Claimed, Making, Holding
  <1>7. new.pc \notin Making BY <1>5 DEF Making
  <1>8. row'[m] = r /\ \A n \in Member \ {m} : row'[n] = row[n]
    BY <1>2 DEF Put, Inv, TypeOK
  <1>9. TokenOK(m)' /\ RowOK(m)' BY <1>3, <1>8 DEF TokenOK, RowOK
  <1>10. ASSUME NEW v \in Call PROVE WaitOK(v)'
    <2> SUFFICES ASSUME NEW n \in Member, NEW q \in Revision, Maker(v, n, q)'
                 PROVE  \/ q # group.rev /\ call'[v].pc # "create"
                        \/ row'[n].attested
                        \/ /\ q = group.rev
                           /\ \/ row'[n].token = v
                              \/ row'[n].status = "UNKNOWN" /\ row'[n].contact = None
      BY <1>4 DEF WaitOK
    <2>1. v # w /\ Maker(v, n, q) BY <1>4, <1>5, <1>7, FewerMakers
    <2>2. call'[v] = call[v] BY <1>5, <2>1 DEF Become, Inv, TypeOK
    <2>3. \/ q # group.rev /\ call[v].pc # "create"
          \/ row[n].attested
          \/ /\ q = group.rev
             /\ \/ row[n].token = v
                \/ row[n].status = "UNKNOWN" /\ row[n].contact = None
      BY <2>1 DEF Inv, CallsOK, WaitOK
    <2>4. CASE n # m BY <1>8, <2>2, <2>3, <2>4
    <2>5. CASE n = m
      <3>1. row[m].status # "UNKNOWN" BY <1>2 DEF Expired
      <3>2. row[m].token = v => row[m].contact = None
        BY <2>1, <2>5, HeldContact DEF Maker
      <3>. QED BY <1>3, <1>8, <2>2, <2>3, <2>5, <3>1, <3>2
    <2>. QED BY <2>4, <2>5
  <1>11. \A v \in Call : MakerOK(v)' BY <1>4, <1>5, <1>7, FewerMakers
  <1>12. \A n \in Member, q \in Revision : ~Maker(w, n, q)' BY <1>4, <1>5, <1>7, FewerMakers
  <1>13. r.contact # None => /\ r.bound = group.rev /\ contact[r.contact] # None
                             /\ contact[r.contact].list = group.list
    BY <1>3 DEF Inv, ContactOfBoundList
  <1>. QED
    BY <1>2, <1>3, <1>4, <1>5, <1>6, <1>9, <1>10, <1>11, <1>12, <1>13, RowMoves

LEMMA HolderWrites ==
  ASSUME Inv, NEW w \in Call, NEW new \in CallState, Become(w, new), new.pc \notin Making,
         NEW m \in Member, NEW r \in Row, Put(m, r), row[m].token = w,
         r.attested = row[m].attested, r.status = "SYNCING" <=> r.token # None,
         UNCHANGED <<clock, changes, people, group, contact, created, link>>,
         CallOK(w)', TokenOK(m)', RowOK(m)',
         r.contact # None => /\ r.bound = group.rev /\ contact[r.contact] # None
                             /\ contact[r.contact].list = group.list
  PROVE  Inv'
  <1>1. \A n \in Member \ {m} : row[n].token # w BY HeldContact
  <1>2. \A v \in Call : WaitOK(v)' BY HolderWaits
  <1>3. \A v \in Call : MakerOK(v)' BY FewerMakers
  <1>4. \A n \in Member, q \in Revision : ~Maker(w, n, q)' BY FewerMakers
  <1>. QED BY <1>1, <1>2, <1>3, <1>4, RowMoves

LEMMA StoreStep ==
  ASSUME Inv, NEW w \in Call, Store(w)
  PROVE  Inv'
  <1>1. PICK m \in Member : m = call[w].member
    BY DEF Store, Inv, CallsOK, CallOK
  <1> DEFINE st == call[w]
             r == [row[m] EXCEPT !.contact = st.contact, !.bound = st.rev]
             new == [st EXCEPT !.pc = "readBack"]
  <1>2. st.pc = "store" /\ UNCHANGED <<clock, changes, people, group, contact, created, link>>
    BY DEF Store
  <1>3. CASE ~Holds(w) /\ Go(w, "readBack") /\ UNCHANGED row
    BY <1>2, <1>3, HavingMoves DEF Holds, Holding
  <1>4. CASE Throw(w, "REFUSED") /\ UNCHANGED row
    <2>1. "REFUSED" \in Error BY DEF Error
    <2>. QED BY <1>2, <1>4, <2>1, ThrowMoves DEF Holding
  <1>5. CASE Holds(w) /\ Put(m, r) /\ Go(w, "readBack")
    <2>1. row[m].token = w /\ st.rev = group.rev BY <1>1, <1>5, HeldContact DEF Holds
    <2>2. /\ st \in CallState /\ row[m] \in Row /\ st.contact # None /\ st.list = group.list
          /\ contact[st.contact] # None /\ contact[st.contact].list = st.list
      BY <1>2, <2>1 DEF Inv, TypeOK, CallsOK, CallOK, Listed, Holding
    <2>3. r \in Row BY <2>2 DEF CallState, Row
    <2>4. /\ r.status = row[m].status /\ r.token = row[m].token /\ r.contact = st.contact
          /\ r.bound = st.rev /\ r.attested = row[m].attested
      BY <2>2 DEF Row
    <2>5. /\ new \in CallState /\ new.pc = "readBack" /\ new.member = m /\ new.rev = st.rev
          /\ new.contact = st.contact /\ new.list = st.list /\ new.source = st.source
      BY <1>1, <2>2 DEF CallState, Pc
    <2>6. Become(w, new) BY <1>5 DEF Go
    <2>7. call'[w] = new BY <2>6 DEF Become, Inv, TypeOK
    <2>8. row'[m] = r BY <1>5 DEF Put, Inv, TypeOK
    <2> HIDE DEF new, r
    <2>9. CallOK(w)'
      BY <1>1, <1>2, <2>1, <2>2, <2>5, <2>7 DEF Inv, CallsOK, CallOK, Listed, Holding
    <2>10. TokenOK(m)'
      BY <1>2, <2>1, <2>2, <2>4, <2>5, <2>7, <2>8 DEF TokenOK, Claimed, Holding, Making
    <2>11. RowOK(m)' BY <2>2, <2>4, <2>8 DEF RowOK
    <2>12. new.pc \notin Making BY <2>5 DEF Making
    <2>13. r.status = "SYNCING" <=> r.token # None BY <2>4 DEF Inv, TypeOK
    <2>. QED
      BY <1>2, <1>5, <2>1, <2>2, <2>3, <2>4, <2>5, <2>6, <2>9, <2>10, <2>11, <2>12, <2>13,
         HolderWrites
  <1>. QED BY <1>1, <1>3, <1>4, <1>5 DEF Store

LEMMA CommitStep ==
  ASSUME Inv, NEW w \in Call, Commit(w)
  PROVE  Inv'
  <1>1. PICK m \in Member : m = call[w].member
    BY DEF Commit, Inv, CallsOK, CallOK
  <1> DEFINE st == call[w]
             r == [row[m] EXCEPT !.status = "SYNCED", !.contact = st.contact,
                     !.bound = st.rev, !.observed = st.source.data,
                     !.retryAfter = 0, !.token = None, !.until = 0, !.version = @ + 1]
  <1>2. st.pc = "commit" /\ UNCHANGED <<clock, changes, people, group, contact, created, link>>
    BY DEF Commit
  <1>3. CASE Throw(w, "REFUSED") /\ UNCHANGED row
    <2>1. "REFUSED" \in Error BY DEF Error
    <2>. QED BY <1>2, <1>3, <2>1, ThrowMoves DEF Holding
  <1>4. CASE Holds(w) /\ Put(m, r) /\ End(w)
    <2>1. row[m].token = w /\ st.rev = group.rev BY <1>1, <1>4, HeldContact DEF Holds
    <2>2. /\ st \in CallState /\ row[m] \in Row /\ st.contact # None /\ st.list = group.list
          /\ contact[st.contact] # None /\ contact[st.contact].list = st.list
      BY <1>2, <2>1 DEF Inv, TypeOK, CallsOK, CallOK, Listed, Holding
    <2>3. r \in Row
      <3>1. row[m].version + 1 \in Version BY <2>2 DEF Row, Version
      <3>2. st.contact \in Contact \cup {None} /\ st.rev \in Revision
              /\ st.source.data \in Data \cup {None}
        BY <2>2 DEF CallState, Source
      <3>. QED BY <2>2, <3>1, <3>2 DEF Row, Status
    <2>4. /\ r.status = "SYNCED" /\ r.token = None /\ r.contact = st.contact
          /\ r.bound = st.rev /\ r.attested = row[m].attested
      BY <2>2 DEF Row
    <2>5. PICK new \in CallState : Become(w, new) /\ new.pc = "done" /\ CallOK(w)'
      BY <1>4, EndState
    <2>6. row'[m] = r BY <1>4 DEF Put, Inv, TypeOK
    <2> HIDE DEF r
    <2>7. TokenOK(m)' /\ RowOK(m)' BY <2>2, <2>4, <2>6 DEF TokenOK, RowOK
    <2>8. new.pc \notin Making BY <2>5 DEF Making
    <2>. QED BY <1>2, <1>4, <2>1, <2>2, <2>3, <2>4, <2>5, <2>7, <2>8, HolderWrites
  <1>. QED BY <1>1, <1>3, <1>4 DEF Commit

LEMMA CatchStep ==
  ASSUME Inv, NEW w \in Call, Catch(w)
  PROVE  Inv'
  <1>1. PICK m \in Member : m = call[w].member
    BY DEF Catch, Inv, CallsOK, CallOK
  <1> DEFINE st == call[w]
             after == StatusAfter(st.code, st.wrote)
             retry == IF HttpStatus(st.code) = 429 THEN clock + 1 ELSE 0
             r == [row[m] EXCEPT !.status = after, !.retryAfter = retry,
                                 !.token = None, !.until = 0, !.version = @ + 1]
  <1>2. st.pc = "catch" /\ End(w)
          /\ UNCHANGED <<clock, changes, people, group, contact, created, link>>
    BY DEF Catch
  <1>3. CASE ~Holds(w) /\ UNCHANGED row
    <2>1. \A n \in Member : row[n].token # w BY <1>1, <1>3, HeldContact DEF Holds
    <2>. QED BY <1>2, <1>3, <2>1, EndMoves
  <1>4. CASE Holds(w) /\ Put(m, r)
    <2>1. row[m].token = w /\ st.rev = group.rev BY <1>1, <1>4, HeldContact DEF Holds
    <2>2. row[m] \in Row /\ TokenOK(m) BY DEF Inv, TypeOK, RowsOK
    <2>3. after \in Status \ {"SYNCING"} BY DEF StatusAfter, Status
    <2>4. retry \in Nat BY BoundsAssumption DEF Inv, TypeOK
    <2>5. row[m].version + 1 \in Version BY <2>2 DEF Row, Version
    <2> HIDE DEF after, retry
    <2>6. r \in Row BY <2>2, <2>3, <2>4, <2>5 DEF Row
    <2>7. /\ r.status = after /\ r.token = None /\ r.contact = row[m].contact
          /\ r.bound = row[m].bound /\ r.attested = row[m].attested
      BY <2>2 DEF Row
    <2>8. PICK new \in CallState : Become(w, new) /\ new.pc = "done" /\ CallOK(w)'
      BY <1>2, EndState
    <2>9. row'[m] = r BY <1>4 DEF Put, Inv, TypeOK
    <2> HIDE DEF r
    <2>10. TokenOK(m)' BY <2>7, <2>9 DEF TokenOK
    <2>11. new.pc \notin Making BY <2>8 DEF Making
    <2>12. RowOK(m)'
      <3>1. SUFFICES ASSUME row[m].contact = None, after # "UNKNOWN"
                     PROVE  Untouched(m, group.rev)'
        BY <1>2, <2>7, <2>9 DEF RowOK
      <3>2. Untouched(m, group.rev)
        BY <1>2, <2>1, <2>2, <3>1, NoneAssumption DEF TokenOK, after
      <3>3. \A v \in Call, q \in Revision : Maker(v, m, q)' => Maker(v, m, q)
        BY <1>2, <2>8, <2>11, FewerMakers
      <3>4. group.rev \in Revision BY DEF Inv, TypeOK
      <3>. QED BY <1>2, <3>2, <3>3, <3>4 DEF Untouched
    <2>13. r.contact # None => /\ r.bound = group.rev /\ contact[r.contact] # None
                               /\ contact[r.contact].list = group.list
      BY <2>7 DEF Inv, ContactOfBoundList
    <2>. QED
      BY <1>2, <1>4, <2>1, <2>3, <2>6, <2>7, <2>8, <2>10, <2>11, <2>12, <2>13, HolderWrites
  <1>. QED BY <1>1, <1>3, <1>4 DEF Catch

LEMMA ClaimStep ==
  ASSUME Inv, NEW w \in Call, Claim(w)
  PROVE  Inv'
  <1>1. PICK m \in Member : m = call[w].member
    BY DEF Claim, Inv, CallsOK, CallOK
  <1> DEFINE st == call[w]
             r == [row[m] EXCEPT !.status = "SYNCING", !.token = w, !.until = clock + Lease]
             new == [st EXCEPT !.pc = "check", !.contact = row[m].contact,
                               !.observed = row[m].observed]
  <1>2. /\ st.pc = "claim" /\ st.rev = group.rev /\ Claimable(row[m])
        /\ Put(m, r) /\ Become(w, new)
        /\ UNCHANGED <<clock, changes, people, group, contact, created, link>>
    BY <1>1 DEF Claim, Current
  <1>3. row[m] \in Row /\ st \in CallState /\ CallOK(w) /\ group.rev \in Revision
    BY DEF Inv, TypeOK, CallsOK
  <1>4. r \in Row
    <2>1. clock + Lease \in Nat BY BoundsAssumption DEF Inv, TypeOK
    <2>. QED BY <1>3, <2>1 DEF Row, Status
  <1>5. /\ r.status = "SYNCING" /\ r.token = w /\ r.contact = row[m].contact
        /\ r.bound = row[m].bound /\ r.attested = row[m].attested
    BY <1>3 DEF Row
  <1>6. /\ new \in CallState /\ new.pc = "check" /\ new.member = m /\ new.rev = group.rev
        /\ new.contact = row[m].contact
    BY <1>1, <1>2, <1>3, ZenonT(40) DEF CallState, Pc, Row
  <1>7. call'[w] = new /\ \A v \in Call \ {w} : call'[v] = call[v]
    BY <1>2 DEF Become, Inv, TypeOK
  <1>8. row'[m] = r /\ \A n \in Member \ {m} : row'[n] = row[n]
    BY <1>2 DEF Put, Inv, TypeOK
  <1> HIDE DEF new, r
  <1>9. \A n \in Member : row[n].token # w
    BY <1>2, NotClaimed DEF Claimed, Making, Holding
  <1>10. CallOK(w)' BY <1>1, <1>2, <1>3, <1>6, <1>7 DEF CallOK, Listed, Holding
  <1>11. TokenOK(m)' /\ RowOK(m)'
    BY <1>2, <1>5, <1>6, <1>7, <1>8 DEF TokenOK, RowOK, Claimed, Making, Holding
  <1>12. row[m].contact = None => Untouched(m, group.rev)
    BY <1>2 DEF Claimable, Inv, RowsOK, RowOK
  <1>13. \A n \in Member, q \in Revision :
           Maker(w, n, q)' => n = m /\ q = group.rev /\ row[m].contact = None
    BY <1>6, <1>7 DEF Maker
  <1>14. \A v \in Call \ {w}, n \in Member, q \in Revision : Maker(v, n, q)' <=> Maker(v, n, q)
    BY <1>7 DEF Maker
  <1>15. ASSUME NEW v \in Call PROVE MakerOK(v)'
    <2>1. CASE v = w
      BY <1>2, <1>3, <1>12, <1>13, <1>14, <2>1 DEF MakerOK, Untouched
    <2>2. CASE v # w
      BY <1>2, <1>3, <1>12, <1>13, <1>14, <2>2 DEF Inv, CallsOK, MakerOK, Untouched
    <2>. QED BY <2>1, <2>2
  <1>16. ASSUME NEW v \in Call PROVE WaitOK(v)'
    <2> SUFFICES ASSUME NEW n \in Member, NEW q \in Revision, Maker(v, n, q)'
                 PROVE  \/ q # group.rev /\ call'[v].pc # "create"
                        \/ row'[n].attested
                        \/ /\ q = group.rev
                           /\ \/ row'[n].token = v
                              \/ row'[n].status = "UNKNOWN" /\ row'[n].contact = None
      BY <1>2 DEF WaitOK
    <2>1. CASE v = w BY <1>5, <1>8, <1>13, <2>1
    <2>2. CASE v # w
      <3>1. Maker(v, n, q) /\ call'[v] = call[v] BY <1>7, <1>14, <2>2
      <3>2. \/ q # group.rev /\ call[v].pc # "create"
            \/ row[n].attested
            \/ /\ q = group.rev
               /\ \/ row[n].token = v
                  \/ row[n].status = "UNKNOWN" /\ row[n].contact = None
        BY <3>1 DEF Inv, CallsOK, WaitOK
      <3>3. n = m => row[n].token # v /\ ~(row[n].status = "UNKNOWN" /\ row[n].contact = None)
        BY <1>2, NoneAssumption DEF Claimable, Inv, TypeOK
      <3>. QED BY <1>5, <1>8, <3>1, <3>2, <3>3
    <2>. QED BY <2>1, <2>2
  <1>17. r.contact # None => /\ r.bound = group.rev /\ contact[r.contact] # None
                             /\ contact[r.contact].list = group.list
    BY <1>5 DEF Inv, ContactOfBoundList
  <1>18. r.status = "SYNCING" <=> r.token # None BY <1>5, NoneAssumption
  <1>19. \A n \in Member \ {m}, q \in Revision : ~Maker(w, n, q)' BY <1>13
  <1>. QED
    BY <1>2, <1>4, <1>6, <1>9, <1>10, <1>11, <1>15, <1>16, <1>17, <1>18, <1>19, RowMoves

-----------------------------------------------------------------------------
(* Steps that change the contact centre.                                   *)

\* A contact that was ever made stays in its list, if only as one that is gone.
Kept ==
  \A c \in Contact :
    contact[c] # None => contact'[c] # None /\ contact'[c].list = contact[c].list

LEMMA WriteMoves ==
  ASSUME Inv, NEW w \in Call, NEW new \in CallState, Become(w, new), new.pc \notin Making,
         contact' \in [Contact -> ContactRow \cup {None}], Kept,
         created' \in [Member \X Revision -> Nat],
         \A m \in Member, r \in Revision :
           \/ created'[<<m, r>>] = created[<<m, r>>]
           \/ Maker(w, m, r) /\ created'[<<m, r>>] = 1,
         UNCHANGED <<clock, changes, people, group, row, link>>,
         CallOK(w)', \A m \in Member : row[m].token = w => TokenOK(m)'
  PROVE  Inv'
  <1>1. call' = [call EXCEPT ![w] = new] BY DEF Become
  <1>2. call'[w] = new /\ \A v \in Call \ {w} : call'[v] = call[v]
    BY <1>1 DEF Inv, TypeOK
  <1>3. UNCHANGED <<clock, changes, account, source, group, row, link>> BY DEF people
  <1>4. TypeOK'
    <2>1. call' \in [Call -> CallState] BY <1>1 DEF Inv, TypeOK
    <2>. QED BY <1>3, <2>1 DEF Inv, TypeOK
  <1>5. \A m \in Member, r \in Revision : ~Maker(w, m, r)' BY <1>2 DEF Maker
  <1>6. \A v \in Call \ {w}, m \in Member, r \in Revision : Maker(v, m, r)' <=> Maker(v, m, r)
    BY <1>2 DEF Maker
  <1>7. Counted'
    <2>1. \A m \in Member, r \in Revision : Maker(w, m, r) => r <= group.rev
      BY DEF Maker, Making, Inv, CallsOK, CallOK
    <2>2. \A r \in Revision : ~(r > group.rev /\ r <= group.rev)
      BY BoundsAssumption DEF Inv, TypeOK, Revision
    <2>. QED BY <1>3, <2>1, <2>2 DEF Inv, Counted
  <1>8. \A v \in Call : CallOK(v)'
    <2> SUFFICES ASSUME NEW v \in Call \ {w} PROVE CallOK(v)'
      OBVIOUS
    <2>1. CallOK(v) /\ call'[v] = call[v] BY <1>2 DEF Inv, CallsOK
    <2>2. call[v].contact \in Contact \cup {None} BY DEF Inv, TypeOK, CallState
    <2>. QED BY <1>3, <2>1, <2>2 DEF CallOK, Kept
  <1>9. \A v \in Call : MakerOK(v)'
    <2> SUFFICES ASSUME NEW v \in Call, NEW m \in Member, NEW r \in Revision, Maker(v, m, r)'
                 PROVE  created'[<<m, r>>] = 0 /\ \A u \in Call : u # v => ~Maker(u, m, r)'
      BY DEF MakerOK
    <2>1. v # w /\ Maker(v, m, r) BY <1>5, <1>6
    <2>2. created[<<m, r>>] = 0 /\ \A u \in Call : u # v => ~Maker(u, m, r)
      BY <2>1 DEF Inv, CallsOK, MakerOK
    <2>. QED BY <1>5, <1>6, <2>1, <2>2
  <1>10. \A v \in Call : WaitOK(v)'
    BY <1>2, <1>3, <1>5, <1>6 DEF Inv, CallsOK, WaitOK
  <1>11. \A m \in Member : Untouched(m, group.rev) => Untouched(m, group.rev)'
    <2>1. group.rev \in Revision BY DEF Inv, TypeOK
    <2>. QED BY <1>3, <1>5, <1>6, <2>1 DEF Untouched
  <1>12. \A m \in Member : TokenOK(m)' /\ RowOK(m)'
    <2> SUFFICES ASSUME NEW m \in Member PROVE TokenOK(m)' /\ RowOK(m)'
      OBVIOUS
    <2>1. TokenOK(m) /\ RowOK(m) BY DEF Inv, RowsOK
    <2>2. RowOK(m)' BY <1>3, <1>11, <2>1 DEF RowOK
    <2>3. CASE row[m].token = w BY <2>2, <2>3
    <2>4. CASE row[m].token # w
      <3>1. row[m].token # None => call'[row[m].token] = call[row[m].token]
        BY <1>2, <2>4 DEF Inv, TypeOK, Row
      <3>. QED BY <1>3, <1>11, <2>1, <2>2, <3>1 DEF TokenOK
    <2>. QED BY <2>3, <2>4
  <1>13. LinksOK'
    <2> SUFFICES ASSUME NEW o \in Operator PROVE LinkOK(o)'
      BY DEF LinksOK
    <2>1. LinkOK(o) BY DEF Inv, LinksOK
    <2>. QED BY <1>3, <2>1 DEF LinkOK, Kept
  <1>14. CreatedOnce'
    <2> SUFFICES ASSUME NEW m \in Member, NEW r \in Revision PROVE created'[<<m, r>>] <= 1
      BY DEF CreatedOnce
    <2>1. created[<<m, r>>] <= 1 BY DEF Inv, CreatedOnce
    <2>2. 1 <= 1 OBVIOUS
    <2>. QED BY <2>1, <2>2
  <1>15. ContactOfBoundList'
    <2>1. \A m \in Member : row[m].contact \in Contact \cup {None} BY DEF Inv, TypeOK, Row
    <2>. QED BY <1>3, <2>1 DEF Inv, ContactOfBoundList, Kept
  <1>. QED
    BY <1>4, <1>7, <1>8, <1>9, <1>10, <1>12, <1>13, <1>14, <1>15 DEF Inv, CallsOK, RowsOK

LEMMA MakeStep ==
  ASSUME Inv, NEW w \in Call, Make(w)
  PROVE  Inv'
  <1> DEFINE st == call[w]
  <1>1. PICK m \in Member : m = st.member
    BY DEF Make, Inv, CallsOK, CallOK
  <1>2. /\ st \in CallState /\ st.pc = "create" /\ st.contact = None /\ st.wrote = TRUE
        /\ st.rev \in Revision /\ st.rev <= group.rev /\ st.list \in List
        /\ st.source.data \in Data
        /\ st.rev = group.rev => st.list = group.list
    BY DEF Make, Inv, TypeOK, CallsOK, CallOK, Listed, CallState, Source
  <1>3. st \in CallState BY <1>2
  <1>4. /\ st.wrote = TRUE /\ st.rev \in Revision /\ st.rev <= group.rev
    BY <1>2
  <1>5. PICK c \in Contact :
          /\ contact[c] = None
          /\ contact' = [contact EXCEPT ![c] = [list |-> st.list, data |-> st.source.data,
                                                there |-> TRUE]]
          /\ \/ Become(w, [st EXCEPT !.pc = "store", !.contact = c])
             \/ Throw(w, "RESULT_UNKNOWN")
    BY DEF Make
  <1>6. /\ created' = [created EXCEPT ![<<m, st.rev>>] = @ + 1]
        /\ UNCHANGED <<clock, changes, people, group, row, link>>
    BY <1>1 DEF Make
  <1>7. contact' \in [Contact -> ContactRow \cup {None}] /\ Kept
    <2>1. [list |-> st.list, data |-> st.source.data, there |-> TRUE] \in ContactRow
      BY <1>2 DEF ContactRow
    <2>. QED BY <1>5, <2>1 DEF Inv, TypeOK, Kept
  <1>8. contact'[c].list = st.list /\ contact'[c] # None
    <2>1. [list |-> st.list, data |-> st.source.data, there |-> TRUE] \in ContactRow
      BY <1>2 DEF ContactRow
    <2>. QED BY <1>5, <2>1, ContactRowAssumption DEF Inv, TypeOK
  <1>9. Maker(w, m, st.rev) BY <1>1, <1>2 DEF Maker, Making
  <1>10. created[<<m, st.rev>>] = 0 BY <1>2, <1>9 DEF Inv, CallsOK, MakerOK
  <1>11. /\ created' \in [Member \X Revision -> Nat]
        /\ \A n \in Member, q \in Revision :
             \/ created'[<<n, q>>] = created[<<n, q>>]
             \/ Maker(w, n, q) /\ created'[<<n, q>>] = 1
    BY <1>2, <1>6, <1>9, <1>10 DEF Inv, TypeOK
  <1>12. CASE Become(w, [st EXCEPT !.pc = "store", !.contact = c])
    <2> DEFINE new == [st EXCEPT !.pc = "store", !.contact = c]
    <2>1. /\ new \in CallState /\ new.pc = "store" /\ new.contact = c /\ new.member = m
          /\ new.rev = st.rev /\ new.list = st.list /\ new.source = st.source
          /\ new.wrote = TRUE
      <3>1. "store" \in Pc BY DEF Pc
      <3>2. /\ new \in CallState /\ new.pc = "store" /\ new.contact = c
            /\ new.member = st.member /\ new.rev = st.rev /\ new.list = st.list
            /\ new.source = st.source /\ new.wrote = st.wrote
        BY <1>3, <3>1 DEF CallState
      <3>. QED BY <1>1, <1>4, <3>2
    <2>2. Become(w, new) BY <1>12
    <2>3. call'[w] = new BY <2>2 DEF Become, Inv, TypeOK
    <2> HIDE DEF new
    <2>4. c # None BY NoneAssumption
    <2>5. CallOK(w)'
      BY <1>2, <1>6, <1>8, <2>1, <2>3, <2>4, NoneAssumption DEF CallOK, Listed, Holding
    <2>6. \A n \in Member : row[n].token = w => TokenOK(n)'
      BY <1>1, <1>6, <2>1, <2>3, HeldContact DEF TokenOK, Claimed, Making, Holding
    <2>7. new.pc \notin Making BY <2>1 DEF Making
    <2>. QED BY <1>6, <1>7, <1>11, <2>1, <2>2, <2>5, <2>6, <2>7, WriteMoves
  <1>13. CASE Throw(w, "RESULT_UNKNOWN")
    <2> DEFINE new == [st EXCEPT !.pc = "catch", !.code = "RESULT_UNKNOWN"]
    <2>1. /\ new \in CallState /\ new.pc = "catch" /\ new.member = m /\ new.rev = st.rev
          /\ new.wrote = TRUE /\ new.code = "RESULT_UNKNOWN"
      <3>1. "catch" \in Pc /\ "RESULT_UNKNOWN" \in Error BY DEF Pc, Error
      <3>2. /\ new \in CallState /\ new.pc = "catch" /\ new.member = st.member
            /\ new.rev = st.rev /\ new.wrote = st.wrote /\ new.code = "RESULT_UNKNOWN"
        BY <1>3, <3>1 DEF CallState
      <3>. QED BY <1>1, <1>4, <3>2
    <2>2. Become(w, new) BY <1>13 DEF Throw
    <2>3. call'[w] = new BY <2>2 DEF Become, Inv, TypeOK
    <2> HIDE DEF new
    <2>4. CallOK(w)' BY <1>2, <1>6, <2>1, <2>3 DEF CallOK, Listed, Holding
    <2>5. StatusAfter("RESULT_UNKNOWN", TRUE) = "UNKNOWN"
      BY DEF StatusAfter, Definite, HttpStatus
    <2>6. \A n \in Member : row[n].token = w => TokenOK(n)'
      <3> SUFFICES ASSUME NEW n \in Member, row[n].token = w PROVE TokenOK(n)'
        OBVIOUS
      <3>1. n = st.member /\ st.rev = group.rev BY HeldContact
      <3>2. StatusAfter(new.code, new.wrote) = "UNKNOWN" BY <2>1, <2>5
      <3>. QED BY <1>1, <1>6, <2>1, <2>3, <3>1, <3>2 DEF TokenOK, Claimed, Making, Holding
    <2>7. new.pc \notin Making BY <2>1 DEF Making
    <2>. QED BY <1>6, <1>7, <1>11, <2>1, <2>2, <2>4, <2>6, <2>7, WriteMoves
  <1>. QED BY <1>5, <1>12, <1>13

LEMMA ChangeStep ==
  ASSUME Inv, NEW w \in Call, Change(w)
  PROVE  Inv'
  <1> DEFINE st == call[w]
  <1>1. /\ st \in CallState /\ CallOK(w) /\ st.pc = "update" /\ st.contact \in Contact
        /\ st.source.data \in Data /\ contact[st.contact] \in ContactRow
    BY NoneAssumption DEF Change, InList, Inv, TypeOK, CallsOK, CallOK, Listed, Holding,
       CallState, Source
  <1>2. /\ contact' = [contact EXCEPT ![st.contact].data = st.source.data]
        /\ UNCHANGED <<clock, changes, people, group, row, created, link>>
    BY DEF Change
  <1>3. contact' \in [Contact -> ContactRow \cup {None}] /\ Kept
    <2> DEFINE x == [contact[st.contact] EXCEPT !.data = st.source.data]
    <2>1. x \in ContactRow /\ x.list = contact[st.contact].list BY <1>1 DEF ContactRow
    <2>2. contact' = [contact EXCEPT ![st.contact] = x] BY <1>2
    <2>3. contact[st.contact] # None BY DEF Change, InList
    <2> HIDE DEF x
    <2>4. contact' \in [Contact -> ContactRow \cup {None}] BY <2>1, <2>2 DEF Inv, TypeOK
    <2>5. x # None BY <2>1, ContactRowAssumption
    <2>. QED BY <1>1, <2>1, <2>2, <2>3, <2>4, <2>5 DEF Inv, TypeOK, Kept
  <1>4. \A m \in Member, r \in Revision : ~Maker(w, m, r)
    BY <1>1 DEF Maker, Making
  <1>5. contact'[st.contact].list = st.list /\ contact'[st.contact] # None
    BY <1>1, <1>3 DEF Change, InList, Kept
  <1>6. ASSUME NEW new \in CallState, Become(w, new), new.pc \in {"readBack", "catch"},
               new.member = st.member, new.rev = st.rev, new.contact = st.contact,
               new.list = st.list, new.source = st.source
        PROVE  Inv'
    <2>1. call'[w] = new BY <1>6 DEF Become, Inv, TypeOK
    <2>2. CallOK(w)'
      BY <1>1, <1>2, <1>5, <1>6, <2>1 DEF CallOK, Listed, Holding
    <2>3. \A m \in Member : row[m].token = w => TokenOK(m)'
      <3> SUFFICES ASSUME NEW m \in Member, row[m].token = w PROVE TokenOK(m)'
        OBVIOUS
      <3>1. m = st.member /\ st.rev = group.rev /\ row[m].contact # None
        BY <1>1, HeldContact DEF Holding
      <3>. QED BY <1>1, <1>2, <1>6, <2>1, <3>1 DEF TokenOK, Claimed, Making, Holding
    <2>4. created' \in [Member \X Revision -> Nat] BY <1>2 DEF Inv, TypeOK
    <2>5. new.pc \notin Making BY <1>6 DEF Making
    <2>. QED BY <1>2, <1>3, <1>6, <2>2, <2>3, <2>4, <2>5, WriteMoves
  <1>7. CASE Go(w, "readBack")
    <2> DEFINE new == [st EXCEPT !.pc = "readBack"]
    <2>1. /\ new \in CallState /\ new.pc = "readBack" /\ new.member = st.member
          /\ new.rev = st.rev /\ new.contact = st.contact /\ new.list = st.list
          /\ new.source = st.source
      BY <1>1 DEF CallState, Pc
    <2>2. Become(w, new) BY <1>7 DEF Go
    <2> HIDE DEF new
    <2>. QED BY <1>6, <2>1, <2>2
  <1>8. CASE Throw(w, "RESULT_UNKNOWN")
    <2> DEFINE new == [st EXCEPT !.pc = "catch", !.code = "RESULT_UNKNOWN"]
    <2>1. /\ new \in CallState /\ new.pc = "catch" /\ new.member = st.member
          /\ new.rev = st.rev /\ new.contact = st.contact /\ new.list = st.list
          /\ new.source = st.source
      BY <1>1 DEF CallState, Pc, Error
    <2>2. Become(w, new) BY <1>8 DEF Throw
    <2> HIDE DEF new
    <2>. QED BY <1>6, <2>1, <2>2
  <1>. QED BY <1>7, <1>8 DEF Change

-----------------------------------------------------------------------------
(* What people do, and the clock.                                          *)

LEMMA OutsideMoves ==
  ASSUME Inv, TypeOK', Counted', Kept, UNCHANGED <<group, row, created, call, link>>
  PROVE  Inv'
  <1>1. \A v \in Call, m \in Member, r \in Revision : Maker(v, m, r)' <=> Maker(v, m, r)
    BY DEF Maker
  <1>2. \A v \in Call : CallOK(v)'
    <2> SUFFICES ASSUME NEW v \in Call PROVE CallOK(v)'
      OBVIOUS
    <2>1. CallOK(v) /\ call[v].contact \in Contact \cup {None}
      BY DEF Inv, CallsOK, TypeOK, CallState
    <2>. QED BY <2>1 DEF CallOK, Kept
  <1>3. \A v \in Call : MakerOK(v)' /\ WaitOK(v)'
    BY <1>1 DEF Inv, CallsOK, MakerOK, WaitOK
  <1>4. \A m \in Member : Untouched(m, group.rev)' <=> Untouched(m, group.rev)
    <2>1. group.rev \in Revision BY DEF Inv, TypeOK
    <2>. QED BY <1>1, <2>1 DEF Untouched
  <1>5. RowsOK' BY <1>4 DEF Inv, RowsOK, TokenOK, RowOK
  <1>6. LinksOK'
    <2> SUFFICES ASSUME NEW o \in Operator PROVE LinkOK(o)'
      BY DEF LinksOK
    <2>1. LinkOK(o) BY DEF Inv, LinksOK
    <2>. QED BY <2>1 DEF LinkOK, Kept
  <1>7. CreatedOnce' BY DEF Inv, CreatedOnce
  <1>8. ContactOfBoundList'
    <2>1. \A m \in Member : row[m].contact \in Contact \cup {None} BY DEF Inv, TypeOK, Row
    <2>. QED BY <2>1 DEF Inv, ContactOfBoundList, Kept
  <1>. QED BY <1>2, <1>3, <1>5, <1>6, <1>7, <1>8 DEF Inv, CallsOK

LEMMA ActCounts ==
  ASSUME Inv, Act
  PROVE  changes' \in 0..MaxChanges /\ changes' = changes + 1 /\ changes \in 0..MaxChanges
  BY BoundsAssumption DEF Inv, TypeOK, Act

LEMMA OthersStep ==
  ASSUME Inv,
         \/ Tick
         \/ \E a \in Account : SaveDeveloperApiSettings(a)
         \/ \E m \in Member, d \in Data \cup {None} : Review(m, d)
         \/ \E c \in Contact, l \in List, d \in Data, there \in BOOLEAN :
              EditOutside(c, l, d, there)
  PROVE  Inv'
  <1>1. CASE Tick
    <2>1. UNCHANGED <<changes, account, source, group, row, contact, created, call, link>>
      BY <1>1 DEF Tick, people
    <2>2. clock' \in 0..MaxTime BY <1>1, BoundsAssumption DEF Tick, Inv, TypeOK
    <2>3. TypeOK' BY <2>1, <2>2 DEF Inv, TypeOK
    <2>4. Counted' BY <2>1 DEF Inv, Counted
    <2>. QED BY <2>1, <2>3, <2>4, OutsideMoves DEF Kept
  <1>2. ASSUME NEW a \in Account, SaveDeveloperApiSettings(a) PROVE Inv'
    <2>1. account' = a /\ UNCHANGED <<clock, source, group, row, contact, created, call, link>>
      BY <1>2 DEF SaveDeveloperApiSettings
    <2>2. changes' \in 0..MaxChanges /\ changes' = changes + 1 /\ changes \in 0..MaxChanges
      BY <1>2, ActCounts DEF SaveDeveloperApiSettings
    <2>3. TypeOK' BY <2>1, <2>2 DEF Inv, TypeOK
    <2>4. Counted'
      <3>1. group.rev \in Nat /\ \A m \in Member : source[m].version \in Nat
        BY DEF Inv, TypeOK, Revision, Source
      <3>. QED BY <2>1, <2>2, <3>1 DEF Inv, Counted
    <2>. QED BY <2>1, <2>3, <2>4, OutsideMoves DEF Kept
  <1>3. ASSUME NEW m \in Member, NEW d \in Data \cup {None}, Review(m, d) PROVE Inv'
    <2> DEFINE x == [data |-> d, version |-> source[m].version + 1]
    <2>1. /\ source' = [source EXCEPT ![m] = x]
          /\ UNCHANGED <<clock, account, group, row, contact, created, call, link>>
      BY <1>3 DEF Review
    <2>2. changes' \in 0..MaxChanges /\ changes' = changes + 1 /\ changes \in 0..MaxChanges
      BY <1>3, ActCounts DEF Review
    <2>3. group.rev \in Nat /\ \A n \in Member : source[n].version \in Nat
      BY DEF Inv, TypeOK, Revision, Source
    <2>4. group.rev <= changes /\ \A n \in Member : source[n].version <= changes
      BY DEF Inv, Counted
    <2>5. x \in Source /\ x.version <= changes'
      BY <2>2, <2>3, <2>4, BoundsAssumption DEF Source, Revision
    <2> HIDE DEF x
    <2>6. source' \in [Member -> Source] BY <2>1, <2>5 DEF Inv, TypeOK
    <2>7. TypeOK' BY <2>1, <2>2, <2>6 DEF Inv, TypeOK
    <2>8. \A n \in Member : source'[n].version <= changes'
      BY <2>1, <2>2, <2>3, <2>4, <2>5 DEF Inv, TypeOK
    <2>9. group.rev <= changes' BY <2>2, <2>3, <2>4
    <2>10. Counted' BY <2>1, <2>8, <2>9 DEF Inv, Counted
    <2>. QED BY <2>1, <2>7, <2>10, OutsideMoves DEF Kept
  <1>4. ASSUME NEW c \in Contact, NEW l \in List, NEW d \in Data, NEW there \in BOOLEAN,
               EditOutside(c, l, d, there)
        PROVE  Inv'
    <2> DEFINE x == [list |-> IF contact[c] = None THEN l ELSE contact[c].list,
                     data |-> d, there |-> there]
    <2>1. /\ contact' = [contact EXCEPT ![c] = x]
          /\ UNCHANGED <<clock, account, source, group, row, created, call, link>>
      BY <1>4 DEF EditOutside, people
    <2>2. changes' \in 0..MaxChanges /\ changes' = changes + 1 /\ changes \in 0..MaxChanges
      BY <1>4, ActCounts DEF EditOutside
    <2>3. x \in ContactRow BY DEF Inv, TypeOK, ContactRow
    <2>4. contact[c] # None => x.list = contact[c].list OBVIOUS
    <2> HIDE DEF x
    <2>5. contact' \in [Contact -> ContactRow \cup {None}] BY <2>1, <2>3 DEF Inv, TypeOK
    <2>6. Kept BY <2>1, <2>3, <2>4, ContactRowAssumption DEF Kept, Inv, TypeOK
    <2>7. TypeOK' BY <2>1, <2>2, <2>5 DEF Inv, TypeOK
    <2>8. Counted'
      <3>1. group.rev \in Nat /\ \A m \in Member : source[m].version \in Nat
        BY DEF Inv, TypeOK, Revision, Source
      <3>. QED BY <2>1, <2>2, <3>1 DEF Inv, Counted
    <2>. QED BY <2>1, <2>6, <2>7, <2>8, OutsideMoves
  <1>. QED BY <1>1, <1>2, <1>3, <1>4

LEMMA ReadLinkStep ==
  ASSUME Inv, NEW o \in Operator, NEW m \in Member, NEW c \in Contact, ReadLink(o, m, c)
  PROVE  Inv'
  <1> DEFINE k == [pc |-> "store", member |-> m, version |-> row[m].version,
                   rev |-> group.rev, contact |-> c, data |-> contact[c].data,
                   source |-> source[m], account |-> account]
  <1>1. /\ link' = [link EXCEPT ![o] = k]
        /\ UNCHANGED <<clock, account, source, group, row, contact, created, call>>
        /\ contact[c] # None /\ contact[c].list = group.list
    BY DEF ReadLink, people, InList
  <1>2. changes' \in 0..MaxChanges /\ changes' = changes + 1 /\ changes \in 0..MaxChanges
    BY ActCounts DEF ReadLink
  <1>3. /\ row[m] \in Row /\ source[m] \in Source /\ contact[c] \in ContactRow
        /\ group.rev \in Revision /\ group.rev \in Nat /\ account \in Account
    BY <1>1 DEF Inv, TypeOK, Revision
  <1>4. k \in LinkState BY <1>3 DEF LinkState, Row, ContactRow
  <1>5. k.pc = "store" /\ k.member = m /\ k.contact = c /\ k.data \in Data /\ k.rev = group.rev
    BY <1>3 DEF ContactRow
  <1> HIDE DEF k
  <1>6. TypeOK'
    <2>1. link' \in [Operator -> LinkState] BY <1>1, <1>4 DEF Inv, TypeOK
    <2>. QED BY <1>1, <1>2, <2>1 DEF Inv, TypeOK
  <1>7. Counted'
    <2>1. \A n \in Member : source[n].version \in Nat
      BY DEF Inv, TypeOK, Revision, Source
    <2>. QED BY <1>1, <1>2, <1>3, <2>1 DEF Inv, Counted
  <1>8. LinksOK'
    <2> SUFFICES ASSUME NEW i \in Operator PROVE LinkOK(i)'
      BY DEF LinksOK
    <2>1. LinkOK(i) BY DEF Inv, LinksOK
    <2>2. CASE i # o
      <3>1. link'[i] = link[i] BY <1>1, <2>2 DEF Inv, TypeOK
      <3>. QED BY <1>1, <2>1, <3>1 DEF LinkOK
    <2>3. CASE i = o
      <3>1. link'[o] = k BY <1>1 DEF Inv, TypeOK
      <3>. QED BY <1>1, <1>3, <1>5, <2>3, <3>1 DEF LinkOK
    <2>. QED BY <2>2, <2>3
  <1>9. CallsOK' BY <1>1 DEF Inv, CallsOK, CallOK, MakerOK, WaitOK, Maker
  <1>10. RowsOK' BY <1>1 DEF Inv, RowsOK, TokenOK, RowOK, Untouched, Maker
  <1>. QED
    BY <1>1, <1>6, <1>7, <1>8, <1>9, <1>10 DEF Inv, CreatedOnce, ContactOfBoundList

LEMMA StoreLinkStep ==
  ASSUME Inv, NEW o \in Operator, StoreLink(o)
  PROVE  Inv'
  <1> DEFINE k == link[o]
  <1>1. k \in LinkState /\ k.pc = "store" /\ LinkOK(o)
    BY DEF StoreLink, Inv, TypeOK, LinksOK
  <1>2. PICK m \in Member : m = k.member BY <1>1 DEF LinkOK
  <1>3. /\ link' = [link EXCEPT ![o] = NoLink]
        /\ UNCHANGED <<clock, changes, account, source, group, contact, created, call>>
    BY DEF StoreLink, people
  <1>4. link' \in [Operator -> LinkState]
    <2>1. NoLink \in LinkState
      BY BoundsAssumption DEF NoLink, LinkState, Version, Revision, NoSource, Source
    <2>. QED BY <1>3, <2>1 DEF Inv, TypeOK
  <1>5. LinksOK'
    <2> SUFFICES ASSUME NEW i \in Operator PROVE LinkOK(i)'
      BY DEF LinksOK
    <2>1. LinkOK(i) BY DEF Inv, LinksOK
    <2>2. CASE i # o
      <3>1. link'[i] = link[i] BY <1>3, <2>2 DEF Inv, TypeOK
      <3>. QED BY <1>3, <2>1, <3>1 DEF LinkOK
    <2>3. CASE i = o
      <3>1. link'[o].pc = "idle" BY <1>3 DEF Inv, TypeOK, NoLink
      <3>. QED BY <2>3, <3>1 DEF LinkOK
    <2>. QED BY <2>2, <2>3
  <1>6. Counted' BY <1>3 DEF Inv, Counted
  <1>7. \A v \in Call : CallOK(v)' /\ MakerOK(v)'
    BY <1>3 DEF Inv, CallsOK, CallOK, MakerOK, Maker
  <1>8. CreatedOnce' BY <1>3 DEF Inv, CreatedOnce
  <1>9. CASE UNCHANGED row
    <2>1. CallsOK' BY <1>3, <1>9 DEF Inv, CallsOK, CallOK, MakerOK, WaitOK, Maker
    <2>2. RowsOK' BY <1>3, <1>9 DEF Inv, RowsOK, TokenOK, RowOK, Untouched, Maker
    <2>3. TypeOK' BY <1>3, <1>4, <1>9 DEF Inv, TypeOK
    <2>4. ContactOfBoundList' BY <1>3, <1>9 DEF Inv, ContactOfBoundList
    <2>. QED BY <1>5, <1>6, <1>8, <2>1, <2>2, <2>3, <2>4 DEF Inv
  <1>10. CASE Linkable(o) /\ row' # row
    <2> DEFINE after == IF k.data = k.source.data THEN "SYNCED" ELSE "DIFFERENCE"
               r == [row[m] EXCEPT !.status = after, !.contact = k.contact,
                       !.bound = k.rev, !.observed = k.data, !.attested = TRUE,
                       !.version = @ + 1]
    <2>1. row' = [row EXCEPT ![m] = r] BY <1>2, <1>10 DEF StoreLink, Put
    <2>2. row[m] \in Row /\ row[m].status # "SYNCING" /\ row[m].token = None
      BY <1>2, <1>10 DEF Linkable, Inv, TypeOK
    <2>3. /\ k.contact \in Contact /\ k.contact # None /\ k.data \in Data /\ k.rev = group.rev
          /\ k.rev \in Revision
          /\ contact[k.contact] # None /\ contact[k.contact].list = group.list
      BY <1>1, <1>10, NoneAssumption DEF LinkOK, Linkable, LinkState
    <2>4. after \in Status \ {"SYNCING"} BY DEF Status
    <2> HIDE DEF after
    <2>5. r \in Row
      <3>1. row[m].version + 1 \in Version BY <2>2 DEF Row, Version
      <3>. QED BY <2>2, <2>3, <2>4, <3>1 DEF Row
    <2>6. /\ r.status # "SYNCING" /\ r.token = None /\ r.contact = k.contact
          /\ r.bound = group.rev /\ r.attested = TRUE
      BY <2>2, <2>3, <2>4 DEF Row
    <2>7. row'[m] = r /\ \A n \in Member \ {m} : row'[n] = row[n]
      BY <2>1 DEF Inv, TypeOK
    <2>8. row' \in [Member -> Row] BY <2>1, <2>5 DEF Inv, TypeOK
    <2> HIDE DEF r
    <2>9. TypeOK'
      <3>1. \A n \in Member : row'[n].status = "SYNCING" <=> row'[n].token # None
        BY <2>6, <2>7 DEF Inv, TypeOK
      <3>. QED BY <1>3, <1>4, <2>8, <3>1 DEF Inv, TypeOK
    <2>10. \A v \in Call : WaitOK(v)'
      <3> SUFFICES ASSUME NEW v \in Call, NEW n \in Member, NEW q \in Revision, Maker(v, n, q)'
                   PROVE  \/ q # group.rev /\ call[v].pc # "create"
                          \/ row'[n].attested
                          \/ /\ q = group.rev
                             /\ \/ row'[n].token = v
                                \/ row'[n].status = "UNKNOWN" /\ row'[n].contact = None
        BY <1>3 DEF WaitOK
      <3>1. Maker(v, n, q) BY <1>3 DEF Maker
      <3>2. CASE n = m BY <2>6, <2>7, <3>2
      <3>3. CASE n # m BY <2>7, <3>1, <3>3 DEF Inv, CallsOK, WaitOK
      <3>. QED BY <3>2, <3>3
    <2>11. \A n \in Member : TokenOK(n)' /\ RowOK(n)'
      <3> SUFFICES ASSUME NEW n \in Member PROVE TokenOK(n)' /\ RowOK(n)'
        OBVIOUS
      <3>1. CASE n = m BY <2>3, <2>6, <2>7, <3>1 DEF TokenOK, RowOK
      <3>2. CASE n # m
        <4>1. row'[n] = row[n] /\ TokenOK(n) /\ RowOK(n) BY <2>7, <3>2 DEF Inv, RowsOK
        <4>. QED BY <1>3, <4>1 DEF TokenOK, RowOK, Untouched, Maker
      <3>. QED BY <3>1, <3>2
    <2>12. ContactOfBoundList'
      <3> SUFFICES ASSUME NEW n \in Member, row'[n].contact # None
                   PROVE  /\ row'[n].bound = group.rev /\ contact[row'[n].contact] # None
                          /\ contact[row'[n].contact].list = group.list
        BY <1>3 DEF ContactOfBoundList
      <3>1. CASE n = m BY <2>3, <2>6, <2>7, <3>1
      <3>2. CASE n # m BY <2>7, <3>2 DEF Inv, ContactOfBoundList
      <3>. QED BY <3>1, <3>2
    <2>. QED
      BY <1>5, <1>6, <1>7, <1>8, <2>9, <2>10, <2>11, <2>12 DEF Inv, CallsOK, RowsOK
  <1>. QED BY <1>9, <1>10 DEF StoreLink

\* The group is bound to another list only when no row has a claim: nobody who could make
\* a contact in the old list still counts on its row.
LEMMA BindStep ==
  ASSUME Inv, NEW l \in List, Bind(l)
  PROVE  Inv'
  <1>1. /\ group' = [rev |-> group.rev + 1, list |-> l]
        /\ UNCHANGED <<clock, account, source, contact, created, call, link>>
        /\ Unsettled = {}
    BY DEF Bind, people
  <1>2. changes' \in 0..MaxChanges /\ changes' = changes + 1 /\ changes \in 0..MaxChanges
    BY ActCounts DEF Bind
  <1>3. /\ group.rev \in Nat /\ group.rev \in Revision /\ group.rev <= changes
        /\ \A m \in Member : source[m].version \in Nat /\ source[m].version <= changes
    BY DEF Inv, TypeOK, Counted, Revision, Source
  <1>4. group'.rev = group.rev + 1 /\ group'.rev \in Revision /\ group'.rev # group.rev
    BY <1>1, <1>2, <1>3, BoundsAssumption DEF Revision
  <1>5. \A m \in Member :
          /\ row[m].status # "SYNCING" /\ row[m].token = None
          /\ row[m].status = "UNKNOWN" => group.list = None
    BY <1>1 DEF Unsettled, Inv, TypeOK
  <1> DEFINE fresh(m) == [row[m] EXCEPT !.status = "PENDING", !.contact = None,
                            !.observed = None, !.bound = group.rev + 1, !.retryAfter = 0,
                            !.version = @ + 1]
  <1>6. row' = [m \in Member |-> IF row[m].status = "UNKNOWN" THEN row[m] ELSE fresh(m)]
    BY DEF Bind
  <1>7. ASSUME NEW m \in Member
        PROVE  /\ fresh(m) \in Row /\ fresh(m).status = "PENDING" /\ fresh(m).contact = None
               /\ fresh(m).token = None /\ fresh(m).attested = row[m].attested
    <2>1. row[m] \in Row BY DEF Inv, TypeOK
    <2>2. row[m].version + 1 \in Version BY <2>1 DEF Row, Version
    <2>3. group.rev + 1 \in Revision BY <1>4
    <2>4. fresh(m) \in Row BY <2>1, <2>2, <2>3 DEF Row, Status
    <2>. QED BY <1>5, <2>1, <2>4 DEF Row
  <1>8. ASSUME NEW m \in Member
        PROVE  /\ row'[m] \in Row /\ row'[m].token = None /\ row'[m].status # "SYNCING"
               /\ row'[m].attested = row[m].attested /\ row'[m].contact = None
    <2>1. row'[m] = IF row[m].status = "UNKNOWN" THEN row[m] ELSE fresh(m) BY <1>6
    <2> HIDE DEF fresh
    <2>2. CASE row[m].status # "UNKNOWN" BY <1>7, <2>1, <2>2
    <2>3. CASE row[m].status = "UNKNOWN"
      <3>1. row[m] \in Row /\ row[m].contact \in Contact \cup {None} /\ group.list = None
        BY <1>5, <2>3 DEF Inv, TypeOK, Row
      <3>2. row[m].contact = None
        <4>1. row[m].contact # None => contact[row[m].contact].list = None
                /\ contact[row[m].contact] # None
          BY <3>1 DEF Inv, ContactOfBoundList
        <4>2. \A c \in Contact : contact[c] # None => contact[c].list \in List
          BY DEF Inv, TypeOK, ContactRow
        <4>. QED BY <3>1, <4>1, <4>2, NoneAssumption
      <3>. QED BY <1>5, <2>1, <2>3, <3>1, <3>2
    <2>. QED BY <2>2, <2>3
  <1>9. TypeOK'
    <2> HIDE DEF fresh
    <2>1. row' \in [Member -> Row] BY <1>6, <1>8
    <2>2. group' \in [rev : Revision, list : List \cup {None}] BY <1>1, <1>4
    <2>3. \A m \in Member : row'[m].status = "SYNCING" <=> row'[m].token # None BY <1>8
    <2>. QED BY <1>1, <1>2, <2>1, <2>2, <2>3 DEF Inv, TypeOK
  <1> HIDE DEF fresh
  <1>10. \A v \in Call : call[v].pc \notin {"idle", "done"} => call[v].rev <= group.rev
    BY DEF Inv, CallsOK, CallOK
  <1>11. \A v \in Call : call[v].rev \in Nat BY DEF Inv, TypeOK, CallState, Revision
  <1>12. \A v \in Call : call[v].pc \notin {"idle", "done"} =>
           call[v].rev # group'.rev /\ call[v].rev <= group'.rev
    BY <1>3, <1>4, <1>10, <1>11
  <1>13. Counted'
    <2>1. \A m \in Member : source'[m].version <= changes' BY <1>1, <1>2, <1>3
    <2>2. \A r \in Revision : r > group'.rev => r > group.rev
      BY <1>3, <1>4 DEF Revision
    <2>3. group'.rev <= changes' BY <1>2, <1>3, <1>4
    <2>. QED BY <1>1, <2>1, <2>2, <2>3 DEF Inv, Counted
  <1>14. \A v \in Call, m \in Member, r \in Revision :
           /\ Maker(v, m, r)' <=> Maker(v, m, r)
           /\ Maker(v, m, r) => r # group'.rev
    BY <1>1, <1>12 DEF Maker, Making
  <1>15. \A v \in Call : CallOK(v)' /\ MakerOK(v)'
    <2> SUFFICES ASSUME NEW v \in Call PROVE CallOK(v)' /\ MakerOK(v)'
      OBVIOUS
    <2>1. CallOK(v) /\ MakerOK(v) BY DEF Inv, CallsOK
    <2>2. MakerOK(v)' BY <1>1, <1>14, <2>1 DEF MakerOK
    <2>. QED BY <1>1, <1>12, <2>1, <2>2 DEF CallOK, Listed
  <1>16. \A v \in Call : WaitOK(v)'
    <2> SUFFICES ASSUME NEW v \in Call, NEW m \in Member, NEW r \in Revision,
                        Maker(v, m, r), call[v].pc = "create"
                 PROVE  row[m].attested
      BY <1>1, <1>8, <1>14 DEF WaitOK
    <2>1. /\ call[v].rev = r /\ call[v].list \in List
          /\ r = group.rev => call[v].list = group.list
      BY DEF Maker, Inv, CallsOK, CallOK, Listed
    <2>. QED BY <1>5, <2>1, NoneAssumption DEF Inv, CallsOK, WaitOK
  <1>17. \A m \in Member : TokenOK(m)' BY <1>8 DEF TokenOK
  <1>18. \A m \in Member : RowOK(m)'
    <2>1. group'.rev > group.rev BY <1>3, <1>4
    <2>2. \A m \in Member : created[<<m, group'.rev>>] = 0 BY <1>4, <2>1 DEF Inv, Counted
    <2>. QED BY <1>1, <1>4, <1>14, <2>2 DEF RowOK, Untouched
  <1>19. LinksOK'
    <2> SUFFICES ASSUME NEW o \in Operator PROVE LinkOK(o)'
      BY DEF LinksOK
    <2>1. LinkOK(o) /\ link[o].rev \in Nat BY DEF Inv, LinksOK, TypeOK, LinkState, Revision
    <2>2. link[o].rev <= group.rev => link[o].rev <= group'.rev /\ link[o].rev # group'.rev
      BY <1>3, <1>4, <2>1
    <2>. QED BY <1>1, <2>1, <2>2 DEF LinkOK
  <1>20. CreatedOnce' BY <1>1 DEF Inv, CreatedOnce
  <1>21. ContactOfBoundList' BY <1>8 DEF ContactOfBoundList
  <1>. QED
    BY <1>9, <1>13, <1>15, <1>16, <1>17, <1>18, <1>19, <1>20, <1>21 DEF Inv, CallsOK, RowsOK

LEMMA InvNext == Inv /\ [Next]_vars => Inv'
  <1> SUFFICES ASSUME Inv, [Next]_vars PROVE Inv'
    OBVIOUS
  <1>1. ASSUME NEW w \in Call, CallStep(w) PROVE Inv'
    BY <1>1, StartStep, SkipStep, ReleaseClaimStep, ClaimStep, CheckStep, ReadListStep,
       RecheckStep, MakeStep, ChangeStep, FailSteps, StoreStep, ReadBackStep, CommitStep,
       CatchStep
    DEF CallStep
  <1>2. CASE UNCHANGED vars
    <2>1. UNCHANGED <<clock, changes, account, source, group, row, contact, created, call, link>>
      BY <1>2 DEF vars, people
    <2>2. TypeOK' /\ Counted' BY <2>1 DEF Inv, TypeOK, Counted
    <2>. QED BY <2>1, <2>2, OutsideMoves DEF Kept
  <1>. QED
    BY <1>1, <1>2, ReadLinkStep, StoreLinkStep, BindStep, OthersStep DEF Next, AllDone

LEMMA InvAlways == Spec => []Inv
  BY InvInit, InvNext, PTL DEF Spec

-----------------------------------------------------------------------------
\* Every row, call and contact has its type, and a row is being synchronised exactly as
\* long as a call's token is in it.
THEOREM TypeCorrectness == Spec => []TypeOK
  <1>1. Inv => TypeOK BY DEF Inv
  <1>. QED BY <1>1, InvAlways, PTL

\* The calls of one binding make at most one contact for a registration: a row whose last
\* write has an unknown result is not claimed again (registration-group-sync.ts:143).
THEOREM OneContactPerBinding == Spec => []CreatedOnce
  <1>1. Inv => CreatedOnce BY DEF Inv
  <1>. QED BY <1>1, InvAlways, PTL

\* The contact of a row is one of the list the group is bound to now, whoever was late
\* (registration-group-sync.ts:171, 180-188 and 252-265).
THEOREM ContactsAreOfTheBoundList == Spec => []ContactOfBoundList
  <1>1. Inv => ContactOfBoundList BY DEF Inv
  <1>. QED BY <1>1, InvAlways, PTL

\* A group is not bound anew while a call that holds its row may be writing, and one that
\* still makes a contact in the former list left a row that an operator decided about
\* (default-groups.ts:120).
THEOREM RebindingWaits == Spec => []RebindingWaitsForWrites
  <1>1. ASSUME Inv, NEW w \in Call, call[w].pc \in {"create", "update"},
               call[w].rev # group.rev
        PROVE  /\ row[call[w].member].token # w
               /\ call[w].pc = "create" => row[call[w].member].attested
    <2>1. PICK m \in Member : m = call[w].member BY <1>1 DEF Inv, CallsOK, CallOK
    <2>2. row[m].token # w BY <1>1, HeldContact
    <2>3. ASSUME call[w].pc = "create" PROVE row[m].attested
      <3>1. call[w].contact = None /\ call[w].rev \in Revision
        <4>1. CallOK(w) BY <1>1 DEF Inv, CallsOK
        <4>2. call[w] \in CallState BY <1>1 DEF Inv, TypeOK
        <4>. QED BY <2>3, <4>1, <4>2 DEF CallOK, CallState
      <3>2. Maker(w, m, call[w].rev) BY <2>1, <2>3, <3>1 DEF Maker, Making
      <3>. QED BY <1>1, <2>3, <3>1, <3>2 DEF Inv, CallsOK, WaitOK
    <2>. QED BY <2>1, <2>2, <2>3
  <1>2. Inv => RebindingWaitsForWrites BY <1>1 DEF RebindingWaitsForWrites
  <1>. QED BY <1>2, InvAlways, PTL

-----------------------------------------------------------------------------
(* Regular groups: the inductive invariant.                                *)

\* The steps at which a call has an item, and those at which it may have locked the row.
AtItem == {"check", "lock", "observe", "recheck", "write", "read", "confirm", "save", "settle",
           "record"}
AtRow == {"observe", "recheck", "write", "read", "confirm", "save", "settle"}

\* The statuses of items that wait or are worked on; none of an operation that is over.
OpenItem == {"PENDING", "RUNNING"}
OverWith(o, status) ==
  /\ status \in {"PARTIAL", "COMPLETED"} /\ StatusesOf(o) \cap OpenItem = {}
  /\ status = "COMPLETED" <=> StatusesOf(o) \subseteq {"SYNCED"}

\* As long as the row has this version, its person is linked and there.
LinkedAt(m, version) ==
  /\ version <= member[m].version
  /\ version = member[m].version => member[m].linked /\ person[m].status # "DELETED"

\* What an advance x holds at each of its steps.
AdvanceFits(x) ==
  LET m == x.member
      version == item[x.operation][m].version
  IN
  x.pc # "idle" =>
    /\ x.operation \in DOMAIN operation /\ x.todo \subseteq DOMAIN item[x.operation]
    /\ x.pc \in AtItem => m \in DOMAIN item[x.operation]
    /\ x.pc \in AtItem \ {"settle", "record"} => (x.claimed <=> x.pc \in AtRow)
    /\ x.pc = "lock" => LinkedAt(m, version)
    /\ x.pc \in AtRow => LinkedAt(m, version + 1)
    /\ x.pc = "settle" => x.result \in {"DIFFERENCE", "FAILED", "UNKNOWN"}
    /\ x.pc = "record" => x.result \in {"SYNCED", "DIFFERENCE", "FAILED", "UNKNOWN"}
    /\ x.pc = "finish" => OverWith(x.operation, x.result)

\* What a call of the staff holds.
ClerkFits(x) ==
  x.pc # "idle" => x.member \in Here /\ (x.pc # "link" => x.kind # "link")

\* The item was synchronised, or a call is about to say so.
SaysSynced(x, o, m) ==
  x.pc = "record" /\ x.operation = o /\ x.member = m /\ x.result = "SYNCED"
Done(o, m) ==
  item[o][m].status = "SYNCED" \/ \E c \in SyncCall : SaysSynced(syncCall[c], o, m)

\* A row that is synchronised for an item is past the lock, and so is that of any later one.
LockReleased(o, m) ==
  /\ item[o][m].version + 2 <= member[m].version
  /\ item[o][m].version + 2 = member[m].version => member[m].state # "SYNCING"
InTurn(o, p, m) ==
  \/ item[o][m].version + 2 <= item[p][m].version
  \/ item[p][m].version + 2 <= item[o][m].version

PersonsCounted == \A m \in Here : person[m].version <= deeds + 1
OperationsTell ==
  \A o \in DOMAIN operation :
    operation[o].status # "PENDING" => OverWith(o, operation[o].status)
ItemsBehind == \A o \in DOMAIN item : \A m \in DOMAIN item[o] : item[o][m].version <= member[m].version
DoneInTurn ==
  \A o \in DOMAIN item : \A m \in DOMAIN item[o] : Done(o, m) =>
    /\ LockReleased(o, m)
    /\ \A p \in DOMAIN item \ {o} : m \in DOMAIN item[p] /\ Done(p, m) => InTurn(o, p, m)

SyncInv ==
  /\ SyncTypeOK /\ PersonsCounted
  /\ \A c \in SyncCall : AdvanceFits(syncCall[c])
  /\ \A k \in Clerk : ClerkFits(clerk[k])
  /\ OperationsTell /\ ItemsBehind /\ DoneInTurn

-----------------------------------------------------------------------------
(* Regular groups: types.                                                  *)

LEMMA SyncBounds ==
  /\ RateWait \in Nat /\ ItemLife \in Nat /\ MaxSyncTime \in Nat /\ MaxDeeds \in Nat
  BY SyncBoundsAssumption

LEMMA NoRowType == NoRow \in MemberRow
  BY DEF NoRow, MemberRow, SyncState, Shown, Gone

LEMMA BetweenType ==
  ASSUME NEW o \in SyncOperation, NEW todo, todo \subseteq ListMember
  PROVE  Between(o, todo) \in SyncCallState
  BY DEF Between, SyncCallState, Shown, Gone

LEMMA NotCalledType == NotCalled.pc = "idle"
  BY DEF NotCalled

\* What the contact centre shows is never what a call reads or sends and is not.
LEMMA ShownType ==
  /\ Gone \in Shown /\ Typed \in Shown /\ PersonVersion \subseteq Shown
  /\ 1 \in PersonVersion
  BY SyncBounds DEF Shown, PersonVersion, Gone, Typed

LEMMA InitSync == SyncInit => SyncInv
  <1> SUFFICES ASSUME SyncInit PROVE SyncInv
    OBVIOUS
  <1>. PICK some \in SUBSET ListMember :
         /\ person = [m \in some |-> [version |-> 1, status |-> "ACTIVE"]]
         /\ listed \in [some -> {Gone, 1, Typed}]
         /\ member \in [some -> {NoRow} \cup
              [state : {"LINKED"}, version : {1}, observed : {1, Typed}, linked : {TRUE}]]
    BY DEF SyncInit
  <1>1. Here = some /\ DOMAIN operation = {} /\ DOMAIN item = {}
    BY DEF SyncInit, Here
  <1>2. SyncTypeOK
    <2>1. person \in [Here -> PersonRow] /\ listed \in [Here -> Shown]
      BY <1>1, ShownType DEF PersonRow
    <2>2. member \in [Here -> MemberRow]
      <3>1. ASSUME NEW entry \in [state : {"LINKED"}, version : {1}, observed : {1, Typed},
                                linked : {TRUE}]
            PROVE  entry \in MemberRow
        <4>1. PICK seen \in Shown :
                entry = [state |-> "LINKED", version |-> 1, observed |-> seen, linked |-> TRUE]
          BY ShownType
        <4>2. [state |-> "LINKED", version |-> 1, observed |-> seen, linked |-> TRUE] \in MemberRow
          BY DEF MemberRow, SyncState
        <4>. QED BY <4>1, <4>2
      <3>2. \A m \in some : member[m] \in MemberRow
        BY <3>1, NoRowType
      <3>. QED BY <1>1, <3>2
    <2>3. operation \in [DOMAIN operation -> OperationRow]
      BY <1>1 DEF SyncInit
    <2>4. /\ syncCall \in [SyncCall -> {NotCalled} \cup SyncCallState]
          /\ clerk \in [Clerk -> {NotCalled} \cup ClerkState]
      BY DEF SyncInit
    <2>5. syncClock \in 0..MaxSyncTime /\ deeds \in 0..MaxDeeds
          /\ list \in [attached : BOOLEAN, version : Nat]
      BY SyncBounds DEF SyncInit
    <2>. QED BY <1>1, <2>1, <2>2, <2>3, <2>4, <2>5 DEF SyncTypeOK
  <1>3. PersonsCounted
    BY <1>1, SyncBounds DEF SyncInit, PersonsCounted
  <1>4. (\A c \in SyncCall : AdvanceFits(syncCall[c])) /\ \A k \in Clerk : ClerkFits(clerk[k])
    BY DEF SyncInit, AdvanceFits, ClerkFits, NotCalled
  <1>5. OperationsTell /\ ItemsBehind /\ DoneInTurn
    BY <1>1 DEF OperationsTell, ItemsBehind, DoneInTurn
  <1>. QED BY <1>2, <1>3, <1>4, <1>5 DEF SyncInv

-----------------------------------------------------------------------------
(* Regular groups: steps that leave operations and items alone.            *)

\* Rows change by new versions, and a person is deleted together with its row.
RowsGrow ==
  \A m \in Here :
    \/ member'[m].version > member[m].version
    \/ /\ member'[m] = member[m]
       /\ member[m].linked /\ person[m].status # "DELETED" => person'[m].status # "DELETED"

LEMMA LinkedStays ==
  ASSUME SyncInv, SyncTypeOK', RowsGrow, NEW m \in Here, Here' = Here, NEW v \in Nat, LinkedAt(m, v)
  PROVE  LinkedAt(m, v)'
  <1>1. member[m].version \in Nat /\ member'[m].version \in Nat
    BY DEF SyncInv, SyncTypeOK, MemberRow
  <1>2. CASE member'[m].version > member[m].version
    BY <1>1, <1>2 DEF LinkedAt
  <1>3. CASE ~(member'[m].version > member[m].version)
    BY <1>3 DEF RowsGrow, LinkedAt
  <1>. QED BY <1>2, <1>3

LEMMA ItemType ==
  ASSUME SyncInv, NEW o \in DOMAIN item, NEW m \in DOMAIN item[o]
  PROVE  /\ m \in Here /\ item[o][m] \in ItemRow /\ item[o][m].version \in Nat
         /\ item[o][m].version + 1 \in Nat /\ member[m] \in MemberRow /\ member[m].version \in Nat
         /\ item[o][m].version <= member[m].version
  <1>1. m \in Here /\ item[o][m] \in ItemRow
    BY DEF SyncInv, SyncTypeOK
  <1>2. member[m] \in MemberRow
    BY <1>1 DEF SyncInv, SyncTypeOK
  <1>. QED BY <1>1, <1>2 DEF ItemRow, MemberRow, SyncInv, ItemsBehind

\* What an advance holds, it holds after such a step.
LEMMA AdvanceStays ==
  ASSUME SyncInv, SyncTypeOK', RowsGrow, UNCHANGED <<operation, item>>, Here' = Here,
         NEW x, AdvanceFits(x)
  PROVE  AdvanceFits(x)'
  <1>1. ASSUME x.pc \in AtItem, x.operation \in DOMAIN item, x.member \in DOMAIN item[x.operation]
        PROVE  x.member \in Here /\ item[x.operation][x.member].version \in Nat
               /\ item[x.operation][x.member].version + 1 \in Nat
    BY <1>1, ItemType
  <1>2. DOMAIN item = DOMAIN operation /\ AtRow \subseteq AtItem
    BY DEF SyncInv, SyncTypeOK, AtRow, AtItem
  <1>3. ASSUME x.pc = "finish" PROVE OverWith(x.operation, x.result)' <=> OverWith(x.operation, x.result)
    BY DEF OverWith, StatusesOf
  <1>4. x.pc # "idle" /\ x.pc = "lock" =>
          LinkedAt(x.member, item[x.operation][x.member].version)'
    BY <1>1, <1>2, LinkedStays DEF AdvanceFits, AtItem
  <1>5. x.pc # "idle" /\ x.pc \in AtRow =>
          LinkedAt(x.member, item[x.operation][x.member].version + 1)'
    BY <1>1, <1>2, LinkedStays DEF AdvanceFits
  <1>6. x.pc = "finish" => x.pc # "idle"
    OBVIOUS
  <1>. QED BY <1>3, <1>4, <1>5, <1>6 DEF AdvanceFits

\* The item's call has stored what it read under its own lock.
SavedNow(o, m) ==
  /\ member[m].version = item[o][m].version + 1 /\ member[m].state = "SYNCING"
  /\ member'[m].version = item[o][m].version + 2 /\ member'[m].state # "SYNCING"

LEMMA StepKept ==
  ASSUME SyncInv, SyncTypeOK', PersonsCounted', UNCHANGED <<operation, item>>, Here' = Here, RowsGrow,
         \A c \in SyncCall : AdvanceFits(syncCall[c])',
         \A k \in Clerk : ClerkFits(clerk[k])',
         \A o \in DOMAIN item : \A m \in DOMAIN item[o] :
           Done(o, m)' => Done(o, m) \/ SavedNow(o, m),
         \A o, p \in DOMAIN item : \A m \in DOMAIN item[o] \cap DOMAIN item[p] :
           Done(o, m)' /\ ~Done(o, m) /\ Done(p, m)' /\ ~Done(p, m) => o = p
  PROVE  SyncInv'
  <1>1. OperationsTell'
    <2>1. \A o, s : OverWith(o, s)' <=> OverWith(o, s)
      BY DEF OverWith, StatusesOf
    <2>. QED BY <2>1 DEF SyncInv, OperationsTell
  <1>2. ASSUME NEW o \in DOMAIN item, NEW m \in DOMAIN item[o]
        PROVE  /\ m \in Here /\ item[o][m].version \in Nat /\ member[m].version \in Nat
               /\ member'[m].version \in Nat /\ member[m].version <= member'[m].version
    <2>1. m \in Here /\ item[o][m].version \in Nat /\ member[m].version \in Nat
      BY ItemType
    <2>2. member'[m] \in MemberRow
      BY <2>1 DEF SyncTypeOK
    <2>3. member'[m].version > member[m].version \/ member'[m] = member[m]
      BY <2>1 DEF RowsGrow
    <2>. QED BY <2>1, <2>2, <2>3 DEF MemberRow
  <1>3. ItemsBehind'
    BY <1>2 DEF SyncInv, ItemsBehind
  <1>4. ASSUME NEW o \in DOMAIN item, NEW m \in DOMAIN item[o], Done(o, m)
        PROVE  LockReleased(o, m) /\ LockReleased(o, m)'
    <2>1. LockReleased(o, m)
      BY <1>4 DEF SyncInv, DoneInTurn
    <2>2. member'[m].version > member[m].version \/ member'[m] = member[m]
      BY <1>2 DEF RowsGrow
    <2>. QED BY <1>2, <2>1, <2>2 DEF LockReleased
  <1>5. ASSUME NEW o \in DOMAIN item, NEW m \in DOMAIN item[o], SavedNow(o, m)
        PROVE  LockReleased(o, m)'
    BY <1>2, <1>5 DEF SavedNow, LockReleased
  <1>6. ASSUME NEW o \in DOMAIN item, NEW p \in DOMAIN item, NEW m \in DOMAIN item[o], m \in DOMAIN item[p],
               Done(o, m), SavedNow(p, m)
        PROVE  InTurn(o, p, m) /\ InTurn(p, o, m)
    <2>1. LockReleased(o, m) /\ SavedNow(p, m)
      BY <1>4, <1>6
    <2>2. item[o][m].version \in Nat /\ item[p][m].version \in Nat /\ member[m].version \in Nat
      BY <1>2, <1>6
    <2>. QED BY <2>1, <2>2 DEF LockReleased, SavedNow, InTurn
  <1>7. ASSUME NEW o \in DOMAIN item, NEW p \in DOMAIN item, o # p, NEW m \in DOMAIN item[o], m \in DOMAIN item[p],
               Done(o, m)', Done(p, m)'
        PROVE  InTurn(o, p, m)
    <2>1. CASE Done(o, m) /\ Done(p, m)
      BY <1>7, <2>1 DEF SyncInv, DoneInTurn
    <2>2. CASE ~Done(o, m) \/ ~Done(p, m)
      BY <1>6, <1>7, <2>2
    <2>. QED BY <2>1, <2>2
  <1>8. DoneInTurn'
    <2>1. ASSUME NEW o \in DOMAIN item, NEW m \in DOMAIN item[o], Done(o, m)'
          PROVE  LockReleased(o, m)'
      BY <1>4, <1>5, <2>1
    <2>2. \A o, p, m : InTurn(o, p, m)' <=> InTurn(o, p, m)
      BY DEF InTurn
    <2>. QED BY <1>7, <2>1, <2>2 DEF DoneInTurn
  <1>. QED BY <1>1, <1>3, <1>8 DEF SyncInv

\* The step of one advance that leaves operations and items alone.
LEMMA AdvanceStepKept ==
  ASSUME SyncInv, NEW c \in SyncCall, NEW new \in {NotCalled} \cup SyncCallState, BecomeSync(c, new),
         UNCHANGED <<syncClock, staffVars, operation, item, clerk>>,
         listed' \in [Here -> Shown], member' \in [Here -> MemberRow], RowsGrow, AdvanceFits(new)',
         \A o \in DOMAIN item : \A m \in DOMAIN item[o] : SaysSynced(new, o, m) => SavedNow(o, m)
  PROVE  SyncInv'
  <1>0. /\ syncClock' = syncClock /\ deeds' = deeds /\ list' = list /\ person' = person
        /\ operation' = operation /\ item' = item /\ clerk' = clerk
    BY DEF staffVars
  <1>1. syncCall' \in [SyncCall -> {NotCalled} \cup SyncCallState]
        /\ \A d \in SyncCall : syncCall'[d] = IF d = c THEN new ELSE syncCall[d]
    BY DEF SyncInv, SyncTypeOK, BecomeSync
  <1>2. SyncTypeOK' /\ Here' = Here
    BY <1>0, <1>1 DEF SyncInv, SyncTypeOK, Here
  <1>3. PersonsCounted'
    BY <1>0, <1>2 DEF SyncInv, PersonsCounted
  <1>4. \A d \in SyncCall : AdvanceFits(syncCall[d])'
    <2>1. ASSUME NEW d \in SyncCall, d # c PROVE AdvanceFits(syncCall[d])'
      <3>1. PICK x : x = syncCall[d]
        OBVIOUS
      <3>2. AdvanceFits(x)
        BY <3>1 DEF SyncInv
      <3>3. AdvanceFits(x)'
        BY <1>0, <1>2, <3>2, AdvanceStays
      <3>4. syncCall'[d] = x
        BY <1>1, <2>1, <3>1
      <3>. QED BY <3>3, <3>4 DEF AdvanceFits
    <2>2. AdvanceFits(syncCall[c])'
      BY <1>1 DEF AdvanceFits
    <2>. QED BY <2>1, <2>2
  <1>5. \A k \in Clerk : ClerkFits(clerk[k])'
    BY <1>0, <1>2 DEF SyncInv, ClerkFits
  <1>6. ASSUME NEW o \in DOMAIN item, NEW m \in DOMAIN item[o], Done(o, m)', ~Done(o, m)
        PROVE  SaysSynced(new, o, m)
    <2>1. PICK d \in SyncCall : SaysSynced(syncCall'[d], o, m)
      BY <1>0, <1>6 DEF Done
    <2>. QED BY <1>1, <1>6, <2>1 DEF Done
  <1>7. \A o, p, m : SaysSynced(new, o, m) /\ SaysSynced(new, p, m) => o = p
    BY DEF SaysSynced
  <1>. QED BY <1>0, <1>2, <1>3, <1>4, <1>5, <1>6, <1>7, StepKept

\* The step changes what the call holds, and at most what the contact centre shows.
LEMMA AdvanceMoves ==
  ASSUME SyncInv, NEW c \in SyncCall, NEW new \in {NotCalled} \cup SyncCallState, BecomeSync(c, new),
         UNCHANGED <<syncClock, staffVars, member, operation, item, clerk>>,
         listed' \in [Here -> Shown], AdvanceFits(new),
         \A o, m : ~SaysSynced(new, o, m)
  PROVE  SyncInv'
  <1>1. /\ member' = member /\ person' = person /\ operation' = operation /\ item' = item
        /\ UNCHANGED <<syncClock, staffVars, operation, item, clerk>>
    BY DEF staffVars
  <1>2. RowsGrow /\ member' \in [Here -> MemberRow]
    BY <1>1 DEF RowsGrow, SyncInv, SyncTypeOK
  <1>3. AdvanceFits(new)'
    BY <1>1 DEF AdvanceFits, LinkedAt, OverWith, StatusesOf
  <1>. QED BY <1>1, <1>2, <1>3, AdvanceStepKept

\* What an advance holds: its types, and those of its item.
LEMMA AdvanceHolds ==
  ASSUME SyncInv, NEW c \in SyncCall, syncCall[c].pc \in AtItem \cup {"next", "count", "finish"}
  PROVE  /\ syncCall[c] \in SyncCallState /\ AdvanceFits(syncCall[c]) /\ syncCall[c].pc # "idle"
         /\ syncCall[c].operation \in DOMAIN operation /\ syncCall[c].operation \in SyncOperation
         /\ syncCall[c].operation \in DOMAIN item
         /\ syncCall[c].todo \subseteq DOMAIN item[syncCall[c].operation]
         /\ syncCall[c].todo \subseteq ListMember
  <1>1. syncCall[c] \in SyncCallState /\ AdvanceFits(syncCall[c]) /\ syncCall[c].pc # "idle"
    BY DEF SyncInv, SyncTypeOK, NotCalled, AtItem
  <1>2. /\ syncCall[c].operation \in DOMAIN operation
        /\ syncCall[c].todo \subseteq DOMAIN item[syncCall[c].operation]
    BY <1>1 DEF AdvanceFits
  <1>3. DOMAIN operation \subseteq SyncOperation /\ DOMAIN item = DOMAIN operation
    BY DEF SyncInv, SyncTypeOK
  <1>. QED BY <1>1, <1>2, <1>3 DEF SyncCallState

LEMMA AdvanceItem ==
  ASSUME SyncInv, NEW c \in SyncCall, syncCall[c].pc \in AtItem
  PROVE  /\ syncCall[c].member \in DOMAIN item[syncCall[c].operation] /\ syncCall[c].member \in Here
         /\ syncCall[c].member \in ListMember
  BY AdvanceHolds, ItemType DEF AdvanceFits, SyncInv, SyncTypeOK

\* An item that ends without having been synchronised.
LEMMA Concludes ==
  ASSUME SyncInv, NEW c \in SyncCall, syncCall[c].pc \in AtItem \ {"settle", "record"},
         NEW result \in {"DIFFERENCE", "FAILED", "UNKNOWN"}, NEW limited \in BOOLEAN,
         Conclude(c, result, limited),
         UNCHANGED <<syncClock, staffVars, member, operation, item, clerk>>,
         listed' \in [Here -> Shown]
  PROVE  SyncInv'
  <1> DEFINE held == syncCall[c]
             new == [Between(held.operation, held.todo) EXCEPT !.member = held.member,
                       !.result = result, !.limited = limited,
                       !.pc = IF held.claimed THEN "settle" ELSE "record"]
  <1>1. held.operation \in SyncOperation /\ held.todo \subseteq ListMember /\ held.member \in ListMember
    BY AdvanceHolds, AdvanceItem
  <1>2. Between(held.operation, held.todo) \in SyncCallState
    BY <1>1, BetweenType
  <1>3. new \in SyncCallState
    BY <1>1, <1>2, ZenonT(40) DEF SyncCallState, ItemStatus
  <1>4. /\ new.pc = IF held.claimed THEN "settle" ELSE "record"
        /\ new.operation = held.operation /\ new.todo = held.todo /\ new.member = held.member
        /\ new.result = result
    BY DEF Between
  <1>5. BecomeSync(c, new)
    BY DEF Conclude
  <1>. HIDE DEF new
  <1>6. AdvanceFits(new)
    BY <1>4, AdvanceHolds DEF AdvanceFits, AtItem, AtRow
  <1>7. \A o, m : ~SaysSynced(new, o, m)
    BY <1>4 DEF SaysSynced
  <1>. QED BY <1>3, <1>5, <1>6, <1>7, AdvanceMoves

LEMMA DoubtType ==
  ASSUME NEW c PROVE Doubt(c) \in {"DIFFERENCE", "FAILED", "UNKNOWN"}
  BY DEF Doubt

-----------------------------------------------------------------------------
(* Regular groups: the steps of one item.                                  *)

LEMMA StopAdvanceKept ==
  ASSUME SyncInv, NEW c \in SyncCall, BecomeSync(c, NotCalled),
         UNCHANGED <<syncClock, staffVars, listed, member, operation, item, clerk>>
  PROVE  SyncInv'
  <1>1. listed' \in [Here -> Shown]
    BY DEF SyncInv, SyncTypeOK
  <1>2. AdvanceFits(NotCalled) /\ \A o, m : ~SaysSynced(NotCalled, o, m)
    BY DEF AdvanceFits, NotCalled, SaysSynced
  <1>. QED BY <1>1, <1>2, AdvanceMoves

LEMMA LeaveItemsKept ==
  ASSUME SyncInv, NEW c \in SyncCall, LeaveItems(c)
  PROVE  SyncInv'
  <1>1. syncCall[c].pc = "next"
        /\ UNCHANGED <<syncClock, staffVars, listed, member, operation, item, clerk>>
    BY DEF LeaveItems
  <1>. PICK old \in SyncCallState : old = syncCall[c] /\ old.operation \in DOMAIN operation
    BY <1>1, AdvanceHolds
  <1> DEFINE new == [old EXCEPT !.pc = "count", !.todo = {}]
  <1>2. new \in SyncCallState
    BY DEF SyncCallState
  <1>3. new.pc = "count" /\ new.todo = {} /\ new.operation = old.operation /\ BecomeSync(c, new)
    BY DEF SyncCallState, LeaveItems
  <1>4. listed' \in [Here -> Shown]
    BY <1>1 DEF SyncInv, SyncTypeOK
  <1>. HIDE DEF new
  <1>5. AdvanceFits(new)
    BY <1>3 DEF AdvanceFits, AtItem, AtRow
  <1>6. \A o, m : ~SaysSynced(new, o, m)
    BY <1>3 DEF SaysSynced
  <1>. QED BY <1>1, <1>2, <1>3, <1>4, <1>5, <1>6, AdvanceMoves

\* A call at an item, with its item.
LEMMA AtItemHolds ==
  ASSUME SyncInv, NEW c \in SyncCall, syncCall[c].pc \in AtItem
  PROVE  \E held \in SyncCallState :
           /\ held = syncCall[c] /\ AdvanceFits(held)
           /\ held.operation \in DOMAIN operation /\ held.operation \in DOMAIN item
           /\ held.todo \subseteq DOMAIN item[held.operation]
           /\ held.member \in DOMAIN item[held.operation] /\ held.member \in Here
           /\ item[held.operation][held.member].version \in Nat
           /\ item[held.operation][held.member].version <= member[held.member].version
           /\ member[held.member] \in MemberRow /\ person[held.member] \in PersonRow
  <1>1. /\ syncCall[c] \in SyncCallState /\ AdvanceFits(syncCall[c])
        /\ syncCall[c].operation \in DOMAIN operation /\ syncCall[c].operation \in DOMAIN item
        /\ syncCall[c].todo \subseteq DOMAIN item[syncCall[c].operation]
        /\ syncCall[c].member \in DOMAIN item[syncCall[c].operation] /\ syncCall[c].member \in Here
    BY AdvanceHolds, AdvanceItem
  <1>2. /\ item[syncCall[c].operation][syncCall[c].member].version \in Nat
        /\ item[syncCall[c].operation][syncCall[c].member].version
             <= member[syncCall[c].member].version
        /\ member[syncCall[c].member] \in MemberRow
    BY <1>1, ItemType
  <1>3. person[syncCall[c].member] \in PersonRow
    BY <1>1 DEF SyncInv, SyncTypeOK
  <1>. QED BY <1>1, <1>2, <1>3

\* A call that has locked its row goes on.
LEMMA ItemGoesOn ==
  ASSUME SyncInv, NEW c \in SyncCall, syncCall[c].pc \in AtRow \ {"settle"},
         NEW new \in SyncCallState, new.pc \in AtRow \ {"settle"}, BecomeSync(c, new),
         new.operation = syncCall[c].operation, new.todo = syncCall[c].todo,
         new.member = syncCall[c].member, new.claimed = syncCall[c].claimed,
         UNCHANGED <<syncClock, staffVars, member, operation, item, clerk>>,
         listed' \in [Here -> Shown]
  PROVE  SyncInv'
  <1>1. syncCall[c].pc \in AtItem /\ syncCall[c].pc \notin {"idle", "settle", "record"}
        /\ new.pc \notin {"idle", "settle", "record", "lock", "finish"} /\ new.pc \in AtItem
    BY DEF AtItem, AtRow
  <1>. PICK old : old = syncCall[c] /\ AdvanceFits(old)
    BY <1>1, AtItemHolds
  <1>2. AdvanceFits(new)
    BY <1>1 DEF AdvanceFits
  <1>3. \A o, m : ~SaysSynced(new, o, m)
    BY <1>1 DEF SaysSynced
  <1>. QED BY <1>2, <1>3, AdvanceMoves

\* The checks let the row to its lock while it stands at the item's version.
LEMMA CheckItemKept ==
  ASSUME SyncInv, NEW c \in SyncCall, CheckItem(c)
  PROVE  SyncInv'
  <1>1. syncCall[c].pc = "check" /\ syncCall[c].pc \in AtItem
        /\ UNCHANGED <<syncClock, staffVars, listed, member, operation, item, clerk>>
    BY DEF CheckItem, AtItem
  <1>. PICK old \in SyncCallState :
         /\ old = syncCall[c] /\ AdvanceFits(old) /\ old.operation \in DOMAIN operation
         /\ old.todo \subseteq DOMAIN item[old.operation]
         /\ old.member \in DOMAIN item[old.operation]
         /\ member[old.member] \in MemberRow /\ person[old.member] \in PersonRow
    BY <1>1, AtItemHolds
  <1> DEFINE m == old.member
             version == item[old.operation][m].version
             new == [old EXCEPT !.pc = "lock", !.source = person[m].version,
                       !.seen = member[m].observed]
  <1>2. listed' \in [Here -> Shown]
    BY <1>1 DEF SyncInv, SyncTypeOK
  <1>3. CASE Conclude(c, "FAILED", FALSE) \/ Conclude(c, "UNKNOWN", FALSE)
    BY <1>1, <1>2, <1>3, Concludes
  <1>4. CASE /\ member[m].version = version /\ member[m].linked /\ person[m].status = "ACTIVE"
             /\ BecomeSync(c, new)
    <2>1. person[m].version \in Shown /\ member[m].observed \in Shown
      BY DEF PersonRow, MemberRow, Shown
    <2>2. new \in SyncCallState
      BY <2>1 DEF SyncCallState
    <2>3. /\ new.pc = "lock" /\ new.operation = old.operation /\ new.todo = old.todo
          /\ new.member = m /\ new.claimed = old.claimed
      BY DEF SyncCallState
    <2>. HIDE DEF new
    <2>4. LinkedAt(m, version)
      BY <1>4 DEF LinkedAt, MemberRow
    <2>5. old.claimed = FALSE
      BY <1>1 DEF AdvanceFits, AtItem, AtRow, SyncCallState
    <2>6. AdvanceFits(new)
      BY <2>3, <2>4, <2>5 DEF AdvanceFits, AtItem, AtRow
    <2>7. \A o, n : ~SaysSynced(new, o, n)
      BY <2>3 DEF SaysSynced
    <2>. QED BY <1>1, <1>2, <1>4, <2>2, <2>6, <2>7, AdvanceMoves
  <1>. QED BY <1>1, <1>3, <1>4 DEF CheckItem

LEMMA StoredType ==
  ASSUME NEW old \in MemberRow, NEW state \in SyncState
  PROVE  /\ Stored(old, state) \in MemberRow /\ Stored(old, state).state = state
         /\ Stored(old, state).version = old.version + 1 /\ old.version \in Nat
         /\ Stored(old, state).version > old.version
         /\ Stored(old, state).linked = old.linked
  <1>1. Stored(old, state) \in MemberRow
    <2>1. old.version + 1 \in Nat
      BY DEF MemberRow
    <2>2. PICK entry : entry = [old EXCEPT !.state = state]
      OBVIOUS
    <2>3. entry \in MemberRow /\ entry.version = old.version
      BY <2>2 DEF MemberRow
    <2>4. [entry EXCEPT !.version = old.version + 1] \in MemberRow
      BY <2>1, <2>3 DEF MemberRow
    <2>. QED BY <2>2, <2>4 DEF Stored
  <1>2. Stored(old, state).state = state /\ Stored(old, state).version = old.version + 1
        /\ Stored(old, state).linked = old.linked
    BY DEF Stored, MemberRow
  <1>3. old.version \in Nat
    BY DEF MemberRow
  <1>. QED BY <1>1, <1>2, <1>3

\* Storing a row raises its version, and nothing else.
LEMMA RowStored ==
  ASSUME SyncInv, NEW m \in Here, NEW entry \in MemberRow, PutMember(m, entry),
         entry.version > member[m].version, UNCHANGED person
  PROVE  /\ member' \in [Here -> MemberRow] /\ RowsGrow
         /\ \A n \in Here : member'[n] = IF n = m THEN entry ELSE member[n]
  BY DEF SyncInv, SyncTypeOK, PutMember, RowsGrow

LEMMA ClaimedType ==
  ASSUME NEW old \in SyncCallState
  PROVE  \E new \in SyncCallState :
           /\ new = [old EXCEPT !.pc = "observe", !.claimed = TRUE]
           /\ new.pc = "observe" /\ new.operation = old.operation
           /\ new.todo = old.todo /\ new.member = old.member /\ new.claimed = TRUE
  <1>1. PICK next \in SyncCallState : next = [old EXCEPT !.pc = "observe"]
    BY DEF SyncCallState
  <1>2. [next EXCEPT !.claimed = TRUE] \in SyncCallState
    BY DEF SyncCallState
  <1>3. PICK new \in SyncCallState : new = [next EXCEPT !.claimed = TRUE]
    BY <1>2
  <1>4. /\ new.pc = "observe" /\ new.operation = old.operation
        /\ new.todo = old.todo /\ new.member = old.member /\ new.claimed = TRUE
    BY <1>1, <1>3 DEF SyncCallState
  <1>5. new = [old EXCEPT !.pc = "observe", !.claimed = TRUE]
    BY <1>1, <1>3
  <1>. QED BY <1>4, <1>5

LEMMA LockRowKept ==
  ASSUME SyncInv, NEW c \in SyncCall, LockRow(c)
  PROVE  SyncInv'
  <1>1. /\ syncCall[c].pc = "lock" /\ syncCall[c].pc \in AtItem
        /\ UNCHANGED <<syncClock, staffVars, operation, item, clerk>>
        /\ person' = person /\ item' = item /\ operation' = operation /\ listed' = listed
    BY DEF LockRow, staffVars, AtItem
  <1>. PICK old \in SyncCallState :
         /\ old = syncCall[c] /\ AdvanceFits(old) /\ old.operation \in DOMAIN operation
         /\ old.todo \subseteq DOMAIN item[old.operation]
         /\ old.member \in DOMAIN item[old.operation] /\ old.member \in Here
         /\ item[old.operation][old.member].version \in Nat
         /\ member[old.member] \in MemberRow
    BY <1>1, AtItemHolds
  <1>. PICK o, m : o = old.operation /\ m = old.member
    OBVIOUS
  <1>. PICK version \in Nat : version = item[o][m].version
    OBVIOUS
  <1>2. listed' \in [Here -> Shown]
    BY <1>1 DEF SyncInv, SyncTypeOK
  <1>3. CASE Conclude(c, "FAILED", FALSE) /\ UNCHANGED member
    BY <1>1, <1>2, <1>3, Concludes
  <1>4. CASE /\ AtVersion(m, version) /\ PutMember(m, Stored(member[m], "SYNCING"))
             /\ BecomeSync(c, [old EXCEPT !.pc = "observe", !.claimed = TRUE])
    <2>. PICK entry \in MemberRow :
           /\ entry = Stored(member[m], "SYNCING") /\ entry.version = member[m].version + 1
           /\ entry.linked = member[m].linked /\ entry.version > member[m].version
      BY StoredType DEF SyncState
    <2>1. /\ member' \in [Here -> MemberRow] /\ RowsGrow /\ member'[m] = entry
      BY <1>1, <1>4, RowStored
    <2>2. LinkedAt(m, version)
      BY <1>1 DEF AdvanceFits
    <2>3. LinkedAt(m, version + 1)'
      BY <1>1, <1>4, <2>1, <2>2, SMTT(30) DEF LinkedAt, AtVersion
    <2>. PICK new \in SyncCallState :
           /\ new = [old EXCEPT !.pc = "observe", !.claimed = TRUE]
           /\ new.pc = "observe" /\ new.operation = o
           /\ new.todo = old.todo /\ new.member = m /\ new.claimed = TRUE
      BY ClaimedType
    <2>5. AdvanceFits(new)'
      BY <1>1, <2>3 DEF AdvanceFits, AtItem, AtRow
    <2>6. \A p, n : ~SaysSynced(new, p, n)
      BY DEF SaysSynced
    <2>. QED BY <1>1, <1>2, <1>4, <2>1, <2>5, <2>6, AdvanceStepKept
  <1>. QED BY <1>1, <1>3, <1>4 DEF LockRow

\* The call is at the same item, with the same lock.
SameItem(old, new) ==
  /\ new \in SyncCallState /\ new.operation = old.operation /\ new.todo = old.todo
  /\ new.member = old.member /\ new.claimed = old.claimed

LEMMA PcChanges ==
  ASSUME NEW old \in SyncCallState,
         NEW pc \in {"recheck", "write", "read", "confirm", "save", "record"}
  PROVE  SameItem(old, [old EXCEPT !.pc = pc]) /\ [old EXCEPT !.pc = pc].pc = pc
  BY DEF SyncCallState, SameItem

LEMMA SeenChanges ==
  ASSUME NEW old \in SyncCallState
  PROVE  SameItem(old, [old EXCEPT !.seen = Gone]) /\ [old EXCEPT !.seen = Gone].pc = old.pc
  BY ShownType DEF SyncCallState, SameItem

LEMMA MatchesChanges ==
  ASSUME NEW old \in SyncCallState, NEW matches \in BOOLEAN
  PROVE  /\ SameItem(old, [old EXCEPT !.matches = matches])
         /\ [old EXCEPT !.matches = matches].pc = old.pc
  BY DEF SyncCallState, SameItem

LEMMA AttemptedChanges ==
  ASSUME NEW old \in SyncCallState
  PROVE  /\ SameItem(old, [old EXCEPT !.attempted = TRUE])
         /\ [old EXCEPT !.attempted = TRUE].pc = old.pc
  BY DEF SyncCallState, SameItem

LEMMA SameItemTwice ==
  ASSUME NEW a, NEW b, NEW d, SameItem(a, b), SameItem(b, d)
  PROVE  SameItem(a, d)
  BY DEF SameItem

LEMMA ObserveKept ==
  ASSUME SyncInv, NEW c \in SyncCall, Observe(c)
  PROVE  SyncInv'
  <1>1. /\ syncCall[c].pc = "observe" /\ syncCall[c].pc \in AtRow \ {"settle"}
        /\ syncCall[c].pc \in AtItem \ {"settle", "record"}
        /\ UNCHANGED <<syncClock, staffVars, listed, member, operation, item, clerk>>
    BY DEF Observe, AtItem, AtRow
  <1>2. listed' \in [Here -> Shown]
    BY <1>1 DEF SyncInv, SyncTypeOK
  <1>3. CASE \E result \in {"DIFFERENCE", "FAILED", "UNKNOWN"} : Conclude(c, result, FALSE)
    BY <1>1, <1>2, <1>3, Concludes
  <1>4. ASSUME NEW matches \in BOOLEAN,
               BecomeSync(c, [syncCall[c] EXCEPT !.pc = "recheck", !.seen = Gone, !.matches = matches])
        PROVE  SyncInv'
    <2>. PICK old \in SyncCallState : old = syncCall[c]
      BY <1>1, AtItemHolds
    <2>. PICK one : one = [old EXCEPT !.pc = "recheck"]
      OBVIOUS
    <2>1. SameItem(old, one) /\ one.pc = "recheck" /\ one \in SyncCallState
      BY PcChanges DEF SameItem
    <2>. PICK two : two = [one EXCEPT !.seen = Gone]
      OBVIOUS
    <2>2. SameItem(one, two) /\ two.pc = "recheck" /\ two \in SyncCallState
      BY <2>1, SeenChanges DEF SameItem
    <2>. PICK new : new = [two EXCEPT !.matches = matches]
      OBVIOUS
    <2>3. SameItem(two, new) /\ new.pc = "recheck"
      BY <2>2, MatchesChanges
    <2>4. SameItem(old, new)
      BY <2>1, <2>2, <2>3, SameItemTwice
    <2>5. BecomeSync(c, new)
      BY <1>4
    <2>. QED BY <1>1, <1>2, <2>3, <2>4, <2>5, ItemGoesOn DEF SameItem, AtRow
  <1>. QED BY <1>3, <1>4 DEF Observe

LEMMA LookAgainKept ==
  ASSUME SyncInv, NEW c \in SyncCall, LookAgain(c)
  PROVE  SyncInv'
  <1>1. /\ syncCall[c].pc \in AtRow \ {"settle"} /\ syncCall[c].pc \in AtItem \ {"settle", "record"}
        /\ UNCHANGED <<syncClock, staffVars, listed, member, operation, item, clerk>>
    BY DEF LookAgain, AtItem, AtRow
  <1>2. listed' \in [Here -> Shown]
    BY <1>1 DEF SyncInv, SyncTypeOK
  <1>3. CASE Conclude(c, Doubt(c), FALSE)
    BY <1>1, <1>2, <1>3, Concludes, DoubtType
  <1>4. ASSUME NEW pc \in {"save", "read", "write"},
               BecomeSync(c, [syncCall[c] EXCEPT !.pc = pc, !.matches = FALSE])
        PROVE  SyncInv'
    <2>. PICK old \in SyncCallState : old = syncCall[c]
      BY <1>1, AtItemHolds
    <2>. PICK one : one = [old EXCEPT !.pc = pc]
      OBVIOUS
    <2>0. pc \in {"recheck", "write", "read", "confirm", "save", "record"}
      OBVIOUS
    <2>1. SameItem(old, one) /\ one.pc = pc /\ one \in SyncCallState
      <3>1. SameItem(old, one) /\ one.pc = pc
        BY <2>0, PcChanges
      <3>. QED BY <3>1 DEF SameItem
    <2>. PICK matches \in BOOLEAN : matches = FALSE
      OBVIOUS
    <2>. PICK new : new = [one EXCEPT !.matches = matches]
      OBVIOUS
    <2>2. SameItem(one, new) /\ new.pc = pc
      BY <2>1, MatchesChanges
    <2>3. SameItem(old, new)
      BY <2>1, <2>2, SameItemTwice
    <2>4. BecomeSync(c, new)
      BY <1>4
    <2>. QED BY <1>1, <1>2, <2>2, <2>3, <2>4, ItemGoesOn DEF SameItem, AtRow
  <1>. QED BY <1>3, <1>4 DEF LookAgain

\* What the contact centre shows afterwards is a person's version.
LEMMA WriteContactKept ==
  ASSUME SyncInv, NEW c \in SyncCall, WriteContact(c)
  PROVE  SyncInv'
  <1>1. /\ syncCall[c].pc \in AtRow \ {"settle"} /\ syncCall[c].pc \in AtItem \ {"settle", "record"}
        /\ UNCHANGED <<syncClock, staffVars, member, operation, item, clerk>>
    BY DEF WriteContact, AtItem, AtRow
  <1>. PICK old \in SyncCallState : old = syncCall[c] /\ old.member \in Here
    BY <1>1, AtItemHolds
  <1>2. listed' \in [Here -> Shown]
    <2>1. old.source \in Shown
      BY DEF SyncCallState
    <2>. QED BY <2>1 DEF WriteContact, SyncInv, SyncTypeOK
  <1>3. CASE \E result \in {"FAILED", "UNKNOWN"} : Conclude(c, result, FALSE)
    BY <1>1, <1>2, <1>3, Concludes
  <1>4. CASE BecomeSync(c, [old EXCEPT !.pc = "read", !.attempted = TRUE])
    <2>. PICK one : one = [old EXCEPT !.pc = "read"]
      OBVIOUS
    <2>1. SameItem(old, one) /\ one.pc = "read" /\ one \in SyncCallState
      BY PcChanges DEF SameItem
    <2>. PICK new : new = [one EXCEPT !.attempted = TRUE]
      OBVIOUS
    <2>2. SameItem(one, new) /\ new.pc = "read"
      BY <2>1, AttemptedChanges
    <2>3. SameItem(old, new)
      BY <2>1, <2>2, SameItemTwice
    <2>4. BecomeSync(c, new)
      BY <1>4
    <2>. QED BY <1>1, <1>2, <2>2, <2>3, <2>4, ItemGoesOn DEF SameItem, AtRow
  <1>. QED BY <1>3, <1>4 DEF WriteContact

LEMMA ReadContactKept ==
  ASSUME SyncInv, NEW c \in SyncCall, ReadContact(c)
  PROVE  SyncInv'
  <1>1. /\ syncCall[c].pc \in AtRow \ {"settle"} /\ syncCall[c].pc \in AtItem \ {"settle", "record"}
        /\ UNCHANGED <<syncClock, staffVars, listed, member, operation, item, clerk>>
    BY DEF ReadContact, AtItem, AtRow
  <1>2. listed' \in [Here -> Shown]
    BY <1>1 DEF SyncInv, SyncTypeOK
  <1>3. CASE Conclude(c, Doubt(c), FALSE)
    BY <1>1, <1>2, <1>3, Concludes, DoubtType
  <1>4. CASE BecomeSync(c, [syncCall[c] EXCEPT !.pc = "confirm"])
    <2>. PICK old \in SyncCallState : old = syncCall[c]
      BY <1>1, AtItemHolds
    <2>. PICK new : new = [old EXCEPT !.pc = "confirm"]
      OBVIOUS
    <2>1. SameItem(old, new) /\ new.pc = "confirm" /\ BecomeSync(c, new)
      BY <1>4, PcChanges
    <2>. QED BY <1>1, <1>2, <2>1, ItemGoesOn DEF SameItem, AtRow
  <1>. QED BY <1>3, <1>4 DEF ReadContact

\* What is thrown at an item: its call gives the item up.
LEMMA ItemGivenUp ==
  ASSUME SyncInv, NEW c \in SyncCall, WriteRefused(c) \/ ItemFails(c)
  PROVE  SyncInv'
  <1>1. /\ syncCall[c].pc \in AtItem \ {"settle", "record"}
        /\ UNCHANGED <<syncClock, staffVars, listed, member, operation, item, clerk>>
    BY DEF WriteRefused, ItemFails, AtItem
  <1>2. listed' \in [Here -> Shown]
    BY <1>1 DEF SyncInv, SyncTypeOK
  <1>3. \E result \in {"DIFFERENCE", "FAILED", "UNKNOWN"}, limited \in BOOLEAN :
          Conclude(c, result, limited)
    BY DoubtType DEF WriteRefused, ItemFails
  <1>. QED BY <1>1, <1>2, <1>3, Concludes

LEMMA ObservedType ==
  ASSUME NEW old \in MemberRow, NEW shown \in Shown
  PROVE  LET new == [old EXCEPT !.observed = shown]
         IN  new \in MemberRow /\ new.version = old.version /\ new.state = old.state
  BY DEF MemberRow

LEMMA SyncedType ==
  ASSUME NEW old \in SyncCallState, NEW m \in ListMember
  PROVE  [old EXCEPT !.member = m, !.pc = "record", !.result = "SYNCED"] \in SyncCallState
  <1>1. PICK one \in SyncCallState : one = [old EXCEPT !.member = m]
    BY DEF SyncCallState
  <1>2. PICK two \in SyncCallState : two = [one EXCEPT !.pc = "record"]
    BY DEF SyncCallState
  <1>3. [two EXCEPT !.result = "SYNCED"] \in SyncCallState
    BY DEF SyncCallState, ItemStatus
  <1>. QED BY <1>1, <1>2, <1>3

\* The row is stored as synchronised under the lock of its own item.
LEMMA SaveRowKept ==
  ASSUME SyncInv, NEW c \in SyncCall, SaveRow(c)
  PROVE  SyncInv'
  <1>1. /\ syncCall[c].pc = "save" /\ syncCall[c].pc \in AtItem \ {"settle", "record"}
        /\ UNCHANGED <<syncClock, staffVars, operation, item, clerk>>
        /\ person' = person /\ item' = item /\ operation' = operation /\ listed' = listed
    BY DEF SaveRow, staffVars, AtItem
  <1>. PICK old \in SyncCallState :
         /\ old = syncCall[c] /\ old.operation \in DOMAIN operation
         /\ old.operation \in DOMAIN item /\ old.todo \subseteq DOMAIN item[old.operation]
         /\ old.member \in DOMAIN item[old.operation] /\ old.member \in Here
         /\ item[old.operation][old.member].version \in Nat
         /\ member[old.member] \in MemberRow
    BY <1>1, AtItemHolds
  <1>. PICK o \in DOMAIN item, m \in Here : o = old.operation /\ m = old.member
    OBVIOUS
  <1>. PICK version \in Nat : version = item[o][m].version
    OBVIOUS
  <1>2. listed' \in [Here -> Shown]
    BY <1>1 DEF SyncInv, SyncTypeOK
  <1>3. CASE Conclude(c, Doubt(c), FALSE) /\ UNCHANGED member
    BY <1>1, <1>2, <1>3, Concludes, DoubtType
  <1>4. CASE /\ AtVersion(m, version + 1) /\ member[m].state = "SYNCING"
             /\ PutMember(m, [Stored(member[m], "LINKED") EXCEPT !.observed = old.source])
             /\ BecomeSync(c, [Between(o, old.todo) EXCEPT !.member = m, !.pc = "record",
                                 !.result = "SYNCED"])
    <2>. PICK stored \in MemberRow :
           /\ stored = Stored(member[m], "LINKED") /\ stored.version = member[m].version + 1
           /\ stored.state = "LINKED"
      BY StoredType DEF SyncState
    <2>1. old.source \in Shown /\ old.todo \subseteq ListMember /\ o \in SyncOperation /\ m \in ListMember
      BY DEF SyncCallState, SyncInv, SyncTypeOK
    <2>. PICK entry : entry = [stored EXCEPT !.observed = old.source]
      OBVIOUS
    <2>0. entry \in MemberRow /\ entry.version = member[m].version + 1 /\ entry.state = "LINKED"
      <3>1. entry \in MemberRow /\ entry.version = stored.version /\ entry.state = stored.state
        BY <2>1, ObservedType
      <3>. QED BY <3>1
    <2>2. /\ entry.version > member[m].version /\ member[m].version = version + 1
          /\ entry.version = version + 2
      <3>1. member[m].version = version + 1
        BY <1>4 DEF AtVersion
      <3>. QED BY <2>0, <3>1
    <2>3. /\ member' \in [Here -> MemberRow] /\ RowsGrow /\ member'[m] = entry
      BY <1>1, <1>4, <2>0, <2>2, RowStored
    <2>. PICK between \in SyncCallState : between = Between(o, old.todo)
      BY <2>1, BetweenType
    <2>. PICK new : new = [between EXCEPT !.member = m, !.pc = "record", !.result = "SYNCED"]
      OBVIOUS
    <2>4. new \in SyncCallState
      BY <2>1, SyncedType
    <2>5. /\ new.operation = o /\ new.todo = old.todo /\ new.member = m /\ new.pc = "record"
          /\ new.result = "SYNCED"
      BY DEF Between
    <2>6. AdvanceFits(new)'
      <3>1. AdvanceFits(new)
        BY <2>5 DEF AdvanceFits, AtItem, AtRow
      <3>. QED BY <1>1, <2>5, <3>1 DEF AdvanceFits, AtItem, AtRow
    <2>7. SavedNow(o, m)
      <3>1. member'[m].version = version + 2 /\ member'[m].state # "SYNCING"
        BY <2>0, <2>2, <2>3
      <3>. QED BY <1>4, <2>2, <3>1 DEF SavedNow
    <2>8. \A p, n : SaysSynced(new, p, n) => p = o /\ n = m
      BY <2>5 DEF SaysSynced
    <2>9. BecomeSync(c, new)
      BY <1>4
    <2>. QED BY <1>1, <1>2, <2>3, <2>4, <2>6, <2>7, <2>8, <2>9, AdvanceStepKept, SMTT(30)
  <1>. QED BY <1>1, <1>3, <1>4 DEF SaveRow

LEMMA SettleRowKept ==
  ASSUME SyncInv, NEW c \in SyncCall, SettleRow(c)
  PROVE  SyncInv'
  <1>1. /\ syncCall[c].pc = "settle" /\ syncCall[c].pc \in AtItem
        /\ UNCHANGED <<syncClock, staffVars, operation, item, clerk>>
        /\ person' = person /\ item' = item /\ operation' = operation /\ listed' = listed
    BY DEF SettleRow, staffVars, AtItem
  <1>. PICK old \in SyncCallState :
         /\ old = syncCall[c] /\ AdvanceFits(old) /\ old.operation \in DOMAIN operation
         /\ old.todo \subseteq DOMAIN item[old.operation]
         /\ old.member \in DOMAIN item[old.operation] /\ old.member \in Here
         /\ member[old.member] \in MemberRow
    BY <1>1, AtItemHolds
  <1>. PICK new : new = [old EXCEPT !.pc = "record"]
    OBVIOUS
  <1>2. SameItem(old, new) /\ new.pc = "record" /\ new.result = old.result /\ BecomeSync(c, new)
    <2>1. SameItem(old, new) /\ new.pc = "record"
      BY PcChanges
    <2>2. new.result = old.result
      BY DEF SyncCallState
    <2>3. BecomeSync(c, new)
      BY DEF SettleRow
    <2>. QED BY <2>1, <2>2, <2>3
  <1>3. old.result \in {"DIFFERENCE", "FAILED", "UNKNOWN"}
    BY <1>1 DEF AdvanceFits
  <1>4. listed' \in [Here -> Shown]
    BY <1>1 DEF SyncInv, SyncTypeOK
  <1>5. member' \in [Here -> MemberRow] /\ RowsGrow
    <2>1. CASE UNCHANGED member
      BY <1>1, <2>1 DEF SyncInv, SyncTypeOK, RowsGrow
    <2>2. CASE PutMember(old.member, Stored(member[old.member], old.result))
      <3>1. old.result \in SyncState
        BY <1>3 DEF SyncState
      <3>. QED BY <1>1, <2>2, <3>1, StoredType, RowStored
    <2>. QED BY <2>1, <2>2 DEF SettleRow
  <1>6. AdvanceFits(new)'
    BY <1>1, <1>2, <1>3 DEF AdvanceFits, SameItem, AtItem, AtRow
  <1>7. \A o, m : ~SaysSynced(new, o, m)
    BY <1>2, <1>3 DEF SaysSynced
  <1>8. new \in SyncCallState
    BY <1>2 DEF SameItem
  <1>. QED BY <1>1, <1>2, <1>4, <1>5, <1>6, <1>7, <1>8, AdvanceStepKept

-----------------------------------------------------------------------------
(* Regular groups: steps that change items and operations.                 *)

LEMMA FinishType ==
  ASSUME NEW old \in SyncCallState, NEW result \in {"PARTIAL", "COMPLETED"}
  PROVE  \E new \in SyncCallState :
           /\ new = [old EXCEPT !.pc = "finish", !.result = result]
           /\ new.pc = "finish" /\ new.operation = old.operation /\ new.todo = old.todo
           /\ new.result = result
  <1>1. PICK one \in SyncCallState : one = [old EXCEPT !.pc = "finish"]
    BY DEF SyncCallState
  <1>2. PICK new \in SyncCallState : new = [one EXCEPT !.result = result]
    BY DEF SyncCallState
  <1>3. /\ new.pc = "finish" /\ new.operation = old.operation /\ new.todo = old.todo
        /\ new.result = result
    BY <1>1, <1>2 DEF SyncCallState
  <1>4. new = [old EXCEPT !.pc = "finish", !.result = result]
    BY <1>1, <1>2
  <1>. QED BY <1>3, <1>4

LEMMA CountItemsKept ==
  ASSUME SyncInv, NEW c \in SyncCall, CountItems(c)
  PROVE  SyncInv'
  <1>1. syncCall[c].pc = "count"
        /\ UNCHANGED <<syncClock, staffVars, listed, member, operation, item, clerk>>
    BY DEF CountItems
  <1>. PICK old \in SyncCallState :
         /\ old = syncCall[c] /\ old.operation \in DOMAIN operation
         /\ old.todo \subseteq DOMAIN item[old.operation]
    BY <1>1, AdvanceHolds
  <1>. PICK found : found = StatusesOf(old.operation)
    OBVIOUS
  <1>. PICK result \in {"PARTIAL", "COMPLETED"} :
         result = IF found \subseteq {"SYNCED"} THEN "COMPLETED" ELSE "PARTIAL"
    OBVIOUS
  <1>2. CASE BecomeSync(c, NotCalled)
    BY <1>1, <1>2, StopAdvanceKept
  <1>3. CASE /\ found \cap {"PENDING", "RUNNING"} = {}
             /\ BecomeSync(c, [old EXCEPT !.pc = "finish", !.result = result])
    <2>. PICK new \in SyncCallState :
           /\ new = [old EXCEPT !.pc = "finish", !.result = result]
           /\ new.pc = "finish" /\ new.operation = old.operation /\ new.todo = old.todo
           /\ new.result = result
      BY FinishType
    <2>1. OverWith(new.operation, new.result)
      BY <1>3 DEF OverWith, OpenItem
    <2>2. AdvanceFits(new)
      BY <2>1 DEF AdvanceFits, AtItem, AtRow
    <2>3. \A o, m : ~SaysSynced(new, o, m)
      BY DEF SaysSynced
    <2>4. listed' \in [Here -> Shown]
      BY <1>1 DEF SyncInv, SyncTypeOK
    <2>. QED BY <1>1, <1>3, <2>2, <2>3, <2>4, AdvanceMoves
  <1>. QED BY <1>2, <1>3 DEF CountItems

\* Items keep their versions; one that is over stays as it is.
ItemsMove ==
  /\ DOMAIN item' = DOMAIN item
  /\ \A o \in DOMAIN item :
       DOMAIN item'[o] = DOMAIN item[o] /\ item'[o] \in [DOMAIN item[o] -> ItemRow]
  /\ \A o \in DOMAIN item : \A m \in DOMAIN item[o] :
       /\ item'[o][m].version = item[o][m].version
       /\ item[o][m].status \notin OpenItem => item'[o][m].status = item[o][m].status
       /\ item'[o][m].status = "SYNCED" => Done(o, m)

LEMMA OverStays ==
  ASSUME SyncInv, ItemsMove, NEW o \in DOMAIN item, NEW status, OverWith(o, status)
  PROVE  OverWith(o, status)'
  <1>1. \A m \in DOMAIN item[o] : item[o][m].status \notin OpenItem
    BY DEF OverWith, StatusesOf
  <1>2. /\ DOMAIN item'[o] = DOMAIN item[o]
        /\ \A m \in DOMAIN item[o] : item'[o][m].status = item[o][m].status
    BY <1>1 DEF ItemsMove
  <1>3. StatusesOf(o)' = StatusesOf(o)
    BY <1>2 DEF StatusesOf
  <1>. QED BY <1>3 DEF OverWith, OpenItem

LEMMA ItemStepKept ==
  ASSUME SyncInv, NEW c \in SyncCall, NEW new \in SyncCallState, BecomeSync(c, new),
         UNCHANGED <<syncClock, staffVars, listed, member, operation, clerk>>, ItemsMove,
         new.pc # "finish", AdvanceFits(new), \A o, m : ~SaysSynced(new, o, m)
  PROVE  SyncInv'
  <1>0. /\ syncClock' = syncClock /\ deeds' = deeds /\ list' = list /\ person' = person
        /\ operation' = operation /\ member' = member /\ clerk' = clerk /\ listed' = listed
        /\ Here' = Here /\ DOMAIN item = DOMAIN operation
    BY DEF staffVars, Here, SyncInv, SyncTypeOK
  <1>1. syncCall' \in [SyncCall -> {NotCalled} \cup SyncCallState]
        /\ \A d \in SyncCall : syncCall'[d] = IF d = c THEN new ELSE syncCall[d]
    BY DEF SyncInv, SyncTypeOK, BecomeSync
  <1>2. SyncTypeOK'
    <2>1. \A o \in DOMAIN item' : DOMAIN item'[o] \subseteq Here' /\ item'[o] \in [DOMAIN item'[o] -> ItemRow]
      BY <1>0 DEF ItemsMove, SyncInv, SyncTypeOK
    <2>. QED BY <1>0, <1>1, <2>1 DEF SyncInv, SyncTypeOK, ItemsMove
  <1>3. PersonsCounted' /\ \A k \in Clerk : ClerkFits(clerk[k])'
    BY <1>0 DEF SyncInv, PersonsCounted, ClerkFits
  <1>4. ASSUME NEW x, AdvanceFits(x) PROVE AdvanceFits(x)'
    <2>1. ASSUME x.pc # "idle" PROVE x.operation \in DOMAIN item
      BY <1>0, <1>4, <2>1 DEF AdvanceFits
    <2>2. ASSUME x.pc = "finish" PROVE OverWith(x.operation, x.result)'
      <3>1. OverWith(x.operation, x.result)
        BY <1>4, <2>2 DEF AdvanceFits
      <3>. QED BY <2>1, <2>2, <3>1, OverStays
    <2>3. \A m, v : LinkedAt(m, v)' <=> LinkedAt(m, v)
      BY <1>0 DEF LinkedAt
    <2>4. ASSUME x.pc \in AtItem, x.pc # "idle"
          PROVE  /\ x.member \in DOMAIN item[x.operation]
                 /\ item'[x.operation][x.member].version = item[x.operation][x.member].version
      BY <1>4, <2>1, <2>4 DEF AdvanceFits, ItemsMove
    <2>5. ASSUME x.pc # "idle" PROVE DOMAIN item'[x.operation] = DOMAIN item[x.operation]
      BY <2>1, <2>5 DEF ItemsMove
    <2>6. "lock" \in AtItem /\ AtRow \subseteq AtItem
      BY DEF AtItem, AtRow
    <2>. QED BY <1>0, <1>4, <2>1, <2>2, <2>3, <2>4, <2>5, <2>6 DEF AdvanceFits
  <1>5. \A d \in SyncCall : AdvanceFits(syncCall[d])'
    <2>1. ASSUME NEW d \in SyncCall PROVE AdvanceFits(syncCall[d])'
      <3>1. PICK x : x = IF d = c THEN new ELSE syncCall[d]
        OBVIOUS
      <3>2. AdvanceFits(x)
        BY <3>1 DEF SyncInv
      <3>3. AdvanceFits(x)' /\ syncCall'[d] = x
        BY <1>1, <1>4, <3>1, <3>2
      <3>. QED BY <3>3 DEF AdvanceFits
    <2>. QED BY <2>1
  <1>6. OperationsTell'
    BY <1>0, OverStays DEF SyncInv, OperationsTell
  <1>7. ItemsBehind'
    BY <1>0 DEF SyncInv, ItemsBehind, ItemsMove
  <1>8. ASSUME NEW o \in DOMAIN item, NEW m \in DOMAIN item[o], Done(o, m)' PROVE Done(o, m)
    <2>1. CASE item'[o][m].status = "SYNCED"
      BY <2>1 DEF ItemsMove
    <2>2. CASE \E d \in SyncCall : SaysSynced(syncCall'[d], o, m)
      BY <1>1, <2>2 DEF Done
    <2>. QED BY <1>8, <2>1, <2>2 DEF Done
  <1>9. ASSUME NEW o \in DOMAIN item, NEW m \in DOMAIN item[o]
        PROVE  /\ LockReleased(o, m)' <=> LockReleased(o, m)
               /\ \A p \in DOMAIN item : m \in DOMAIN item[p] => (InTurn(o, p, m)' <=> InTurn(o, p, m))
    BY <1>0 DEF LockReleased, InTurn, ItemsMove
  <1>10. DoneInTurn'
    <2>1. ASSUME NEW o \in DOMAIN item, NEW m \in DOMAIN item[o], Done(o, m)'
          PROVE  /\ LockReleased(o, m)'
                 /\ \A p \in DOMAIN item \ {o} : m \in DOMAIN item[p] /\ Done(p, m)' => InTurn(o, p, m)'
      BY <1>8, <1>9, <2>1 DEF SyncInv, DoneInTurn
    <2>2. DOMAIN item' = DOMAIN item /\ \A o \in DOMAIN item : DOMAIN item'[o] = DOMAIN item[o]
      BY DEF ItemsMove
    <2>. QED BY <2>1, <2>2 DEF DoneInTurn
  <1>. QED BY <1>2, <1>3, <1>5, <1>6, <1>7, <1>10 DEF SyncInv

LEMMA BetweenHolds ==
  ASSUME SyncInv, NEW o \in DOMAIN operation, NEW todo \in SUBSET DOMAIN item[o]
  PROVE  \E new \in SyncCallState :
           /\ new = Between(o, todo) /\ AdvanceFits(new) /\ new.pc = "next"
           /\ new.operation = o /\ new.todo = todo /\ new.claimed = FALSE
           /\ \A p, m : ~SaysSynced(new, p, m)
  <1>1. o \in SyncOperation /\ todo \subseteq ListMember
    BY DEF SyncInv, SyncTypeOK
  <1>. PICK new \in SyncCallState : new = Between(o, todo)
    BY <1>1, BetweenType
  <1>2. new.pc = "next" /\ new.operation = o /\ new.todo = todo /\ new.claimed = FALSE
    BY DEF Between
  <1>3. AdvanceFits(new) /\ \A p, m : ~SaysSynced(new, p, m)
    BY <1>2 DEF AdvanceFits, SaysSynced, AtItem, AtRow
  <1>. QED BY <1>2, <1>3

LEMMA OperationItems ==
  ASSUME SyncInv
  PROVE  /\ DOMAIN item = DOMAIN operation
         /\ \A o \in DOMAIN item : item[o] \in [DOMAIN item[o] -> ItemRow]
         /\ syncClock \in Nat
  BY SyncBounds DEF SyncInv, SyncTypeOK

\* One item gets another row.
ItemBecomes(o, m, entry) == item' = [item EXCEPT ![o] = [@ EXCEPT ![m] = entry]]

LEMMA OneItemMoves ==
  ASSUME SyncInv, NEW o \in DOMAIN item, NEW m \in DOMAIN item[o], NEW entry \in ItemRow,
         item[o][m].status \in OpenItem, entry.version = item[o][m].version,
         entry.status = "SYNCED" => Done(o, m), ItemBecomes(o, m, entry)
  PROVE  ItemsMove
  <1>1. \A p \in DOMAIN item : item[p] \in [DOMAIN item[p] -> ItemRow]
    BY OperationItems
  <1>. PICK items : items = [item[o] EXCEPT ![m] = entry]
    OBVIOUS
  <1>2. /\ items \in [DOMAIN item[o] -> ItemRow] /\ DOMAIN items = DOMAIN item[o]
        /\ \A n \in DOMAIN item[o] : items[n] = IF n = m THEN entry ELSE item[o][n]
    BY <1>1
  <1>3. /\ DOMAIN item' = DOMAIN item
        /\ \A p \in DOMAIN item : item'[p] = IF p = o THEN items ELSE item[p]
    BY DEF ItemBecomes
  <1>4. \A p \in DOMAIN item :
          DOMAIN item'[p] = DOMAIN item[p] /\ item'[p] \in [DOMAIN item[p] -> ItemRow]
    BY <1>1, <1>2, <1>3
  <1>5. ASSUME NEW p \in DOMAIN item, NEW n \in DOMAIN item[p]
        PROVE  item'[p][n] = IF p = o /\ n = m THEN entry ELSE item[p][n]
    BY <1>2, <1>3
  <1>6. ASSUME NEW p \in DOMAIN item, NEW n \in DOMAIN item[p]
        PROVE  /\ item'[p][n].version = item[p][n].version
               /\ item[p][n].status \notin OpenItem => item'[p][n].status = item[p][n].status
               /\ item'[p][n].status = "SYNCED" => Done(p, n)
    <2>1. CASE p = o /\ n = m
      BY <1>5, <2>1
    <2>2. CASE ~(p = o /\ n = m)
      BY <1>5, <2>2 DEF Done
    <2>. QED BY <2>1, <2>2
  <1>. QED BY <1>3, <1>4, <1>6 DEF ItemsMove

LEMMA ClaimedItem ==
  ASSUME NEW before \in ItemRow, NEW t \in Nat
  PROVE  LET entry == [before EXCEPT !.status = "RUNNING", !.claimed = t]
         IN  entry \in ItemRow /\ entry.version = before.version /\ entry.status = "RUNNING"
  <1>1. PICK one \in ItemRow : one = [before EXCEPT !.status = "RUNNING"]
    BY DEF ItemRow, ItemStatus
  <1>2. PICK entry \in ItemRow : entry = [one EXCEPT !.claimed = t]
    BY DEF ItemRow
  <1>3. entry = [before EXCEPT !.status = "RUNNING", !.claimed = t]
    BY <1>1, <1>2
  <1>4. entry.version = before.version /\ entry.status = "RUNNING"
    BY <1>1, <1>2 DEF ItemRow
  <1>. QED BY <1>3, <1>4

LEMMA CheckType ==
  ASSUME NEW old \in SyncCallState, NEW m \in ListMember
  PROVE  \E new \in SyncCallState :
           /\ new = [old EXCEPT !.pc = "check", !.member = m]
           /\ new.pc = "check" /\ new.operation = old.operation /\ new.todo = old.todo
           /\ new.member = m /\ new.claimed = old.claimed
  <1>1. PICK one \in SyncCallState : one = [old EXCEPT !.pc = "check"]
    BY DEF SyncCallState
  <1>2. PICK new \in SyncCallState : new = [one EXCEPT !.member = m]
    BY DEF SyncCallState
  <1>3. /\ new.pc = "check" /\ new.operation = old.operation /\ new.todo = old.todo
        /\ new.member = m /\ new.claimed = old.claimed
    BY <1>1, <1>2 DEF SyncCallState
  <1>4. new = [old EXCEPT !.pc = "check", !.member = m]
    BY <1>1, <1>2
  <1>. QED BY <1>3, <1>4

LEMMA ClaimItemKept ==
  ASSUME SyncInv, NEW c \in SyncCall, ClaimItem(c)
  PROVE  SyncInv'
  <1>1. syncCall[c].pc = "next"
        /\ UNCHANGED <<syncClock, staffVars, listed, member, operation, clerk>>
    BY DEF ClaimItem
  <1>. PICK old \in SyncCallState :
         /\ old = syncCall[c] /\ old.operation \in DOMAIN operation
         /\ old.operation \in DOMAIN item /\ old.todo \subseteq DOMAIN item[old.operation]
    BY <1>1, AdvanceHolds
  <1>. PICK o \in DOMAIN item : o = old.operation
    OBVIOUS
  <1>2. ASSUME NEW m \in old.todo, item[o][m].status = "PENDING",
               item' = [item EXCEPT ![o][m].status = "RUNNING", ![o][m].claimed = syncClock],
               BecomeSync(c, [Between(o, old.todo \ {m}) EXCEPT !.pc = "check", !.member = m])
        PROVE  SyncInv'
    <2>. PICK before \in ItemRow : before = item[o][m]
      BY OperationItems
    <2>. PICK entry : entry = [before EXCEPT !.status = "RUNNING", !.claimed = syncClock]
      OBVIOUS
    <2>1. entry \in ItemRow /\ entry.version = before.version /\ entry.status = "RUNNING"
      BY ClaimedItem, OperationItems, ZenonT(40)
    <2>2. ItemBecomes(o, m, entry)
      BY <1>2, OperationItems DEF ItemBecomes
    <2>3. ItemsMove
      <3>1. item[o][m].status \in OpenItem /\ entry.status # "SYNCED" /\ m \in DOMAIN item[o]
        BY <1>2, <2>1 DEF OpenItem
      <3>. QED BY <2>1, <2>2, <3>1, OneItemMoves
    <2>. PICK todo \in SUBSET DOMAIN item[o] : todo = old.todo \ {m}
      OBVIOUS
    <2>. PICK between \in SyncCallState :
           /\ between = Between(o, todo) /\ between.operation = o
           /\ between.todo = todo /\ between.claimed = FALSE
      <3>1. o \in DOMAIN operation
        OBVIOUS
      <3>2. \E new \in SyncCallState :
              /\ new = Between(o, todo) /\ AdvanceFits(new) /\ new.pc = "next"
              /\ new.operation = o /\ new.todo = todo /\ new.claimed = FALSE
              /\ \A p, n : ~SaysSynced(new, p, n)
        BY <3>1, BetweenHolds
      <3>. QED BY <3>2
    <2>4. m \in ListMember
      BY ItemType DEF SyncInv, SyncTypeOK
    <2>. PICK new \in SyncCallState :
           /\ new = [between EXCEPT !.pc = "check", !.member = m]
           /\ new.pc = "check" /\ new.operation = between.operation /\ new.todo = between.todo
           /\ new.member = m /\ new.claimed = between.claimed
      BY ZenonT(40), <2>4, CheckType
    <2>5. BecomeSync(c, new)
      BY <1>2
    <2>6. AdvanceFits(new)
      BY DEF AdvanceFits, AtItem, AtRow
    <2>7. \A p, n : ~SaysSynced(new, p, n)
      BY DEF SaysSynced
    <2>. QED BY <1>1, <2>3, <2>5, <2>6, <2>7, ItemStepKept
  <1>3. ASSUME NEW m \in old.todo, BecomeSync(c, [old EXCEPT !.todo = @ \ {m}]), UNCHANGED item
        PROVE  SyncInv'
    <2>. PICK new : new = [old EXCEPT !.todo = @ \ {m}]
      OBVIOUS
    <2>1. /\ new \in SyncCallState /\ new.pc = "next" /\ new.operation = o
          /\ new.todo \subseteq old.todo
      BY <1>1 DEF SyncCallState
    <2>2. AdvanceFits(new) /\ \A p, n : ~SaysSynced(new, p, n)
      BY <2>1 DEF AdvanceFits, SaysSynced, AtItem, AtRow
    <2>3. listed' \in [Here -> Shown]
      BY <1>1 DEF SyncInv, SyncTypeOK
    <2>. QED BY <1>1, <1>3, <2>1, <2>2, <2>3, AdvanceMoves
  <1>. QED BY <1>2, <1>3 DEF ClaimItem

\* Items that are given up were claimed long ago.
LEMMA BeginAdvanceKept ==
  ASSUME SyncInv, NEW c \in SyncCall, NEW o \in DOMAIN operation, BeginAdvance(c, o)
  PROVE  SyncInv'
  <1> DEFINE late(m) == item[o][m].status = "RUNNING" /\ item[o][m].claimed + ItemLife < syncClock
             after(m) == IF late(m) THEN [item[o][m] EXCEPT !.status = "UNKNOWN", !.limited = FALSE]
                         ELSE item[o][m]
             waiting == {m \in DOMAIN item[o] : item[o][m].status = "PENDING"}
  <1>1. /\ UNCHANGED <<syncClock, staffVars, listed, member, operation, clerk>>
        /\ item' = [item EXCEPT ![o] = [m \in DOMAIN item[o] |-> after(m)]]
    BY DEF BeginAdvance
  <1>2. o \in DOMAIN item /\ \A p \in DOMAIN item : item[p] \in [DOMAIN item[p] -> ItemRow]
    BY OperationItems
  <1>3. ASSUME NEW m \in DOMAIN item[o]
        PROVE  /\ after(m) \in ItemRow /\ after(m).version = item[o][m].version
               /\ after(m).status = item[o][m].status
                  \/ (item[o][m].status = "RUNNING" /\ after(m).status = "UNKNOWN")
    <2>. PICK entry \in ItemRow : entry = item[o][m]
      BY <1>2
    <2>1. CASE late(m)
      <3>. PICK one \in ItemRow : one = [entry EXCEPT !.status = "UNKNOWN"]
        BY DEF ItemRow, ItemStatus
      <3>. PICK two \in ItemRow : two = [one EXCEPT !.limited = FALSE]
        BY DEF ItemRow
      <3>1. two.version = entry.version /\ two.status = "UNKNOWN" /\ after(m) = two
        BY <2>1 DEF ItemRow
      <3>. QED BY <2>1, <3>1
    <2>2. CASE ~late(m)
      BY <2>2
    <2>. QED BY <2>1, <2>2
  <1>. HIDE DEF after
  <1>4. ItemsMove
    <2>1. /\ DOMAIN item' = DOMAIN item
          /\ \A p \in DOMAIN item : DOMAIN item'[p] = DOMAIN item[p]
               /\ item'[p] \in [DOMAIN item[p] -> ItemRow]
      BY <1>1, <1>2, <1>3
    <2>2. ASSUME NEW p \in DOMAIN item, NEW m \in DOMAIN item[p]
          PROVE  item'[p][m] = IF p = o THEN after(m) ELSE item[p][m]
      BY <1>1, <1>2
    <2>3. ASSUME NEW p \in DOMAIN item, NEW m \in DOMAIN item[p]
          PROVE  /\ item'[p][m].version = item[p][m].version
                 /\ item[p][m].status \notin OpenItem => item'[p][m].status = item[p][m].status
                 /\ item'[p][m].status = "SYNCED" => Done(p, m)
      <3>1. CASE p = o
        BY <1>3, <2>2, <3>1 DEF Done, OpenItem
      <3>2. CASE p # o
        BY <2>2, <3>2 DEF Done
      <3>. QED BY <3>1, <3>2
    <2>. QED BY <2>1, <2>3 DEF ItemsMove
  <1>. PICK new \in SyncCallState :
         /\ new = Between(o, waiting) /\ AdvanceFits(new) /\ new.pc = "next"
         /\ \A p, m : ~SaysSynced(new, p, m)
    BY BetweenHolds
  <1>5. BecomeSync(c, new)
    BY DEF BeginAdvance
  <1>. QED BY <1>1, <1>4, <1>5, ItemStepKept

\* What is recorded is what the call has stored in its row.
LEMMA RecordItemKept ==
  ASSUME SyncInv, NEW c \in SyncCall, RecordItem(c)
  PROVE  SyncInv'
  <1>1. /\ syncCall[c].pc = "record" /\ syncCall[c].pc \in AtItem
        /\ UNCHANGED <<syncClock, staffVars, listed, member, operation, clerk>>
    BY DEF RecordItem, AtItem
  <1>. PICK old \in SyncCallState :
         /\ old = syncCall[c] /\ AdvanceFits(old) /\ old.operation \in DOMAIN operation
         /\ old.operation \in DOMAIN item /\ old.todo \subseteq DOMAIN item[old.operation]
         /\ old.member \in DOMAIN item[old.operation]
    BY <1>1, AtItemHolds
  <1>. PICK o \in DOMAIN item : o = old.operation
    OBVIOUS
  <1>. PICK m \in DOMAIN item[o] : m = old.member
    OBVIOUS
  <1>. PICK before \in ItemRow : before = item[o][m]
    BY OperationItems
  <1>2. old.result \in {"SYNCED", "DIFFERENCE", "FAILED", "UNKNOWN"} /\ old.limited \in BOOLEAN
    BY <1>1 DEF AdvanceFits, SyncCallState
  <1>. PICK result \in ItemStatus : result = old.result
    BY <1>2 DEF ItemStatus
  <1>. PICK limited \in BOOLEAN : limited = old.limited
    BY <1>2
  <1>3. PICK entry \in ItemRow :
          /\ entry = [before EXCEPT !.status = result, !.limited = limited]
          /\ entry.version = before.version /\ entry.status = result
    <2>1. PICK one \in ItemRow : one = [before EXCEPT !.status = result]
      BY DEF ItemRow
    <2>2. PICK entry \in ItemRow : entry = [one EXCEPT !.limited = limited]
      BY DEF ItemRow
    <2>3. entry = [before EXCEPT !.status = result, !.limited = limited]
      BY <2>1, <2>2
    <2>4. entry.version = before.version /\ entry.status = result
      BY <2>1, <2>2 DEF ItemRow
    <2>. QED BY <2>3, <2>4
  <1>4. ItemsMove
    <2>1. CASE before.status = "RUNNING"
      <3>1. ItemBecomes(o, m, entry)
        BY <1>3, <2>1 DEF RecordItem, ItemBecomes
      <3>2. item[o][m].status \in OpenItem
        BY <2>1 DEF OpenItem
      <3>3. entry.status = "SYNCED" => Done(o, m)
        BY <1>1, <1>3 DEF Done, SaysSynced
      <3>. QED BY <1>3, <3>1, <3>2, <3>3, OneItemMoves
    <2>2. CASE before.status # "RUNNING"
      <3>1. item' = item
        BY <2>2 DEF RecordItem
      <3>. QED BY <3>1, OperationItems DEF ItemsMove, Done
    <2>. QED BY <2>1, <2>2
  <1>. PICK new \in SyncCallState :
         /\ new = Between(o, old.todo) /\ AdvanceFits(new) /\ new.pc = "next"
         /\ new.operation = o /\ new.todo = old.todo /\ new.claimed = FALSE
         /\ \A p, n : ~SaysSynced(new, p, n)
    BY BetweenHolds
  <1>5. BecomeSync(c, new)
    BY DEF RecordItem
  <1>. QED BY <1>1, <1>4, <1>5, ItemStepKept

LEMMA FinishOperationKept ==
  ASSUME SyncInv, NEW c \in SyncCall, FinishOperation(c)
  PROVE  SyncInv'
  <1>1. syncCall[c].pc = "finish"
    BY DEF FinishOperation
  <1>. PICK old \in SyncCallState :
         old = syncCall[c] /\ AdvanceFits(old) /\ old.operation \in DOMAIN operation
    BY <1>1, AdvanceHolds
  <1>. PICK o \in DOMAIN operation : o = old.operation
    OBVIOUS
  <1>. PICK result : result = old.result
    OBVIOUS
  <1>2. OverWith(o, result)
    BY <1>1 DEF AdvanceFits
  <1>3. /\ operation' = [operation EXCEPT ![o].status = result]
        /\ syncClock' = syncClock /\ deeds' = deeds /\ list' = list /\ person' = person
        /\ item' = item /\ member' = member /\ clerk' = clerk /\ listed' = listed /\ Here' = Here
    BY DEF FinishOperation, staffVars, Here
  <1>4. syncCall' \in [SyncCall -> {NotCalled} \cup SyncCallState]
        /\ \A d \in SyncCall : syncCall'[d] = IF d = c THEN NotCalled ELSE syncCall[d]
    BY DEF FinishOperation, SyncInv, SyncTypeOK, BecomeSync
  <1>5. /\ DOMAIN operation' = DOMAIN operation
        /\ \A p \in DOMAIN operation :
             operation'[p] = IF p = o THEN [operation[o] EXCEPT !.status = result] ELSE operation[p]
    BY <1>3 DEF SyncInv, SyncTypeOK
  <1>. PICK before \in OperationRow : before = operation[o]
    BY DEF SyncInv, SyncTypeOK
  <1>6. [before EXCEPT !.status = result] \in OperationRow
        /\ [before EXCEPT !.status = result].status = result
    BY <1>2 DEF OverWith, OperationRow
  <1>7. SyncTypeOK'
    <2>1. operation' \in [DOMAIN operation -> OperationRow]
      BY <1>3, <1>6 DEF SyncInv, SyncTypeOK
    <2>. QED BY <1>3, <1>4, <1>5, <2>1 DEF SyncInv, SyncTypeOK
  <1>8. PersonsCounted' /\ \A k \in Clerk : ClerkFits(clerk[k])'
    BY <1>3 DEF SyncInv, PersonsCounted, ClerkFits
  <1>9. \A p, s : OverWith(p, s)' <=> OverWith(p, s)
    BY <1>3 DEF OverWith, StatusesOf
  <1>10. ASSUME NEW d \in SyncCall PROVE AdvanceFits(syncCall[d])'
    <2>1. PICK x : x = syncCall[d] /\ AdvanceFits(x)
      BY DEF SyncInv
    <2>2. AdvanceFits(x)'
      BY <1>3, <1>5, <1>9, <2>1 DEF AdvanceFits, LinkedAt
    <2>3. AdvanceFits(NotCalled)'
      BY DEF AdvanceFits, NotCalled
    <2>4. syncCall'[d] = x \/ syncCall'[d] = NotCalled
      BY <1>4, <2>1
    <2>. QED BY <2>2, <2>3, <2>4 DEF AdvanceFits
  <1>11. OperationsTell'
    <2>1. ASSUME NEW p \in DOMAIN operation, operation'[p].status # "PENDING"
          PROVE  OverWith(p, operation'[p].status)
      BY <1>2, <1>5, <1>6, <2>1 DEF SyncInv, OperationsTell
    <2>. QED BY <1>5, <1>9, <2>1 DEF OperationsTell
  <1>12. ItemsBehind'
    BY <1>3 DEF SyncInv, ItemsBehind
  <1>13. ASSUME NEW p, NEW m, Done(p, m)' PROVE Done(p, m)
    BY <1>3, <1>4, <1>13 DEF Done, SaysSynced, NotCalled
  <1>14. DoneInTurn'
    BY <1>3, <1>13 DEF SyncInv, DoneInTurn, LockReleased, InTurn
  <1>. QED BY <1>7, <1>8, <1>10, <1>11, <1>12, <1>14 DEF SyncInv

\* A new operation has items that wait, at the versions of their rows.
LEMMA StartSyncKept ==
  ASSUME SyncInv, NEW o \in SyncOperation, NEW chosen \in SUBSET Here, StartSync(o, chosen)
  PROVE  SyncInv'
  <1>. PICK entry : entry = [status |-> IF chosen = {} THEN "COMPLETED" ELSE "PENDING",
                         revision |-> list.version]
    OBVIOUS
  <1>0. PICK items : items = [m \in chosen |->
         [status |-> "PENDING", version |-> member[m].version, claimed |-> 0, limited |-> FALSE]]
    OBVIOUS
  <1>1. /\ o \notin DOMAIN operation /\ o \notin DOMAIN item /\ DOMAIN item = DOMAIN operation
        /\ operation' = [p \in DOMAIN operation \cup {o} |->
                           IF p # o THEN operation[p] ELSE entry]
        /\ item' = [p \in DOMAIN item \cup {o} |-> IF p # o THEN item[p] ELSE items]
    BY <1>0, OperationItems DEF StartSync
  <1>2. /\ syncClock' = syncClock /\ deeds' = deeds /\ list' = list /\ person' = person
        /\ member' = member /\ clerk' = clerk /\ listed' = listed /\ Here' = Here
        /\ syncCall' = syncCall
    BY DEF StartSync, staffVars, Here
  <1>3. /\ DOMAIN operation' = DOMAIN operation \cup {o} /\ DOMAIN item' = DOMAIN item \cup {o}
        /\ operation'[o] = entry /\ item'[o] = items /\ DOMAIN items = chosen
        /\ \A p \in DOMAIN operation : operation'[p] = operation[p] /\ item'[p] = item[p]
    BY <1>0, <1>1
  <1>4. entry \in OperationRow
    BY DEF OperationRow, SyncInv, SyncTypeOK
  <1>5. ASSUME NEW m \in chosen
        PROVE  items[m] \in ItemRow /\ items[m].status = "PENDING" /\ items[m].version = member[m].version
               /\ member[m].version \in Nat
    <2>1. member[m].version \in Nat
      BY DEF SyncInv, SyncTypeOK, MemberRow
    <2>. QED BY <1>0, <2>1 DEF ItemRow, ItemStatus
  <1>6. items \in [chosen -> ItemRow]
    BY <1>0, <1>5
  <1>7. SyncTypeOK'
    <2>1. operation' \in [DOMAIN operation' -> OperationRow]
      BY <1>1, <1>3, <1>4 DEF SyncInv, SyncTypeOK
    <2>2. \A p \in DOMAIN item' : DOMAIN item'[p] \subseteq Here /\ item'[p] \in [DOMAIN item'[p] -> ItemRow]
      BY <1>1, <1>3, <1>6 DEF SyncInv, SyncTypeOK
    <2>. QED BY <1>1, <1>2, <1>3, <2>1, <2>2 DEF SyncInv, SyncTypeOK
  <1>8. PersonsCounted' /\ \A k \in Clerk : ClerkFits(clerk[k])'
    BY <1>2 DEF SyncInv, PersonsCounted, ClerkFits
  <1>9. \A p \in DOMAIN operation : \A s : OverWith(p, s)' <=> OverWith(p, s)
    <2>1. \A p \in DOMAIN operation : StatusesOf(p)' = StatusesOf(p)
      BY <1>3 DEF StatusesOf
    <2>. QED BY <2>1 DEF OverWith, OpenItem
  <1>10. \A c \in SyncCall : AdvanceFits(syncCall[c])'
    <2>1. ASSUME NEW c \in SyncCall PROVE AdvanceFits(syncCall[c])'
      <3>1. PICK x : x = syncCall[c] /\ AdvanceFits(x)
        BY DEF SyncInv
      <3>2. AdvanceFits(x)'
        BY <1>2, <1>3, <1>9, <3>1 DEF AdvanceFits, LinkedAt
      <3>. QED BY <1>2, <3>1, <3>2 DEF AdvanceFits
    <2>. QED BY <2>1
  <1>11. OperationsTell'
    <2>1. ASSUME entry.status # "PENDING" PROVE OverWith(o, entry.status)'
      <3>1. chosen = {} /\ entry.status = "COMPLETED"
        BY <2>1
      <3>2. StatusesOf(o)' = {}
        BY <1>3, <3>1 DEF StatusesOf
      <3>. QED BY <3>1, <3>2 DEF OverWith
    <2>. QED BY <1>3, <1>9, <2>1 DEF SyncInv, OperationsTell
  <1>12. ItemsBehind'
    BY <1>1, <1>2, <1>3, <1>5 DEF SyncInv, ItemsBehind
  <1>13. ASSUME NEW p \in DOMAIN item', NEW m \in DOMAIN item'[p], Done(p, m)'
         PROVE  p \in DOMAIN item /\ Done(p, m)
    <2>1. p # o
      <3>1. \A c \in SyncCall : ~SaysSynced(syncCall[c], o, m)
        BY <1>1 DEF SyncInv, AdvanceFits, SaysSynced
      <3>2. ASSUME p = o PROVE item'[p][m].status # "SYNCED"
        BY <1>3, <1>5, <3>2
      <3>. QED BY <1>2, <1>13, <3>1, <3>2 DEF Done
    <2>. QED BY <1>1, <1>2, <1>3, <1>13, <2>1 DEF Done
  <1>14. DoneInTurn'
    <2>1. ASSUME NEW p \in DOMAIN item', NEW m \in DOMAIN item'[p], Done(p, m)'
          PROVE  LockReleased(p, m)'
      <3>1. p \in DOMAIN item /\ m \in DOMAIN item[p] /\ item'[p] = item[p] /\ LockReleased(p, m)
        BY <1>1, <1>3, <1>13, <2>1 DEF SyncInv, DoneInTurn
      <3>. QED BY <1>2, <3>1 DEF LockReleased
    <2>2. ASSUME NEW p \in DOMAIN item', NEW q \in DOMAIN item', p # q,
                 NEW m \in DOMAIN item'[p], m \in DOMAIN item'[q], Done(p, m)', Done(q, m)'
          PROVE  InTurn(p, q, m)'
      <3>1. /\ p \in DOMAIN item /\ q \in DOMAIN item /\ item'[p] = item[p] /\ item'[q] = item[q]
            /\ m \in DOMAIN item[p] /\ m \in DOMAIN item[q] /\ Done(p, m) /\ Done(q, m)
        BY <1>1, <1>3, <1>13, <2>2
      <3>2. InTurn(p, q, m)
        BY <2>2, <3>1 DEF SyncInv, DoneInTurn
      <3>. QED BY <3>1, <3>2 DEF InTurn
    <2>. QED BY <2>1, <2>2 DEF DoneInTurn
  <1>. QED BY <1>7, <1>8, <1>10, <1>11, <1>12, <1>14 DEF SyncInv

-----------------------------------------------------------------------------
(* Regular groups: the staff and the clock.                                *)

LEMMA StaffStepKept ==
  ASSUME SyncInv, SyncTypeOK', PersonsCounted', UNCHANGED <<operation, item, syncCall>>,
         Here' = Here, RowsGrow, \A k \in Clerk : ClerkFits(clerk[k])'
  PROVE  SyncInv'
  <1>1. ASSUME NEW c \in SyncCall PROVE AdvanceFits(syncCall[c])'
    <2>1. PICK x : x = syncCall[c] /\ AdvanceFits(x)
      BY DEF SyncInv
    <2>2. AdvanceFits(x)'
      BY <2>1, AdvanceStays
    <2>. QED BY <2>1, <2>2 DEF AdvanceFits
  <1>2. \A o, m : Done(o, m)' <=> Done(o, m)
    BY DEF Done
  <1>. QED BY <1>1, <1>2, StepKept

\* Persons count the deeds of the staff.
PersonBecomes(m, status) ==
  person' = [person EXCEPT ![m] = [version |-> @.version + 1, status |-> status]]

LEMMA PersonChanges ==
  ASSUME SyncInv, NEW m \in Here, Deed, NEW status \in {"ACTIVE", "WITHDRAWN", "DELETED"},
         PersonBecomes(m, status)
  PROVE  /\ Here' = Here /\ person' \in [Here -> PersonRow] /\ deeds' \in 0..MaxDeeds
         /\ PersonsCounted' /\ person'[m].status = status
         /\ \A n \in Here : n # m => person'[n] = person[n]
  <1>1. /\ deeds \in Nat /\ deeds' = deeds + 1 /\ deeds' \in 0..MaxDeeds /\ MaxDeeds \in Nat
        /\ person \in [Here -> PersonRow]
    BY SyncBounds DEF Deed, SyncInv, SyncTypeOK
  <1>2. ASSUME NEW n \in Here PROVE person[n].version \in Nat /\ person[n].version >= 1 /\ person[n].version <= deeds + 1
    BY <1>1 DEF PersonRow, PersonVersion, SyncInv, PersonsCounted
  <1>. PICK version : version = person[m].version + 1
    OBVIOUS
  <1>3. version \in PersonVersion /\ version \in Nat /\ version <= deeds' + 1
    BY <1>1, <1>2 DEF PersonVersion
  <1>. PICK entry : entry = [version |-> version, status |-> status]
    OBVIOUS
  <1>4. entry \in PersonRow /\ entry.version = version /\ entry.status = status
    BY <1>3 DEF PersonRow
  <1>5. person' = [person EXCEPT ![m] = entry]
    BY DEF PersonBecomes
  <1>6. Here' = Here /\ person' \in [Here -> PersonRow] /\ person'[m] = entry
        /\ \A n \in Here : n # m => person'[n] = person[n]
    BY <1>1, <1>4, <1>5 DEF Here
  <1>7. PersonsCounted'
    <2>1. ASSUME NEW n \in Here PROVE person'[n].version <= deeds' + 1
      <3>1. CASE n = m
        BY <1>3, <1>4, <1>6, <3>1
      <3>2. CASE n # m
        BY <1>1, <1>2, <1>6, <3>2
      <3>. QED BY <3>1, <3>2
    <2>. QED BY <1>6, <2>1 DEF PersonsCounted
  <1>. QED BY <1>1, <1>4, <1>6, <1>7

LEMMA ClerksStay ==
  ASSUME SyncInv, Here' = Here, UNCHANGED clerk
  PROVE  \A k \in Clerk : ClerkFits(clerk[k])'
  BY DEF SyncInv, ClerkFits

LEMMA ChangePersonKept ==
  ASSUME SyncInv, NEW m \in Here, NEW status \in {"ACTIVE", "WITHDRAWN"}, ChangePerson(m, status)
  PROVE  SyncInv'
  <1>1. /\ Deed /\ PersonBecomes(m, status)
        /\ syncClock' = syncClock /\ list' = list /\ listed' = listed /\ member' = member
        /\ operation' = operation /\ item' = item /\ syncCall' = syncCall /\ clerk' = clerk
    BY DEF ChangePerson, PersonBecomes
  <1>2. /\ Here' = Here /\ person' \in [Here -> PersonRow] /\ deeds' \in 0..MaxDeeds
        /\ PersonsCounted' /\ person'[m].status = status
        /\ \A n \in Here : n # m => person'[n] = person[n]
    BY <1>1, PersonChanges
  <1>3. SyncTypeOK'
    BY <1>1, <1>2 DEF SyncInv, SyncTypeOK
  <1>4. RowsGrow
    BY <1>1, <1>2 DEF RowsGrow
  <1>. QED BY <1>1, <1>2, <1>3, <1>4, ClerksStay, StaffStepKept

LEMMA DeletePersonKept ==
  ASSUME SyncInv, NEW m \in Here, DeletePerson(m)
  PROVE  SyncInv'
  <1>1. /\ Deed /\ PersonBecomes(m, "DELETED")
        /\ syncClock' = syncClock /\ list' = list /\ listed' = listed
        /\ operation' = operation /\ item' = item /\ syncCall' = syncCall /\ clerk' = clerk
    BY DEF DeletePerson, PersonBecomes
  <1>2. /\ Here' = Here /\ person' \in [Here -> PersonRow] /\ deeds' \in 0..MaxDeeds
        /\ PersonsCounted' /\ \A n \in Here : n # m => person'[n] = person[n]
    BY <1>1, PersonChanges
  <1>3. member' \in [Here -> MemberRow] /\ RowsGrow
    <2>1. CASE member[m].linked
      <3>. PICK old \in MemberRow : old = member[m]
        BY DEF SyncInv, SyncTypeOK
      <3>. PICK entry \in MemberRow : entry = Stored(old, "CRM_WITHDRAWN") /\ entry.version > old.version
        BY StoredType DEF SyncState
      <3>1. /\ member' \in [Here -> MemberRow] /\ member'[m] = entry
            /\ \A n \in Here : n # m => member'[n] = member[n]
        BY <2>1 DEF DeletePerson, PutMember, SyncInv, SyncTypeOK
      <3>. QED BY <1>2, <3>1 DEF RowsGrow
    <2>2. CASE ~member[m].linked
      <3>1. member' = member
        BY <2>2 DEF DeletePerson
      <3>. QED BY <1>2, <2>2, <3>1 DEF RowsGrow, SyncInv, SyncTypeOK
    <2>. QED BY <2>1, <2>2
  <1>4. SyncTypeOK'
    BY <1>1, <1>2, <1>3 DEF SyncInv, SyncTypeOK
  <1>. QED BY <1>1, <1>2, <1>3, <1>4, ClerksStay, StaffStepKept

LEMMA SwitchListKept ==
  ASSUME SyncInv, SwitchList
  PROVE  SyncInv'
  <1>1. /\ deeds \in Nat /\ deeds' = deeds + 1 /\ deeds' \in 0..MaxDeeds
        /\ syncClock' = syncClock /\ person' = person /\ listed' = listed /\ member' = member
        /\ operation' = operation /\ item' = item /\ syncCall' = syncCall /\ clerk' = clerk
        /\ Here' = Here
    BY SyncBounds DEF SwitchList, Deed, SyncInv, SyncTypeOK, Here
  <1>2. list' \in [attached : BOOLEAN, version : Nat]
    BY DEF SwitchList, SyncInv, SyncTypeOK
  <1>3. SyncTypeOK'
    BY <1>1, <1>2 DEF SyncInv, SyncTypeOK
  <1>4. PersonsCounted'
    BY <1>1 DEF SyncInv, SyncTypeOK, PersonsCounted, PersonRow, PersonVersion
  <1>5. RowsGrow
    BY <1>1 DEF RowsGrow
  <1>. QED BY <1>1, <1>3, <1>4, <1>5, ClerksStay, StaffStepKept

\* Deeds that leave the persons alone.
LEMMA DeedCounts ==
  ASSUME SyncInv, Deed, UNCHANGED person
  PROVE  deeds' \in 0..MaxDeeds /\ PersonsCounted' /\ Here' = Here
  <1>1. deeds \in Nat /\ deeds' = deeds + 1 /\ deeds' \in 0..MaxDeeds /\ Here' = Here
    BY SyncBounds DEF Deed, SyncInv, SyncTypeOK, Here
  <1>. QED BY <1>1 DEF SyncInv, SyncTypeOK, PersonsCounted, PersonRow, PersonVersion

LEMMA EditContactKept ==
  ASSUME SyncInv, NEW m \in Here, EditContact(m)
  PROVE  SyncInv'
  <1>1. /\ Deed /\ syncClock' = syncClock /\ person' = person /\ list' = list /\ member' = member
        /\ operation' = operation /\ item' = item /\ syncCall' = syncCall /\ clerk' = clerk
        /\ listed' \in [Here -> Shown]
    BY ShownType DEF EditContact, SyncInv, SyncTypeOK
  <1>2. deeds' \in 0..MaxDeeds /\ PersonsCounted' /\ Here' = Here
    BY <1>1, DeedCounts
  <1>3. SyncTypeOK'
    BY <1>1, <1>2 DEF SyncInv, SyncTypeOK
  <1>4. RowsGrow
    BY <1>1 DEF RowsGrow
  <1>. QED BY <1>1, <1>2, <1>3, <1>4, ClerksStay, StaffStepKept

LEMMA SyncTickKept ==
  ASSUME SyncInv, SyncTick
  PROVE  SyncInv'
  <1>1. /\ deeds' = deeds /\ list' = list /\ person' = person /\ listed' = listed /\ member' = member
        /\ operation' = operation /\ item' = item /\ syncCall' = syncCall /\ clerk' = clerk
        /\ Here' = Here /\ syncClock' \in 0..MaxSyncTime
    BY SyncBounds DEF SyncTick, staffVars, SyncInv, SyncTypeOK, Here
  <1>2. SyncTypeOK'
    BY <1>1 DEF SyncInv, SyncTypeOK
  <1>3. PersonsCounted' /\ RowsGrow
    BY <1>1 DEF SyncInv, PersonsCounted, RowsGrow
  <1>. QED BY <1>1, <1>2, <1>3, ClerksStay, StaffStepKept

LEMMA ClerkMoves ==
  ASSUME SyncInv, NEW k \in Clerk, NEW new \in {NotCalled} \cup ClerkState, ClerkFits(new),
         BecomeClerk(k, new), UNCHANGED <<syncClock, list, person, operation, item, syncCall>>,
         deeds' \in 0..MaxDeeds, PersonsCounted', listed' \in [Here -> Shown],
         member' \in [Here -> MemberRow], RowsGrow
  PROVE  SyncInv'
  <1>1. /\ syncClock' = syncClock /\ list' = list /\ person' = person /\ operation' = operation
        /\ item' = item /\ syncCall' = syncCall /\ Here' = Here
    BY DEF Here
  <1>2. clerk' \in [Clerk -> {NotCalled} \cup ClerkState]
        /\ \A j \in Clerk : clerk'[j] = IF j = k THEN new ELSE clerk[j]
    BY DEF SyncInv, SyncTypeOK, BecomeClerk
  <1>3. SyncTypeOK'
    BY <1>1, <1>2 DEF SyncInv, SyncTypeOK
  <1>4. \A j \in Clerk : ClerkFits(clerk[j])'
    BY <1>1, <1>2 DEF SyncInv, ClerkFits
  <1>. QED BY <1>1, <1>3, <1>4, StaffStepKept

\* The call of the staff takes a step of its own.
LEMMA ClerkGoesOn ==
  ASSUME SyncInv, NEW k \in Clerk, NEW new \in {NotCalled} \cup ClerkState, ClerkFits(new),
         BecomeClerk(k, new), UNCHANGED <<syncClock, staffVars, operation, item, syncCall>>,
         listed' \in [Here -> Shown], member' \in [Here -> MemberRow], RowsGrow
  PROVE  SyncInv'
  <1>1. UNCHANGED <<syncClock, list, person, operation, item, syncCall>> /\ deeds' = deeds
    BY DEF staffVars
  <1>2. deeds' \in 0..MaxDeeds /\ PersonsCounted'
    BY <1>1 DEF SyncInv, SyncTypeOK, PersonsCounted, Here
  <1>. QED BY <1>1, <1>2, ClerkMoves

LEMMA ClerkHolds ==
  ASSUME SyncInv, NEW k \in Clerk, clerk[k].pc # "idle"
  PROVE  \E held \in ClerkState :
           /\ held = clerk[k] /\ ClerkFits(held) /\ held.member \in Here
           /\ held.shown \in Shown /\ held.version \in Nat
           /\ member[held.member] \in MemberRow
  <1>. PICK held \in ClerkState : held = clerk[k] /\ ClerkFits(held)
    BY DEF SyncInv, SyncTypeOK, NotCalled
  <1>1. held.member \in Here /\ held.shown \in Shown /\ held.version \in Nat
    BY DEF ClerkFits, ClerkState
  <1>2. member[held.member] \in MemberRow
    BY <1>1 DEF SyncInv, SyncTypeOK
  <1>. QED BY <1>1, <1>2

LEMMA NotCalledFits == ClerkFits(NotCalled)
  BY DEF ClerkFits, NotCalled

LEMMA RowsStay ==
  ASSUME SyncInv, UNCHANGED <<member, person>>
  PROVE  member' \in [Here -> MemberRow] /\ RowsGrow
  BY DEF SyncInv, SyncTypeOK, RowsGrow

LEMMA ClerkStopsKept ==
  ASSUME SyncInv, NEW k \in Clerk, BecomeClerk(k, NotCalled),
         UNCHANGED <<syncClock, staffVars, listed, member, operation, item, syncCall>>
  PROVE  SyncInv'
  <1>1. UNCHANGED <<member, person>> /\ listed' \in [Here -> Shown]
    BY DEF staffVars, SyncInv, SyncTypeOK
  <1>. QED BY <1>1, NotCalledFits, RowsStay, ClerkGoesOn

LEMMA BeginClerkKept ==
  ASSUME SyncInv, NEW k \in Clerk, NEW kind \in {"link", "create", "update", "delete"},
         NEW m \in Here, BeginClerk(k, kind, m)
  PROVE  SyncInv'
  <1>. PICK pc \in {"link", "send"} : pc = IF kind = "link" THEN "link" ELSE "send"
    OBVIOUS
  <1>. PICK shown : shown = CASE kind = "link" -> listed[m] [] kind = "create" -> person[m].version
                              [] kind = "update" -> Typed [] kind = "delete" -> Gone
    OBVIOUS
  <1>. PICK version : version = member[m].version
    OBVIOUS
  <1>1. shown \in Shown
    <2>1. listed[m] \in Shown /\ person[m].version \in PersonVersion
      BY DEF SyncInv, SyncTypeOK, PersonRow
    <2>. QED BY <2>1, ShownType
  <1>2. version \in Nat /\ m \in ListMember
    BY DEF SyncInv, SyncTypeOK, MemberRow
  <1>. PICK new : new = [pc |-> pc, kind |-> kind, member |-> m, version |-> version, shown |-> shown]
    OBVIOUS
  <1>3. new \in ClerkState /\ ClerkFits(new)
    BY <1>1, <1>2 DEF ClerkState, ClerkFits
  <1>4. BecomeClerk(k, new)
    BY DEF BeginClerk
  <1>5. /\ UNCHANGED <<syncClock, list, person, operation, item, syncCall>> /\ Deed
        /\ UNCHANGED <<member, person>> /\ listed' \in [Here -> Shown]
    BY DEF BeginClerk, SyncInv, SyncTypeOK
  <1>6. deeds' \in 0..MaxDeeds /\ PersonsCounted'
    BY <1>5, DeedCounts
  <1>. QED BY <1>3, <1>4, <1>5, <1>6, RowsStay, ClerkMoves

LEMMA SendReadKept ==
  ASSUME SyncInv, NEW k \in Clerk, SendByClerk(k) \/ ReadByClerk(k)
  PROVE  SyncInv'
  <1>1. /\ clerk[k].pc \in {"send", "read"}
        /\ UNCHANGED <<syncClock, staffVars, operation, item, syncCall>>
        /\ UNCHANGED <<member, person>>
    BY DEF SendByClerk, ReadByClerk, staffVars
  <1>. PICK held \in ClerkState :
         held = clerk[k] /\ ClerkFits(held) /\ held.member \in Here /\ held.shown \in Shown
    BY <1>1, ClerkHolds
  <1>2. listed' \in [Here -> Shown]
    BY DEF SendByClerk, ReadByClerk, SyncInv, SyncTypeOK
  <1>3. CASE BecomeClerk(k, NotCalled)
    BY <1>1, <1>2, <1>3, NotCalledFits, RowsStay, ClerkGoesOn
  <1>4. ASSUME NEW pc \in {"read", "keep"}, BecomeClerk(k, [held EXCEPT !.pc = pc])
        PROVE  SyncInv'
    <2>. PICK new : new = [held EXCEPT !.pc = pc]
      OBVIOUS
    <2>1. /\ new \in ClerkState /\ new.pc = pc /\ new.member = held.member /\ new.kind = held.kind
      BY DEF ClerkState
    <2>2. ClerkFits(new)
      BY <1>1, <2>1 DEF ClerkFits
    <2>. QED BY <1>1, <1>2, <1>4, <2>1, <2>2, RowsStay, ClerkGoesOn
  <1>. QED BY <1>3, <1>4 DEF SendByClerk, ReadByClerk

LEMMA LinkMemberKept ==
  ASSUME SyncInv, NEW k \in Clerk, LinkMember(k)
  PROVE  SyncInv'
  <1>1. /\ clerk[k].pc = "link" /\ UNCHANGED <<syncClock, staffVars, operation, item, syncCall>>
        /\ person' = person /\ listed' = listed /\ BecomeClerk(k, NotCalled)
    BY DEF LinkMember, staffVars
  <1>. PICK held \in ClerkState :
         /\ held = clerk[k] /\ held.member \in Here /\ held.shown \in Shown /\ held.version \in Nat
         /\ member[held.member] \in MemberRow
    BY <1>1, ClerkHolds
  <1>2. member' \in [Here -> MemberRow] /\ RowsGrow
    <2>1. CASE UNCHANGED member
      BY <1>1, <2>1, RowsStay
    <2>2. CASE ~UNCHANGED member
      <3>. PICK entry : entry = [state |-> "LINKED", version |-> held.version + 1, observed |-> held.shown,
                             linked |-> TRUE]
        OBVIOUS
      <3>1. entry \in MemberRow /\ entry.version = held.version + 1
        BY DEF MemberRow, SyncState
      <3>2. member[held.member].version = held.version /\ PutMember(held.member, entry)
        BY <2>2 DEF LinkMember
      <3>. QED BY <1>1, <3>1, <3>2, RowStored
    <2>. QED BY <2>1, <2>2
  <1>3. listed' \in [Here -> Shown]
    BY <1>1 DEF SyncInv, SyncTypeOK
  <1>. QED BY <1>1, <1>2, <1>3, NotCalledFits, ClerkGoesOn

LEMMA LinkedType ==
  ASSUME NEW old \in MemberRow, NEW linked \in BOOLEAN
  PROVE  [old EXCEPT !.linked = linked] \in MemberRow
         /\ [old EXCEPT !.linked = linked].version = old.version
  BY DEF MemberRow

LEMMA KeepByClerkKept ==
  ASSUME SyncInv, NEW k \in Clerk, KeepByClerk(k)
  PROVE  SyncInv'
  <1>1. /\ clerk[k].pc = "keep" /\ UNCHANGED <<syncClock, staffVars, operation, item, syncCall>>
        /\ person' = person /\ listed' = listed /\ BecomeClerk(k, NotCalled)
    BY DEF KeepByClerk, staffVars
  <1>. PICK held \in ClerkState :
         /\ held = clerk[k] /\ ClerkFits(held) /\ held.member \in Here /\ held.shown \in Shown
         /\ member[held.member] \in MemberRow
    BY <1>1, ClerkHolds
  <1>. PICK entry \in MemberRow : entry = member[held.member]
    OBVIOUS
  <1>2. held.kind \in {"create", "update", "delete"}
    BY <1>1 DEF ClerkFits, ClerkState
  <1>3. member' \in [Here -> MemberRow] /\ RowsGrow
    <2>1. CASE UNCHANGED member
      BY <1>1, <2>1, RowsStay
    <2>2. ASSUME NEW stored \in MemberRow, stored.version > entry.version, PutMember(held.member, stored)
          PROVE  member' \in [Here -> MemberRow] /\ RowsGrow
      BY <1>1, <2>2, RowStored
    <2>3. CASE held.kind = "delete" /\ entry # NoRow
      <3>1. PutMember(held.member, Stored(entry, "REMOVED"))
        BY <2>3 DEF KeepByClerk
      <3>. QED BY <2>2, <3>1, StoredType DEF SyncState
    <2>4. CASE held.kind = "update"
      <3>. PICK state \in SyncState : state = IF entry = NoRow THEN "UNLINKED" ELSE "DIFFERENCE"
        BY DEF SyncState
      <3>. PICK stored \in MemberRow : stored = Stored(entry, state) /\ stored.version > entry.version
        BY StoredType
      <3>. PICK kept : kept = [stored EXCEPT !.observed = held.shown]
        OBVIOUS
      <3>1. kept \in MemberRow /\ kept.version = stored.version
        BY ObservedType
      <3>2. PutMember(held.member, kept)
        BY <2>4 DEF KeepByClerk
      <3>. QED BY <2>2, <3>1, <3>2
    <2>5. CASE held.kind = "create"
      <3>. PICK stored \in MemberRow : stored = Stored(entry, "LINKED") /\ stored.version > entry.version
        BY StoredType DEF SyncState
      <3>. PICK shown \in MemberRow :
             shown = [stored EXCEPT !.observed = held.shown] /\ shown.version = stored.version
        <4>1. [stored EXCEPT !.observed = held.shown] \in MemberRow
              /\ [stored EXCEPT !.observed = held.shown].version = stored.version
          BY ObservedType
        <4>. QED BY <4>1
      <3>. PICK linked \in BOOLEAN : linked = (shown.linked \/ entry = NoRow)
        OBVIOUS
      <3>. PICK kept : kept = [shown EXCEPT !.linked = linked]
        OBVIOUS
      <3>1. kept \in MemberRow /\ kept.version = shown.version
        BY LinkedType
      <3>2. PutMember(held.member, kept)
        BY <2>5 DEF KeepByClerk
      <3>. QED BY <2>2, <3>1, <3>2
    <2>. QED BY <1>2, <2>1, <2>3, <2>4, <2>5 DEF KeepByClerk
  <1>4. listed' \in [Here -> Shown]
    BY <1>1 DEF SyncInv, SyncTypeOK
  <1>. QED BY <1>1, <1>3, <1>4, NotCalledFits, ClerkGoesOn

-----------------------------------------------------------------------------
(* Regular groups: every step, and the theorems.                           *)

LEMMA AdvanceStepSync ==
  ASSUME SyncInv, AdvanceStep
  PROVE  SyncInv'
  <1>. PICK c \in SyncCall :
         \/ \E o \in DOMAIN operation : BeginAdvance(c, o)
         \/ ClaimItem(c) \/ LeaveItems(c) \/ CheckItem(c) \/ LockRow(c) \/ Observe(c)
         \/ LookAgain(c) \/ WriteContact(c) \/ WriteRefused(c) \/ ReadContact(c) \/ SaveRow(c)
         \/ ItemFails(c) \/ SettleRow(c) \/ RecordItem(c) \/ CountItems(c) \/ FinishOperation(c)
         \/ StopAdvance(c)
    BY DEF AdvanceStep
  <1>1. CASE \E o \in DOMAIN operation : BeginAdvance(c, o)
    BY <1>1, BeginAdvanceKept
  <1>2. CASE ClaimItem(c) \/ LeaveItems(c) \/ CheckItem(c) \/ LockRow(c) \/ Observe(c) \/ LookAgain(c)
    BY <1>2, ClaimItemKept, LeaveItemsKept, CheckItemKept, LockRowKept, ObserveKept, LookAgainKept
  <1>3. CASE WriteContact(c) \/ WriteRefused(c) \/ ReadContact(c) \/ SaveRow(c) \/ ItemFails(c)
    BY <1>3, WriteContactKept, ItemGivenUp, ReadContactKept, SaveRowKept
  <1>4. CASE SettleRow(c) \/ RecordItem(c) \/ CountItems(c) \/ FinishOperation(c)
    BY <1>4, SettleRowKept, RecordItemKept, CountItemsKept, FinishOperationKept
  <1>5. CASE StopAdvance(c)
    <2>1. /\ BecomeSync(c, NotCalled)
          /\ UNCHANGED <<syncClock, staffVars, listed, member, operation, item, clerk>>
      BY <1>5 DEF StopAdvance
    <2>. QED BY <2>1, StopAdvanceKept
  <1>. QED BY <1>1, <1>2, <1>3, <1>4, <1>5

LEMMA StaffStepSync ==
  ASSUME SyncInv, StaffStep
  PROVE  SyncInv'
  <1>1. CASE \E m \in Here :
               \/ \E status \in {"ACTIVE", "WITHDRAWN"} : ChangePerson(m, status)
               \/ DeletePerson(m) \/ EditContact(m)
               \/ \E k \in Clerk, kind \in {"link", "create", "update", "delete"} : BeginClerk(k, kind, m)
    BY <1>1, ChangePersonKept, DeletePersonKept, EditContactKept, BeginClerkKept
  <1>2. CASE SwitchList
    BY <1>2, SwitchListKept
  <1>3. ASSUME NEW k \in Clerk,
               LinkMember(k) \/ SendByClerk(k) \/ ReadByClerk(k) \/ KeepByClerk(k) \/ ClerkStops(k)
        PROVE  SyncInv'
    <2>1. CASE LinkMember(k) \/ SendByClerk(k) \/ ReadByClerk(k) \/ KeepByClerk(k)
      BY <2>1, LinkMemberKept, SendReadKept, KeepByClerkKept
    <2>2. CASE ClerkStops(k)
      <3>1. /\ BecomeClerk(k, NotCalled)
            /\ UNCHANGED <<syncClock, staffVars, listed, member, operation, item, syncCall>>
        BY <2>2 DEF ClerkStops
      <3>. QED BY <3>1, ClerkStopsKept
    <2>. QED BY <1>3, <2>1, <2>2
  <1>. QED BY <1>1, <1>2, <1>3 DEF StaffStep

LEMMA SyncStutters ==
  ASSUME SyncInv, UNCHANGED syncVars
  PROVE  SyncInv'
  <1>1. /\ syncClock' = syncClock /\ deeds' = deeds /\ list' = list /\ person' = person
        /\ listed' = listed /\ member' = member /\ operation' = operation /\ item' = item
        /\ syncCall' = syncCall /\ clerk' = clerk /\ Here' = Here
    BY DEF syncVars, staffVars, Here
  <1>2. SyncTypeOK'
    BY <1>1 DEF SyncInv, SyncTypeOK
  <1>3. PersonsCounted' /\ RowsGrow
    BY <1>1 DEF SyncInv, PersonsCounted, RowsGrow
  <1>. QED BY <1>1, <1>2, <1>3, ClerksStay, StaffStepKept

LEMMA SyncStep == SyncInv /\ [SyncNext]_syncVars => SyncInv'
  <1> SUFFICES ASSUME SyncInv, [SyncNext]_syncVars PROVE SyncInv'
    OBVIOUS
  <1>1. CASE \E o \in SyncOperation, chosen \in SUBSET Here : StartSync(o, chosen)
    BY <1>1, StartSyncKept
  <1>2. CASE AdvanceStep \/ StaffStep \/ SyncTick
    BY <1>2, AdvanceStepSync, StaffStepSync, SyncTickKept
  <1>3. CASE Unbound \/ UNCHANGED syncVars
    BY <1>3, SyncStutters DEF Unbound
  <1>. QED BY <1>1, <1>2, <1>3 DEF SyncNext

\* The steps that change a row while no call of the staff moves.
LEMMA RowsChangedBy ==
  ASSUME SyncInv, SyncNext, clerk' = clerk
  PROVE  \/ member' = member
         \/ \E c \in SyncCall : LockRow(c) \/ SaveRow(c) \/ SettleRow(c)
         \/ \E m \in Here : DeletePerson(m)
  <1>1. CASE AdvanceStep
    BY <1>1 DEF AdvanceStep, BeginAdvance, ClaimItem, LeaveItems, CheckItem, Observe, LookAgain,
                WriteContact, WriteRefused, ReadContact, ItemFails, RecordItem, CountItems,
                FinishOperation, StopAdvance
  <1>2. CASE StaffStep
    <2>1. ASSUME NEW k \in Clerk, LinkMember(k) \/ KeepByClerk(k) PROVE FALSE
      <3>1. clerk[k].pc # "idle" /\ BecomeClerk(k, NotCalled)
        BY <2>1 DEF LinkMember, KeepByClerk
      <3>2. clerk'[k].pc = "idle"
        BY <3>1 DEF BecomeClerk, NotCalled, SyncInv, SyncTypeOK
      <3>. QED BY <3>1, <3>2
    <2>2. ASSUME NEW k \in Clerk, SendByClerk(k) \/ ReadByClerk(k) \/ ClerkStops(k)
          PROVE  member' = member
      BY <2>2 DEF SendByClerk, ReadByClerk, ClerkStops
    <2>3. ASSUME NEW m \in Here,
                 \/ \E status \in {"ACTIVE", "WITHDRAWN"} : ChangePerson(m, status)
                 \/ EditContact(m)
                 \/ \E k \in Clerk, kind \in {"link", "create", "update", "delete"} :
                      BeginClerk(k, kind, m)
          PROVE  member' = member
      BY <2>3 DEF ChangePerson, EditContact, BeginClerk
    <2>4. SwitchList => member' = member
      BY DEF SwitchList
    <2>. QED BY <1>2, <2>1, <2>2, <2>3, <2>4 DEF StaffStep
  <1>3. CASE SyncTick \/ Unbound \/ \E o \in SyncOperation, chosen \in SUBSET Here : StartSync(o, chosen)
    BY <1>3 DEF SyncTick, Unbound, syncVars, StartSync
  <1>. QED BY <1>1, <1>2, <1>3 DEF SyncNext

\* The row an advance changes, and what it then says.
LEMMA AdvanceRow ==
  ASSUME SyncInv, NEW c \in SyncCall, LockRow(c) \/ SaveRow(c) \/ SettleRow(c),
         NEW m \in Here, member'[m] # member[m]
  PROVE  person[m].status # "DELETED" \/ member'[m].state \notin {"SYNCING", "LINKED"}
  <1>1. syncCall[c].pc \in {"lock", "save", "settle"} /\ syncCall[c].pc \in AtItem
        /\ syncCall[c].pc # "idle"
    BY DEF LockRow, SaveRow, SettleRow, AtItem
  <1>. PICK old \in SyncCallState :
         /\ old = syncCall[c] /\ AdvanceFits(old) /\ old.member \in Here
         /\ item[old.operation][old.member].version \in Nat
         /\ member[old.member] \in MemberRow
    BY <1>1, AtItemHolds
  <1>2. PICK entry : PutMember(old.member, entry) /\ (old.pc = "settle" => entry = Stored(member[old.member], old.result))
    BY <1>1 DEF LockRow, SaveRow, SettleRow
  <1>3. m = old.member /\ member'[m] = entry
    BY <1>2 DEF PutMember, SyncInv, SyncTypeOK
  <1>4. CASE old.pc = "lock"
    <2>1. member[m].version = item[old.operation][m].version
      BY <1>3, <1>4 DEF LockRow, SaveRow, SettleRow, AtVersion
    <2>2. LinkedAt(m, item[old.operation][m].version)
      BY <1>1, <1>3, <1>4 DEF AdvanceFits
    <2>. QED BY <2>1, <2>2 DEF LinkedAt
  <1>5. CASE old.pc = "save"
    <2>1. member[m].version = item[old.operation][m].version + 1
      BY <1>3, <1>5 DEF LockRow, SaveRow, SettleRow, AtVersion
    <2>2. LinkedAt(m, item[old.operation][m].version + 1)
      BY <1>1, <1>3, <1>5 DEF AdvanceFits, AtRow
    <2>. QED BY <2>1, <2>2 DEF LinkedAt
  <1>6. CASE old.pc = "settle"
    <2>1. old.result \in {"DIFFERENCE", "FAILED", "UNKNOWN"}
      BY <1>1, <1>6 DEF AdvanceFits
    <2>2. entry.state = old.result
      BY <1>2, <1>6, <2>1, StoredType DEF SyncState
    <2>. QED BY <1>3, <2>1, <2>2
  <1>. QED BY <1>1, <1>4, <1>5, <1>6

LEMMA DeletedStep == SyncInv /\ [SyncNext]_syncVars => [DeletedAreLeftAlone]_syncVars
  <1> SUFFICES ASSUME SyncInv, SyncNext, clerk' = clerk, NEW m \in Here, person[m].status = "DELETED",
                      member'[m] # member[m]
               PROVE  member'[m].state \notin {"SYNCING", "LINKED"}
    BY DEF DeletedAreLeftAlone
  <1>1. CASE \E c \in SyncCall : LockRow(c) \/ SaveRow(c) \/ SettleRow(c)
    BY <1>1, AdvanceRow
  <1>2. ASSUME NEW n \in Here, DeletePerson(n) PROVE member'[m].state \notin {"SYNCING", "LINKED"}
    <2>1. member[n] \in MemberRow /\ "CRM_WITHDRAWN" \in SyncState
      BY DEF SyncInv, SyncTypeOK, SyncState
    <2>2. PICK entry : entry = Stored(member[n], "CRM_WITHDRAWN")
      OBVIOUS
    <2>3. entry.state = "CRM_WITHDRAWN"
      BY <2>1, <2>2, StoredType
    <2>4. member' = [member EXCEPT ![n] = entry]
      BY <1>2, <2>2 DEF DeletePerson, PutMember
    <2>. QED BY <2>3, <2>4 DEF SyncInv, SyncTypeOK
  <1>. QED BY <1>1, <1>2, RowsChangedBy

\* What an operation that is over says, and when items were synchronised.
LEMMA SyncInvTells ==
  SyncInv => SyncTypeOK /\ FinishedTellsItems /\ SyncedUnderOneLock
  <1> SUFFICES ASSUME SyncInv PROVE SyncTypeOK /\ FinishedTellsItems /\ SyncedUnderOneLock
    OBVIOUS
  <1>1. FinishedTellsItems
    BY DEF SyncInv, OperationsTell, OverWith, OpenItem, FinishedTellsItems
  <1>2. SyncedUnderOneLock
    BY DEF SyncInv, DoneInTurn, Done, LockReleased, InTurn, SyncedUnderOneLock, Having
  <1>. QED BY <1>1, <1>2 DEF SyncInv

\* Regular groups: at every moment each advance of an operation holds what its item and its row
\* say, a finished operation tells what became of its items, and two operations synchronised a
\* member one after the other (regular-group-sync.ts, advanceRegularSync).
THEOREM OperationsInTurn == SyncSpec => []SyncInv
  <1>. QED BY InitSync, SyncStep, PTL DEF SyncSpec

\* Regular groups: what a finished operation reports is true whatever calls outlive their claims,
\* members are synchronised under one lock at a time, and no step of an operation takes or links
\* the row of a deleted person (regular-group-sync.ts, syncItem).
THEOREM SyncReports == SyncSpec => SyncReportsHold
  <1>. QED BY InitSync, SyncStep, DeletedStep, SyncInvTells, PTL DEF SyncSpec, SyncReportsHold
================================================================================
