------------------------- MODULE ReservationUsageProofs -------------------------
(***************************************************************************)
(* Proofs about ReservationUsage for any calls, keys, limits and months.   *)
(***************************************************************************)
EXTENDS ReservationUsage, FiniteSetTheorems, TLAPS

-----------------------------------------------------------------------------
(* The inductive invariant: what a call has read stays true while it holds *)
(* the lock it read under.                                                 *)

HasKey == {"setting", "usage", "keyUsage", "decide"}
HasSetting == {"usage", "keyUsage", "decide"}
HasUsage == {"keyUsage", "decide"}

KeyHeld(c) ==
  call[c].pc \in HasKey =>
    /\ holder[KeyLock(call[c].key)] = c
    /\ key[call[c].key].status = "live"
    /\ key[call[c].key].limit = call[c].keyLimit
SettingHeld(c) ==
  call[c].pc \in HasSetting => holder[SettingLock] = c /\ setting.limit = call[c].limit
UsageHeld(c) ==
  call[c].pc \in HasUsage =>
    holder[UsageLock(call[c].month)] = c /\ usage[call[c].month] = call[c].used
KeyUsageHeld(c) ==
  call[c].pc = "decide" =>
    /\ holder[KeyUsageLock(call[c].key, call[c].month)] = c
    /\ keyUsage[<<call[c].key, call[c].month>>] = call[c].keyUsed
Held(c) == KeyHeld(c) /\ SettingHeld(c) /\ UsageHeld(c) /\ KeyUsageHeld(c)

Inv == TypeOK /\ UsageIsCounted /\ \A c \in Call : Held(c)

-----------------------------------------------------------------------------
LEMMA LocksExist ==
  ASSUME NEW row \in CallRow
  PROVE  /\ KeyLock(row.key) \in Lock /\ SettingLock \in Lock /\ UsageLock(row.month) \in Lock
         /\ KeyUsageLock(row.key, row.month) \in Lock
  BY DEF CallRow, Lock

\* The counters agree with the calls as long as neither changes.
LEMMA CountKept ==
  ASSUME UsageIsCounted, UNCHANGED <<usage, keyUsage>>, TypeOK, TypeOK',
         \A c \in Call : \/ call'[c].month = call[c].month /\ call'[c].key = call[c].key
                         \/ call[c].pc # "admitted" /\ call'[c].pc # "admitted",
         \A c \in Call : call'[c].pc = "admitted" <=> call[c].pc = "admitted"
  PROVE  UsageIsCounted'
  <1>1. ASSUME NEW m \in Month PROVE AdmittedIn(m)' = AdmittedIn(m)
    BY DEF AdmittedIn
  <1>2. ASSUME NEW m \in Month, NEW k \in Key PROVE AdmittedOf(k, m)' = AdmittedOf(k, m)
    BY DEF AdmittedIn, AdmittedOf
  <1>. QED BY <1>1, <1>2 DEF UsageIsCounted

\* What a call relies on is kept by every step that leaves it, its locks and
\* the rows under them alone.
LEMMA HeldKept ==
  ASSUME NEW c \in Call, Held(c), call'[c] = call[c], TypeOK,
         \A l \in Lock : holder[l] = c => holder'[l] = c,
         call[c].pc \in HasKey => key'[call[c].key] = key[call[c].key],
         holder[SettingLock] = c => setting' = setting,
         \A m \in Month : holder[UsageLock(m)] = c => usage'[m] = usage[m],
         \A k \in Key, m \in Month :
           holder[KeyUsageLock(k, m)] = c => keyUsage'[<<k, m>>] = keyUsage[<<k, m>>]
  PROVE  Held(c)'
  <1>1. call[c] \in CallRow /\ call[c].key \in Key /\ call[c].month \in Month
    BY DEF TypeOK, CallRow
  <1>2. KeyHeld(c)' BY <1>1, LocksExist DEF Held, KeyHeld
  <1>3. SettingHeld(c)' BY <1>1, LocksExist DEF Held, SettingHeld
  <1>4. UsageHeld(c)' BY <1>1, LocksExist DEF Held, UsageHeld
  <1>5. KeyUsageHeld(c)' BY <1>1, LocksExist DEF Held, KeyUsageHeld
  <1>. QED BY <1>2, <1>3, <1>4, <1>5 DEF Held

LEMMA InvInit == Init => Inv
  <1> SUFFICES ASSUME Init PROVE Inv
    OBVIOUS
  <1>1. TypeOK
    <2>1. holder \in [Lock -> Call \cup {None}] BY DEF Init
    <2>2. call \in [Call -> CallRow]
      BY BoundAssumption DEF Init, CallRow, Pc, Running, Refused, Month, LimitOrNone
    <2>3. key \in [Key -> KeyRow] /\ setting \in SettingRow
      BY BoundAssumption DEF Init, KeyRow, SettingRow, KeyStatus, LimitOrNone, Revision
    <2>. QED BY <2>1, <2>2, <2>3, BoundAssumption DEF Init, TypeOK, Month
  <1>2. \A c \in Call : call[c].pc = "new"
    BY DEF Init
  <1>3. UsageIsCounted
    <2>1. \A m \in Month : AdmittedIn(m) = {} /\ \A k \in Key : AdmittedOf(k, m) = {}
      BY <1>2 DEF AdmittedIn, AdmittedOf
    <2>. QED BY <2>1, FS_EmptySet DEF UsageIsCounted, Init
  <1>4. \A c \in Call : Held(c)
    BY <1>2 DEF Held, KeyHeld, SettingHeld, UsageHeld, KeyUsageHeld, HasKey, HasSetting, HasUsage
  <1>. QED BY <1>1, <1>3, <1>4 DEF Inv

-----------------------------------------------------------------------------
(* Administrators and the calendar.                                        *)

\* A step that leaves calls and counters alone and edits no locked row.
LEMMA EditStep ==
  ASSUME Inv, TypeOK', UNCHANGED <<counters, holder, call>>,
         \A c \in Call : call[c].pc \in HasKey => key'[call[c].key] = key[call[c].key],
         holder[SettingLock] # None => setting' = setting
  PROVE  Inv'
  <1>1. UsageIsCounted'
    BY DEF Inv, UsageIsCounted, AdmittedIn, AdmittedOf, counters
  <1>2. \A c \in Call : Held(c)'
    BY HeldKept, NoneAssumption DEF Inv, counters
  <1>. QED BY <1>1, <1>2 DEF Inv

LEMMA EditorsStep ==
  ASSUME Inv,
         \/ NextMonth
         \/ \E k \in Key, limit \in LimitOrNone : IssueReservationApiKey(k, limit)
         \/ \E k \in Key, limit \in LimitOrNone, r \in Revision : UpdateKeyLimit(k, limit, r)
         \/ \E k \in Key, r \in Revision : RevokeKey(k, r)
         \/ \E limit \in LimitOrNone, r \in Revision : UpdateUsageLimit(limit, r)
  PROVE  Inv'
  <1>1. CASE NextMonth
    <2>1. TypeOK' BY <1>1, BoundAssumption DEF NextMonth, Inv, TypeOK, config, counters, Month
    <2>. QED BY <1>1, <2>1, EditStep DEF NextMonth, config
  <1>2. ASSUME NEW k \in Key, NEW limit \in LimitOrNone, IssueReservationApiKey(k, limit)
        PROVE  Inv'
    <2> DEFINE row == [status |-> "live", limit |-> limit, revision |-> 1]
    <2>1. row \in KeyRow BY BoundAssumption DEF KeyRow, KeyStatus, Revision
    <2>2. key' = [key EXCEPT ![k] = row] BY <1>2 DEF IssueReservationApiKey
    <2> HIDE DEF row
    <2>3. key' \in [Key -> KeyRow] BY <2>1, <2>2 DEF Inv, TypeOK
    <2>4. TypeOK' BY <1>2, <2>3 DEF IssueReservationApiKey, Inv, TypeOK, counters
    <2>5. \A c \in Call : call[c].pc \in HasKey => call[c].key # k
      BY <1>2 DEF IssueReservationApiKey, Inv, Held, KeyHeld
    <2>6. \A c \in Call : call[c].key \in Key BY DEF Inv, TypeOK, CallRow
    <2>7. \A c \in Call : call[c].pc \in HasKey => key'[call[c].key] = key[call[c].key]
      BY <2>2, <2>5, <2>6 DEF Inv, TypeOK
    <2>. QED BY <1>2, <2>4, <2>7, EditStep DEF IssueReservationApiKey
  <1>3. ASSUME NEW k \in Key, NEW row \in KeyRow, holder[KeyLock(k)] = None,
               key' = [key EXCEPT ![k] = row], UNCHANGED <<month, setting, counters, holder, call>>
        PROVE  Inv'
    <2>1. TypeOK' BY <1>3 DEF Inv, TypeOK, counters
    <2>2. \A c \in Call : call[c].pc \in HasKey => call[c].key # k
      BY <1>3, NoneAssumption DEF Inv, Held, KeyHeld
    <2>3. \A c \in Call : call[c].key \in Key BY DEF Inv, TypeOK, CallRow
    <2>4. \A c \in Call : call[c].pc \in HasKey => key'[call[c].key] = key[call[c].key]
      BY <1>3, <2>2, <2>3 DEF Inv, TypeOK
    <2>. QED BY <1>3, <2>1, <2>4, EditStep
  <1>4. ASSUME NEW k \in Key, NEW limit \in LimitOrNone, NEW r \in Revision,
               UpdateKeyLimit(k, limit, r)
        PROVE  Inv'
    <2>1. [status |-> "live", limit |-> limit, revision |-> r + 1] \in KeyRow
      BY <1>4, BoundAssumption DEF UpdateKeyLimit, Editable, KeyRow, KeyStatus, Revision
    <2>. QED BY <1>3, <1>4, <2>1 DEF UpdateKeyLimit, Editable
  <1>5. ASSUME NEW k \in Key, NEW r \in Revision, RevokeKey(k, r)
        PROVE  Inv'
    <2>1. key[k] \in KeyRow BY DEF Inv, TypeOK
    <2>2. [status |-> "revoked", limit |-> key[k].limit, revision |-> r + 1] \in KeyRow
      BY <1>5, <2>1, BoundAssumption DEF RevokeKey, Editable, KeyRow, KeyStatus, Revision
    <2>. QED BY <1>3, <1>5, <2>2 DEF RevokeKey, Editable
  <1>6. ASSUME NEW limit \in LimitOrNone, NEW r \in Revision, UpdateUsageLimit(limit, r)
        PROVE  Inv'
    <2>1. setting' \in SettingRow
      BY <1>6, BoundAssumption DEF UpdateUsageLimit, SettingRow, Revision
    <2>2. TypeOK' BY <1>6, <2>1 DEF UpdateUsageLimit, Inv, TypeOK, counters
    <2>. QED BY <1>6, <2>2, EditStep DEF UpdateUsageLimit
  <1>. QED BY <1>1, <1>2, <1>4, <1>5, <1>6

-----------------------------------------------------------------------------
(* Calls.                                                                  *)

LEMMA GoesType ==
  ASSUME TypeOK, NEW c \in Call, NEW row \in CallRow, Goes(c, row)
  PROVE  /\ call' \in [Call -> CallRow] /\ call'[c] = row
         /\ \A d \in Call : d # c => call'[d] = call[d]
  BY DEF TypeOK, Goes

\* A call takes a lock nobody holds, reads, and changes no table.
LEMMA LockStep ==
  ASSUME Inv, NEW c \in Call, NEW row \in CallRow, Goes(c, row),
         row.key = call[c].key, row.month = call[c].month,
         call[c].pc # "admitted", row.pc # "admitted",
         UNCHANGED <<month, config, counters>>,
         holder' = holder \/ \E l \in Lock : Take(c, l),
         Held(c)'
  PROVE  Inv'
  <1>1. holder' \in [Lock -> Call \cup {None}]
    BY DEF Inv, TypeOK, Take
  <1>2. TypeOK'
    BY <1>1, GoesType DEF Inv, TypeOK, config, counters
  <1>3. UsageIsCounted'
    <2>1. \A d \in Call : /\ d # c => call'[d] = call[d]
                         /\ call'[c] = row
      BY GoesType DEF Inv
    <2>2. \A d \in Call : call'[d].month = call[d].month /\ call'[d].key = call[d].key
      BY <2>1
    <2>3. \A d \in Call : call'[d].pc = "admitted" <=> call[d].pc = "admitted"
      BY <2>1
    <2>4. TypeOK /\ UsageIsCounted /\ UNCHANGED <<usage, keyUsage>> BY DEF Inv, counters
    <2>. QED BY <1>2, <2>2, <2>3, <2>4, CountKept
  <1>4. \A d \in Call, l \in Lock : holder[l] = d => holder'[l] = d
    BY NoneAssumption DEF Inv, TypeOK, Take
  <1>5. ASSUME NEW d \in Call, d # c PROVE Held(d)'
    BY <1>4, <1>5, GoesType, HeldKept DEF Inv, config, counters
  <1>. QED BY <1>2, <1>3, <1>5 DEF Inv

LEMMA ReleaseOthers ==
  ASSUME TypeOK, NEW c \in Call, Release(c)
  PROVE  /\ holder' \in [Lock -> Call \cup {None}]
         /\ \A d \in Call, l \in Lock : d # c /\ holder[l] = d => holder'[l] = d
  BY DEF TypeOK, Release

LEMMA EndsType ==
  ASSUME TypeOK, NEW c \in Call, NEW p \in Pc, Ends(c, p)
  PROVE  /\ call' \in [Call -> CallRow]
         /\ call'[c].pc = p /\ call'[c].month = call[c].month /\ call'[c].key = call[c].key
         /\ \A d \in Call : d # c => call'[d] = call[d]
  <1>1. call[c] \in CallRow BY DEF TypeOK
  <1>2. [call[c] EXCEPT !.pc = p] \in CallRow BY <1>1 DEF CallRow
  <1>. QED BY <1>1, <1>2, GoesType DEF Ends, CallRow

\* A call that stops without being let through.
LEMMA StopStep ==
  ASSUME Inv, NEW c \in Call, NEW p \in Refused \cup {"internalError"}, Ends(c, p),
         call[c].pc \in Running,
         UNCHANGED <<month, config, usage, keyUsage>>, lastUsed' \in [Key -> Month \cup {None}]
  PROVE  Inv'
  <1>1. p \in Pc /\ p # "admitted" /\ p \notin HasKey \cup HasSetting \cup HasUsage /\ p # "decide"
    BY DEF Pc, Refused, HasKey, HasSetting, HasUsage
  <1>2. TypeOK'
    BY <1>1, EndsType, ReleaseOthers DEF Inv, TypeOK, Ends, config
  <1>3. call[c].pc # "admitted" BY DEF Running
  <1>4. UsageIsCounted'
    <2>1. /\ call'[c].pc = p /\ call'[c].month = call[c].month /\ call'[c].key = call[c].key
          /\ \A d \in Call : d # c => call'[d] = call[d]
      BY <1>1, EndsType DEF Inv
    <2>2. \A d \in Call : call'[d].month = call[d].month /\ call'[d].key = call[d].key
      BY <2>1
    <2>3. \A d \in Call : call'[d].pc = "admitted" <=> call[d].pc = "admitted"
      BY <1>1, <1>3, <2>1
    <2>4. TypeOK /\ UsageIsCounted /\ UNCHANGED <<usage, keyUsage>> BY DEF Inv
    <2>. QED BY <1>2, <2>2, <2>3, <2>4, CountKept
  <1>5. ASSUME NEW d \in Call, d # c PROVE Held(d)'
    BY <1>1, <1>5, EndsType, ReleaseOthers, HeldKept DEF Inv, Ends, config
  <1>6. Held(c)'
    BY <1>1, EndsType DEF Inv, Held, KeyHeld, SettingHeld, UsageHeld, KeyUsageHeld
  <1>. QED BY <1>2, <1>4, <1>5, <1>6 DEF Inv

LEMMA BeginStep ==
  ASSUME Inv, NEW c \in Call, Begin(c)
  PROVE  Inv'
  <1> DEFINE row == [call[c] EXCEPT !.pc = "key", !.month = month]
  <1>1. call[c] \in CallRow /\ month \in Month /\ call[c].pc = "new"
    BY DEF Inv, TypeOK, Begin
  <1>2. row \in CallRow /\ row.pc = "key"
    BY <1>1 DEF CallRow, Pc, Running
  <1>3. Goes(c, row) BY DEF Begin
  <1> HIDE DEF row
  <1>4. TypeOK' BY <1>2, <1>3, GoesType DEF Inv, TypeOK, Begin, config, counters
  <1>5. UsageIsCounted'
    <2>1. /\ call'[c].pc = "key" /\ call[c].pc = "new"
          /\ \A d \in Call : d # c => call'[d] = call[d]
      BY <1>1, <1>2, <1>3, GoesType DEF Inv
    <2>2. \A d \in Call : \/ call'[d].month = call[d].month /\ call'[d].key = call[d].key
                          \/ call[d].pc # "admitted" /\ call'[d].pc # "admitted"
      BY <2>1
    <2>3. \A d \in Call : call'[d].pc = "admitted" <=> call[d].pc = "admitted"
      BY <2>1
    <2>4. TypeOK /\ UsageIsCounted /\ UNCHANGED <<usage, keyUsage>>
      BY DEF Inv, Begin, counters
    <2>. QED BY <1>4, <2>2, <2>3, <2>4, CountKept
  <1>6. ASSUME NEW d \in Call, d # c PROVE Held(d)'
    BY <1>2, <1>3, <1>6, GoesType, HeldKept DEF Inv, Begin, config, counters
  <1>7. Held(c)'
    BY <1>2, <1>3, GoesType
       DEF Inv, Held, KeyHeld, SettingHeld, UsageHeld, KeyUsageHeld, HasKey, HasSetting, HasUsage
  <1>. QED BY <1>4, <1>5, <1>6, <1>7 DEF Inv

LEMMA LockKeyStep ==
  ASSUME Inv, NEW c \in Call, LockKey(c)
  PROVE  Inv'
  <1> DEFINE k == call[c].key
  <1>1. call[c] \in CallRow /\ k \in Key /\ call[c].pc = "key" /\ key[k] \in KeyRow
    BY DEF Inv, TypeOK, CallRow, LockKey
  <1>2. CASE key[k].status = "live"
    <2> DEFINE row == [call[c] EXCEPT !.pc = "setting", !.keyLimit = key[k].limit]
    <2>1. /\ row \in CallRow /\ row.key = k /\ row.month = call[c].month /\ row.pc = "setting"
          /\ row.keyLimit = key[k].limit
      BY <1>1 DEF CallRow, Pc, Running, KeyRow
    <2>2. Goes(c, row) /\ Take(c, KeyLock(k)) /\ UNCHANGED <<month, config, counters>>
      BY <1>2 DEF LockKey
    <2> HIDE DEF row
    <2>3. call'[c] = row BY <2>1, <2>2, GoesType DEF Inv
    <2>4. KeyLock(k) \in Lock BY <1>1, LocksExist
    <2>5. holder'[KeyLock(k)] = c BY <2>2, <2>4 DEF Take, Inv, TypeOK
    <2>6. Held(c)'
      BY <1>2, <2>1, <2>2, <2>3, <2>5
         DEF Held, KeyHeld, SettingHeld, UsageHeld, KeyUsageHeld, HasSetting, HasUsage, config
    <2>. QED BY <1>1, <2>1, <2>2, <2>4, <2>6, LockStep
  <1>3. CASE key[k].status # "live"
    <2> DEFINE row == [call[c] EXCEPT !.pc = "unauthorized"]
    <2>1. row \in CallRow /\ row.key = k /\ row.month = call[c].month /\ row.pc = "unauthorized"
      BY <1>1 DEF CallRow, Pc
    <2>2. Goes(c, row) /\ UNCHANGED <<month, config, counters, holder>>
      BY <1>3 DEF LockKey
    <2> HIDE DEF row
    <2>3. call'[c] = row BY <2>1, <2>2, GoesType DEF Inv
    <2>4. Held(c)'
      BY <2>1, <2>3
         DEF Held, KeyHeld, SettingHeld, UsageHeld, KeyUsageHeld, HasKey, HasSetting, HasUsage
    <2>. QED BY <1>1, <2>1, <2>2, <2>4, LockStep
  <1>. QED BY <1>2, <1>3

LEMMA LockSettingStep ==
  ASSUME Inv, NEW c \in Call, LockSetting(c)
  PROVE  Inv'
  <1> DEFINE row == [call[c] EXCEPT !.pc = "usage", !.limit = setting.limit]
  <1>1. call[c] \in CallRow /\ call[c].pc = "setting" /\ setting \in SettingRow
    BY DEF Inv, TypeOK, LockSetting
  <1>2. /\ row \in CallRow /\ row.pc = "usage" /\ row.limit = setting.limit
        /\ row.key = call[c].key /\ row.month = call[c].month /\ row.keyLimit = call[c].keyLimit
    BY <1>1 DEF CallRow, Pc, Running, SettingRow
  <1>3. Goes(c, row) /\ Take(c, SettingLock) /\ UNCHANGED <<month, config, counters>>
    BY DEF LockSetting
  <1> HIDE DEF row
  <1>4. call'[c] = row BY <1>2, <1>3, GoesType DEF Inv
  <1>5. SettingLock \in Lock /\ KeyLock(call[c].key) \in Lock BY <1>1, LocksExist
  <1>6. holder'[SettingLock] = c BY <1>3, <1>5 DEF Take, Inv, TypeOK
  <1>7. KeyHeld(c) BY DEF Inv, Held
  <1>8. KeyHeld(c)'
    BY <1>1, <1>2, <1>3, <1>4, <1>5, <1>7, NoneAssumption
       DEF KeyHeld, HasKey, Take, Inv, TypeOK, config
  <1>9. Held(c)'
    BY <1>2, <1>3, <1>4, <1>6, <1>8
       DEF Held, SettingHeld, UsageHeld, KeyUsageHeld, HasUsage, config
  <1>. QED BY <1>1, <1>2, <1>3, <1>5, <1>9, LockStep

LEMMA LockUsageStep ==
  ASSUME Inv, NEW c \in Call, LockUsage(c)
  PROVE  Inv'
  <1> DEFINE m == call[c].month
             row == [call[c] EXCEPT !.pc = "keyUsage", !.used = usage[m]]
  <1>1. call[c] \in CallRow /\ call[c].pc = "usage" /\ m \in Month /\ usage[m] \in Nat
    BY DEF Inv, TypeOK, LockUsage, CallRow
  <1>2. /\ row \in CallRow /\ row.pc = "keyUsage" /\ row.used = usage[m] /\ row.month = m
        /\ row.key = call[c].key /\ row.keyLimit = call[c].keyLimit /\ row.limit = call[c].limit
    BY <1>1 DEF CallRow, Pc, Running
  <1>3. Goes(c, row) /\ Take(c, UsageLock(m)) /\ UNCHANGED <<month, config, counters>>
    BY DEF LockUsage
  <1> HIDE DEF row
  <1>4. call'[c] = row BY <1>2, <1>3, GoesType DEF Inv
  <1>5. UsageLock(m) \in Lock /\ SettingLock \in Lock /\ KeyLock(call[c].key) \in Lock
    BY <1>1, LocksExist
  <1>6. holder'[UsageLock(m)] = c BY <1>3, <1>5 DEF Take, Inv, TypeOK
  <1>7. KeyHeld(c) /\ SettingHeld(c) BY DEF Inv, Held
  <1>8. KeyHeld(c)' /\ SettingHeld(c)'
    BY <1>1, <1>2, <1>3, <1>4, <1>5, <1>7, NoneAssumption
       DEF KeyHeld, SettingHeld, HasKey, HasSetting, Take, Inv, TypeOK, config
  <1>9. Held(c)'
    BY <1>2, <1>3, <1>4, <1>6, <1>8
       DEF Held, UsageHeld, KeyUsageHeld, counters
  <1>. QED BY <1>1, <1>2, <1>3, <1>5, <1>9, LockStep

LEMMA LockKeyUsageStep ==
  ASSUME Inv, NEW c \in Call, LockKeyUsage(c)
  PROVE  Inv'
  <1> DEFINE m == call[c].month
             k == call[c].key
             row == [call[c] EXCEPT !.pc = "decide", !.keyUsed = keyUsage[<<k, m>>]]
  <1>1. /\ call[c] \in CallRow /\ call[c].pc = "keyUsage" /\ m \in Month /\ k \in Key
        /\ keyUsage[<<k, m>>] \in Nat
    BY DEF Inv, TypeOK, LockKeyUsage, CallRow
  <1>2. /\ row \in CallRow /\ row.pc = "decide" /\ row.used = call[c].used /\ row.month = m
        /\ row.key = k /\ row.keyLimit = call[c].keyLimit /\ row.limit = call[c].limit
        /\ row.keyUsed = keyUsage[<<k, m>>]
    BY <1>1 DEF CallRow, Pc, Running
  <1>3. Goes(c, row) /\ Take(c, KeyUsageLock(k, m)) /\ UNCHANGED <<month, config, counters>>
    BY DEF LockKeyUsage
  <1> HIDE DEF row
  <1>4. call'[c] = row BY <1>2, <1>3, GoesType DEF Inv
  <1>5. KeyUsageLock(k, m) \in Lock /\ UsageLock(m) \in Lock /\ SettingLock \in Lock
          /\ KeyLock(k) \in Lock
    BY <1>1, LocksExist
  <1>6. holder'[KeyUsageLock(k, m)] = c BY <1>3, <1>5 DEF Take, Inv, TypeOK
  <1>7. KeyHeld(c) /\ SettingHeld(c) /\ UsageHeld(c) BY DEF Inv, Held
  <1>8. KeyHeld(c)' /\ SettingHeld(c)' /\ UsageHeld(c)'
    BY <1>1, <1>2, <1>3, <1>4, <1>5, <1>7, NoneAssumption
       DEF KeyHeld, SettingHeld, UsageHeld, HasKey, HasSetting, HasUsage, Take, Inv, TypeOK,
           config, counters
  <1>9. Held(c)'
    BY <1>2, <1>3, <1>4, <1>6, <1>8 DEF Held, KeyUsageHeld, counters
  <1>. QED BY <1>1, <1>2, <1>3, <1>5, <1>9, LockStep

LEMMA InternalErrorStep ==
  ASSUME Inv, NEW c \in Call, InternalError(c)
  PROVE  Inv'
  <1>1. call[c].pc \in Running /\ Ends(c, "internalError")
    BY DEF InternalError, Running
  <1>2. lastUsed' \in [Key -> Month \cup {None}] /\ UNCHANGED <<month, config, usage, keyUsage>>
    BY DEF InternalError, counters, Inv, TypeOK
  <1>. QED BY <1>1, <1>2, StopStep

\* A call that is let through adds itself to both counters, whose rows it has locked.
LEMMA AdmitStep ==
  ASSUME Inv, NEW c \in Call, call[c].pc = "decide", Ends(c, "admitted"),
         UNCHANGED <<month, config>>, lastUsed' \in [Key -> Month \cup {None}],
         usage' = [usage EXCEPT ![call[c].month] = call[c].used + 1],
         keyUsage' = [keyUsage EXCEPT ![<<call[c].key, call[c].month>>] = call[c].keyUsed + 1]
  PROVE  Inv'
  <1> DEFINE k == call[c].key
             m == call[c].month
  <1>1. /\ call[c] \in CallRow /\ k \in Key /\ m \in Month
        /\ call[c].used \in Nat /\ call[c].keyUsed \in Nat
    BY DEF Inv, TypeOK, CallRow
  <1>2. /\ holder[UsageLock(m)] = c /\ usage[m] = call[c].used
        /\ holder[KeyUsageLock(k, m)] = c /\ keyUsage[<<k, m>>] = call[c].keyUsed
    BY DEF Inv, Held, UsageHeld, KeyUsageHeld, HasUsage
  <1>3. /\ call' \in [Call -> CallRow]
        /\ call'[c].pc = "admitted" /\ call'[c].month = m /\ call'[c].key = k
        /\ \A d \in Call : d # c => call'[d] = call[d]
    BY EndsType DEF Inv, Pc
  <1>4. /\ holder' \in [Lock -> Call \cup {None}]
        /\ \A d \in Call, l \in Lock : d # c /\ holder[l] = d => holder'[l] = d
    BY ReleaseOthers DEF Inv, Ends
  <1>5. /\ usage' \in [Month -> Nat] /\ usage'[m] = usage[m] + 1
        /\ \A n \in Month : n # m => usage'[n] = usage[n]
    BY <1>1, <1>2 DEF Inv, TypeOK
  <1>6. /\ keyUsage' \in [Key \X Month -> Nat] /\ keyUsage'[<<k, m>>] = keyUsage[<<k, m>>] + 1
        /\ \A j \in Key, n \in Month : j # k \/ n # m => keyUsage'[<<j, n>>] = keyUsage[<<j, n>>]
    BY <1>1, <1>2 DEF Inv, TypeOK
  <1>7. TypeOK' BY <1>3, <1>4, <1>5, <1>6 DEF Inv, TypeOK, config
  <1>8. UsageIsCounted'
    <2>1. \A S \in SUBSET Call : IsFiniteSet(S) /\ Cardinality(S) \in Nat
      BY CallAssumption, FS_Subset, FS_CardinalityType
    <2>2. ASSUME NEW n \in Month PROVE usage'[n] = Cardinality(AdmittedIn(n)')
      <3>1. AdmittedIn(n) \in SUBSET Call /\ c \notin AdmittedIn(n)
        BY DEF AdmittedIn
      <3>2. CASE n = m
        <4>1. AdmittedIn(n)' = AdmittedIn(n) \cup {c} BY <1>3, <3>2 DEF AdmittedIn
        <4>2. Cardinality(AdmittedIn(n) \cup {c}) = Cardinality(AdmittedIn(n)) + 1
          BY <2>1, <3>1, FS_AddElement
        <4>. QED BY <1>5, <3>2, <4>1, <4>2 DEF Inv, UsageIsCounted
      <3>3. CASE n # m
        <4>1. AdmittedIn(n)' = AdmittedIn(n) BY <1>3, <3>3 DEF AdmittedIn
        <4>. QED BY <1>5, <3>3, <4>1 DEF Inv, UsageIsCounted
      <3>. QED BY <3>2, <3>3
    <2>3. ASSUME NEW n \in Month, NEW j \in Key
          PROVE  keyUsage'[<<j, n>>] = Cardinality(AdmittedOf(j, n)')
      <3>1. AdmittedOf(j, n) \in SUBSET Call /\ c \notin AdmittedOf(j, n)
        BY DEF AdmittedOf, AdmittedIn
      <3>2. CASE j = k /\ n = m
        <4>1. AdmittedOf(j, n)' = AdmittedOf(j, n) \cup {c}
          BY <1>3, <3>2 DEF AdmittedOf, AdmittedIn
        <4>2. Cardinality(AdmittedOf(j, n) \cup {c}) = Cardinality(AdmittedOf(j, n)) + 1
          BY <2>1, <3>1, FS_AddElement
        <4>. QED BY <1>6, <3>2, <4>1, <4>2 DEF Inv, UsageIsCounted
      <3>3. CASE j # k \/ n # m
        <4>1. AdmittedOf(j, n)' = AdmittedOf(j, n) BY <1>3, <3>3 DEF AdmittedOf, AdmittedIn
        <4>. QED BY <1>6, <3>3, <4>1 DEF Inv, UsageIsCounted
      <3>. QED BY <3>2, <3>3
    <2>. QED BY <2>2, <2>3 DEF UsageIsCounted
  <1>9. ASSUME NEW d \in Call, d # c PROVE Held(d)'
    <2>1. /\ Held(d) /\ TypeOK /\ call'[d] = call[d] /\ UNCHANGED <<key, setting>>
          /\ \A l \in Lock : holder[l] = d => holder'[l] = d
      BY <1>3, <1>4, <1>9 DEF Inv, config
    <2>2. \A n \in Month : holder[UsageLock(n)] = d => usage'[n] = usage[n]
      BY <1>2, <1>5, <1>9
    <2>3. \A j \in Key, n \in Month :
            holder[KeyUsageLock(j, n)] = d => keyUsage'[<<j, n>>] = keyUsage[<<j, n>>]
      BY <1>2, <1>6, <1>9
    <2>. QED BY <2>1, <2>2, <2>3, HeldKept
  <1>10. Held(c)'
    BY <1>3 DEF Held, KeyHeld, SettingHeld, UsageHeld, KeyUsageHeld, HasKey, HasSetting, HasUsage
  <1>. QED BY <1>7, <1>8, <1>9, <1>10 DEF Inv

LEMMA DecideStep ==
  ASSUME Inv, NEW c \in Call, Decide(c)
  PROVE  Inv'
  <1>1. /\ call[c].pc = "decide" /\ call[c].pc \in Running
        /\ UNCHANGED <<month, config>>
    BY DEF Decide, Running
  <1>2. lastUsed' \in [Key -> Month \cup {None}]
    <2>1. call[c].key \in Key /\ call[c].month \in Month BY DEF Inv, TypeOK, CallRow
    <2>2. lastUsed' = [lastUsed EXCEPT ![call[c].key] = call[c].month] BY DEF Decide
    <2>. QED BY <2>1, <2>2 DEF Inv, TypeOK
  <1> DEFINE full == Reached(call[c].limit, call[c].used)
             keyFull == Reached(call[c].keyLimit, call[c].keyUsed)
  <1>3. CASE full \/ keyFull
    <2> DEFINE p == IF full THEN "globalLimitExceeded" ELSE "keyLimitExceeded"
    <2>1. Ends(c, p) /\ UNCHANGED <<usage, keyUsage>> BY <1>3 DEF Decide
    <2>2. p \in Refused BY DEF Refused
    <2>. HIDE DEF p
    <2>. QED BY <1>1, <1>2, <2>1, <2>2, StopStep
  <1>4. CASE ~full /\ ~keyFull
    <2>1. /\ Ends(c, "admitted")
          /\ usage' = [usage EXCEPT ![call[c].month] = call[c].used + 1]
          /\ keyUsage' = [keyUsage EXCEPT ![<<call[c].key, call[c].month>>] = call[c].keyUsed + 1]
      BY <1>4 DEF Decide
    <2>. QED BY <1>1, <1>2, <2>1, AdmitStep
  <1>. QED BY <1>3, <1>4

LEMMA InvNext == Inv /\ [Next]_vars => Inv'
  <1> SUFFICES ASSUME Inv, [Next]_vars PROVE Inv'
    OBVIOUS
  <1>1. CASE UNCHANGED vars
    <2>1. TypeOK' BY <1>1 DEF vars, Inv, TypeOK
    <2>. QED BY <1>1, <2>1, EditStep DEF vars, counters
  <1>2. ASSUME NEW c \in Call, Begin(c) \/ CallStep(c) \/ InternalError(c) PROVE Inv'
    BY <1>2, BeginStep, LockKeyStep, LockSettingStep, LockUsageStep, LockKeyUsageStep, DecideStep,
       InternalErrorStep DEF CallStep
  <1>. QED BY <1>1, <1>2, EditorsStep DEF Next, AllAnswered

-----------------------------------------------------------------------------
(* The theorems.                                                           *)

LEMMA Invariance == Spec => []Inv
  BY InvInit, InvNext, PTL DEF Spec

\* Whatever the administrators and the calls do, the rows keep their types.
THEOREM TypeCorrectness == Spec => []TypeOK
  <1>1. Inv => TypeOK BY DEF Inv
  <1>. QED BY <1>1, Invariance, PTL

\* authorizeReservationApiUsage loses no count and counts nothing it rolled back
\* or refused: the counters are the numbers of the calls let through.
THEOREM UsageCounted == Spec => []UsageIsCounted
  <1>1. Inv => UsageIsCounted BY DEF Inv
  <1>. QED BY <1>1, Invariance, PTL

\* Which call changes its state, and how, decides what is known of the limits.
LEMMA OutcomeStep ==
  ASSUME Inv, Next, NEW c \in Call, call'[c].pc # call[c].pc,
         call'[c].pc \in Refused \cup {"admitted"}
  PROVE  Decide(c)
  <1>0. call \in [Call -> CallRow] BY DEF Inv, TypeOK
  <1>1. call' # call OBVIOUS
  <1>2. PICK d \in Call : Begin(d) \/ CallStep(d) \/ InternalError(d)
    BY <1>1 DEF Next, NextMonth, AllAnswered, vars, IssueReservationApiKey, UpdateKeyLimit,
                RevokeKey, UpdateUsageLimit
  <1>3. d = c
    BY <1>0, <1>2 DEF Begin, CallStep, InternalError, LockKey, LockSetting, LockUsage,
                LockKeyUsage, Decide, Ends, Goes
  <1>4. CASE Begin(c)
    BY <1>0, <1>4 DEF Begin, Goes, Refused
  <1>5. CASE LockKey(c)
    <2>1. call'[c].pc = "setting" \/ call'[c].pc = "unauthorized"
      BY <1>0, <1>5 DEF LockKey, Goes, CallRow
    <2>. QED BY <2>1 DEF Refused
  <1>6. CASE LockSetting(c)
    BY <1>0, <1>6 DEF LockSetting, Goes, Refused
  <1>7. CASE LockUsage(c)
    BY <1>0, <1>7 DEF LockUsage, Goes, Refused
  <1>8. CASE LockKeyUsage(c)
    BY <1>0, <1>8 DEF LockKeyUsage, Goes, Refused
  <1>9. CASE InternalError(c)
    BY <1>0, <1>9 DEF InternalError, Ends, Goes, Refused
  <1>. QED BY <1>2, <1>3, <1>4, <1>5, <1>6, <1>7, <1>8, <1>9 DEF CallStep

\* What a deciding call has read of limits and counters is what they are.
LEMMA ReadIsCurrent ==
  ASSUME Inv, NEW c \in Call, Decide(c)
  PROVE  /\ key[call[c].key].status = "live"
         /\ key[call[c].key].limit = call[c].keyLimit /\ setting.limit = call[c].limit
         /\ usage[call[c].month] = call[c].used
         /\ keyUsage[<<call[c].key, call[c].month>>] = call[c].keyUsed
         /\ call[c].used \in Nat /\ call[c].keyUsed \in Nat
         /\ call[c].limit \in LimitOrNone /\ call[c].keyLimit \in LimitOrNone
  BY DEF Inv, TypeOK, CallRow, Held, KeyHeld, SettingHeld, UsageHeld, KeyUsageHeld, HasKey,
         HasSetting, HasUsage, Decide

LEMMA Outcome ==
  ASSUME Inv, NEW c \in Call, Decide(c)
  PROVE  LET full == Reached(call[c].limit, call[c].used)
             keyFull == Reached(call[c].keyLimit, call[c].keyUsed)
         IN  /\ call'[c].pc = "admitted" => ~full /\ ~keyFull
             /\ call'[c].pc = "globalLimitExceeded" => full
             /\ call'[c].pc = "keyLimitExceeded" => keyFull
  <1>1. call \in [Call -> CallRow] BY DEF Inv, TypeOK
  <1>2. \A p : Ends(c, p) => call'[c].pc = p BY <1>1 DEF Ends, Goes, CallRow
  <1>. QED BY <1>2 DEF Decide

\* No call gets past a limit or a revocation, however the statements of calls and
\* administrators interleave: what Decide tests is still true when it commits.
THEOREM LimitsRespected == Spec => AdmittedWithinLimits
  <1>1. Inv /\ [Next]_vars =>
          [\A c \in Call :
             call[c].pc # "admitted" /\ call'[c].pc = "admitted" =>
               LET k == call[c].key
                   m == call[c].month
               IN  /\ key[k].status = "live"
                   /\ setting.limit # None => usage[m] < setting.limit
                   /\ key[k].limit # None => keyUsage[<<k, m>>] < key[k].limit]_vars
    <2> SUFFICES ASSUME Inv, Next, NEW c \in Call,
                        call[c].pc # "admitted", call'[c].pc = "admitted"
                 PROVE  /\ key[call[c].key].status = "live"
                        /\ setting.limit # None => usage[call[c].month] < setting.limit
                        /\ key[call[c].key].limit # None =>
                             keyUsage[<<call[c].key, call[c].month>>] < key[call[c].key].limit
      OBVIOUS
    <2>1. Decide(c) BY OutcomeStep
    <2>2. ~Reached(call[c].limit, call[c].used) /\ ~Reached(call[c].keyLimit, call[c].keyUsed)
      BY <2>1, Outcome
    <2>3. /\ call[c].limit # None => call[c].used < call[c].limit
          /\ call[c].keyLimit # None => call[c].keyUsed < call[c].keyLimit
      <3>1. ASSUME NEW limit \in LimitOrNone, NEW n \in Nat, ~Reached(limit, n), limit # None
            PROVE  n < limit
        <4>1. limit \in Nat BY <3>1, BoundAssumption DEF LimitOrNone
        <4>. QED BY <3>1, <4>1 DEF Reached
      <3>. QED BY <2>1, <2>2, <3>1, ReadIsCurrent
    <2>. QED BY <2>1, <2>3, ReadIsCurrent
  <1>. QED BY <1>1, Invariance, PTL DEF Spec, AdmittedWithinLimits

\* No call is told of a limit that is not used up.
THEOREM RefusalsJustified == Spec => RefusedAtLimit
  <1>1. Inv /\ [Next]_vars =>
          [\A c \in Call :
             LET k == call[c].key
                 m == call[c].month
             IN  /\ call[c].pc # "globalLimitExceeded" /\ call'[c].pc = "globalLimitExceeded" =>
                      setting.limit # None /\ usage[m] >= setting.limit
                 /\ call[c].pc # "keyLimitExceeded" /\ call'[c].pc = "keyLimitExceeded" =>
                      key[k].limit # None /\ keyUsage[<<k, m>>] >= key[k].limit]_vars
    <2> SUFFICES ASSUME Inv, Next, NEW c \in Call, call'[c].pc # call[c].pc,
                        call'[c].pc \in Refused
                 PROVE  /\ call'[c].pc = "globalLimitExceeded" =>
                             setting.limit # None /\ usage[call[c].month] >= setting.limit
                        /\ call'[c].pc = "keyLimitExceeded" =>
                             /\ key[call[c].key].limit # None
                             /\ keyUsage[<<call[c].key, call[c].month>>] >= key[call[c].key].limit
      BY DEF Refused
    <2>1. Decide(c) BY OutcomeStep
    <2>. QED BY <2>1, ReadIsCurrent, Outcome DEF Reached
  <1>. QED BY <1>1, Invariance, PTL DEF Spec, RefusedAtLimit

-----------------------------------------------------------------------------
(* The quota as one step a call: the refinement of QuotaLedger.            *)

LEMMA SameCount == \A S : Quota!Cardinality(S) = Cardinality(S)
  BY DEF Cardinality, Quota!Cardinality

\* A call counts for a month that has begun.
MonthsBegun == \A c \in Call : call[c].month <= month

LEMMA MonthsBegunInit == Init => MonthsBegun
  <1> SUFFICES ASSUME Init, NEW c \in Call PROVE call[c].month <= month
    BY DEF MonthsBegun
  <1>1. call[c].month = 0 /\ month = 0 BY DEF Init
  <1>. QED BY <1>1

\* The statements of a call leave its month, and its key, as Begin has set it.
LEMMA CallKept ==
  ASSUME TypeOK, NEW d \in Call, CallStep(d) \/ InternalError(d), NEW c \in Call
  PROVE  call'[c].month = call[c].month /\ call'[c].key = call[c].key
  <1>1. call \in [Call -> CallRow] BY DEF TypeOK
  <1>2. ASSUME NEW row, Goes(d, row), row.month = call[d].month, row.key = call[d].key
        PROVE  call'[c].month = call[c].month /\ call'[c].key = call[c].key
    BY <1>1, <1>2 DEF Goes
  <1>3. CASE LockKey(d) BY <1>1, <1>2, <1>3 DEF LockKey, CallRow
  <1>4. CASE LockSetting(d) BY <1>1, <1>2, <1>4 DEF LockSetting, CallRow
  <1>5. CASE LockUsage(d) BY <1>1, <1>2, <1>5 DEF LockUsage, CallRow
  <1>6. CASE LockKeyUsage(d) BY <1>1, <1>2, <1>6 DEF LockKeyUsage, CallRow
  <1>7. CASE Decide(d) BY <1>1, <1>2, <1>7 DEF Decide, Ends, CallRow
  <1>8. CASE InternalError(d) BY <1>1, <1>2, <1>8 DEF InternalError, Ends, CallRow
  <1>. QED BY <1>3, <1>4, <1>5, <1>6, <1>7, <1>8 DEF CallStep

LEMMA MonthsBegunNext == Inv /\ MonthsBegun /\ [Next]_vars => MonthsBegun'
  <1> SUFFICES ASSUME Inv, MonthsBegun, [Next]_vars, NEW c \in Call
               PROVE  call'[c].month <= month'
    BY DEF MonthsBegun
  <1>0. /\ call[c].month \in Nat /\ month \in Nat /\ call[c].month <= month
        /\ call \in [Call -> CallRow]
    BY BoundAssumption DEF Inv, TypeOK, CallRow, Month, MonthsBegun
  <1>1. CASE NextMonth BY <1>0, <1>1 DEF NextMonth
  <1>2. ASSUME NEW d \in Call, Begin(d) PROVE call'[c].month <= month'
    <2>1. call' = [call EXCEPT ![d] = [call[d] EXCEPT !.pc = "key", !.month = month]] /\ month' = month
      BY <1>2 DEF Begin, Goes
    <2>. QED BY <1>0, <2>1 DEF CallRow
  <1>3. ASSUME NEW d \in Call, CallStep(d) \/ InternalError(d) PROVE call'[c].month <= month'
    <2>1. month' = month
      BY <1>3 DEF CallStep, InternalError, LockKey, LockSetting, LockUsage, LockKeyUsage, Decide
    <2>2. call'[c].month = call[c].month BY <1>3, CallKept DEF Inv
    <2>. QED BY <1>0, <2>1, <2>2
  <1>4. CASE UNCHANGED <<call, month>> BY <1>0, <1>4
  <1>. QED BY <1>1, <1>2, <1>3, <1>4
           DEF Next, AllAnswered, vars, IssueReservationApiKey, UpdateKeyLimit, RevokeKey, UpdateUsageLimit

Open == Running \cup {"new"}

LEMMA AnswersStand ==
  ASSUME UNCHANGED call
  PROVE  UNCHANGED answers
  <1>1. \A c \in Call : AnswerOf(c)' = AnswerOf(c) BY DEF AnswerOf
  <1>. QED BY <1>1 DEF answers

\* A statement that does not end its call answers nobody.
LEMMA CallGoesOn ==
  ASSUME TypeOK, NEW c \in Call, NEW row, row.pc \in Open, call[c].pc \in Open, Goes(c, row)
  PROVE  UNCHANGED answers
  <1>1. ASSUME NEW d \in Call PROVE AnswerOf(d)' = AnswerOf(d)
    <2>1. CASE d = c BY <2>1 DEF TypeOK, Goes, AnswerOf, Open
    <2>2. CASE d # c
      <3>1. call'[d] = call[d] BY <2>2 DEF TypeOK, Goes
      <3>. QED BY <3>1 DEF AnswerOf
    <2>. QED BY <2>1, <2>2
  <1>. QED BY <1>1 DEF answers

\* The end of a call is its answer.
LEMMA CallAnswered ==
  ASSUME TypeOK, NEW c \in Call, NEW p \in Pc \ Open, call[c].pc \in Open,
         Goes(c, [call[c] EXCEPT !.pc = p]), UNCHANGED <<month, config>>
  PROVE  Quota!Answer(c, call[c].key, call[c].month, p)
  <1>1. call \in [Call -> CallRow] BY DEF TypeOK
  <1>2. answers[c] = Quota!Unanswered BY DEF answers, AnswerOf, Open, Quota!Unanswered
  <1>3. answers' = [answers EXCEPT ![c] = [is |-> p, key |-> call[c].key, month |-> call[c].month]]
    <2>1. /\ call'[c].pc = p /\ call'[c].key = call[c].key /\ call'[c].month = call[c].month
          /\ \A d \in Call : d # c => call'[d] = call[d]
      BY <1>1 DEF Goes, CallRow
    <2>2. AnswerOf(c)' = [is |-> p, key |-> call[c].key, month |-> call[c].month]
      BY <2>1 DEF AnswerOf, Open
    <2>3. \A d \in Call : d # c => AnswerOf(d)' = AnswerOf(d) BY <2>1 DEF AnswerOf
    <2>. QED BY <2>2, <2>3 DEF answers
  <1>. QED BY <1>2, <1>3 DEF Quota!Answer, config

\* The ledger counts the calls that the counters count.
LEMMA LedgerCounts ==
  ASSUME Inv, NEW m \in Month, NEW k \in Key
  PROVE  /\ Cardinality(Quota!Through(m)) = usage[m]
         /\ Cardinality(Quota!ThroughWith(k, m)) = keyUsage[<<k, m>>]
  <1>1. \A c \in Call : /\ answers[c].is = "admitted" <=> call[c].pc = "admitted"
                        /\ call[c].pc = "admitted" => /\ answers[c].key = call[c].key
                                                      /\ answers[c].month = call[c].month
    BY DEF answers, AnswerOf, Running
  <1>2. Quota!Through(m) = AdmittedIn(m) BY <1>1 DEF Quota!Through, AdmittedIn
  <1>3. Quota!ThroughWith(k, m) = AdmittedOf(k, m)
    BY <1>1, <1>2 DEF Quota!ThroughWith, AdmittedOf, AdmittedIn
  <1>. QED BY <1>2, <1>3 DEF Inv, UsageIsCounted

\* What a call has read tells it whether a limit is used up.
LEMMA ReadTells ==
  ASSUME Inv, NEW c \in Call, Decide(c)
  PROVE  /\ Quota!UsedUp(setting.limit, Quota!Through(call[c].month))
              <=> Reached(call[c].limit, call[c].used)
         /\ Quota!UsedUp(key[call[c].key].limit, Quota!ThroughWith(call[c].key, call[c].month))
              <=> Reached(call[c].keyLimit, call[c].keyUsed)
  <1>1. call[c].key \in Key /\ call[c].month \in Month BY DEF Inv, TypeOK, CallRow
  <1>. QED BY <1>1, ReadIsCurrent, LedgerCounts, SameCount DEF Quota!UsedUp, Reached

LEMMA CallIsAnswered ==
  ASSUME Inv, MonthsBegun, NEW c \in Call, Begin(c) \/ CallStep(c) \/ InternalError(c)
  PROVE  [Quota!LedgerNext]_(Quota!ledger)
  <1> DEFINE k == call[c].key
             m == call[c].month
  <1>0. /\ TypeOK /\ call[c] \in CallRow /\ k \in Key /\ m \in 0..MaxMonth /\ m <= month
    BY DEF Inv, TypeOK, CallRow, MonthsBegun, Month
  <1>1. CASE Begin(c)
    <2>1. [call[c] EXCEPT !.pc = "key", !.month = month].pc \in Open /\ call[c].pc \in Open
      BY <1>0, <1>1 DEF CallRow, Begin, Open, Running
    <2>. QED BY <1>0, <1>1, <2>1, CallGoesOn DEF Begin, config, Quota!ledger
  <1>2. CASE LockKey(c) /\ key[k].status = "live"
    <2>1. [call[c] EXCEPT !.pc = "setting", !.keyLimit = key[k].limit].pc \in Open /\ call[c].pc \in Open
      BY <1>0, <1>2 DEF CallRow, LockKey, Open, Running
    <2>2. UNCHANGED answers BY <1>0, <1>2, <2>1, CallGoesOn DEF LockKey
    <2>. QED BY <1>2, <2>2 DEF LockKey, config, Quota!ledger
  <1>3. CASE LockKey(c) /\ key[k].status # "live"
    <2>1. Quota!Answer(c, k, m, "unauthorized")
      BY <1>0, <1>3, CallAnswered DEF LockKey, Open, Running, Pc, Refused
    <2>2. Quota!TurnAway(c, k, m) BY <1>0, <1>3, <2>1 DEF Quota!TurnAway
    <2>. QED BY <1>0, <2>2 DEF Quota!LedgerNext
  <1>4. CASE LockSetting(c)
    <2>1. [call[c] EXCEPT !.pc = "usage", !.limit = setting.limit].pc \in Open /\ call[c].pc \in Open
      BY <1>0, <1>4 DEF CallRow, LockSetting, Open, Running
    <2>2. UNCHANGED answers BY <1>0, <1>4, <2>1, CallGoesOn DEF LockSetting
    <2>. QED BY <1>4, <2>2 DEF LockSetting, config, Quota!ledger
  <1>5. CASE LockUsage(c)
    <2>1. [call[c] EXCEPT !.pc = "keyUsage", !.used = usage[m]].pc \in Open /\ call[c].pc \in Open
      BY <1>0, <1>5 DEF CallRow, LockUsage, Open, Running
    <2>2. UNCHANGED answers BY <1>0, <1>5, <2>1, CallGoesOn DEF LockUsage
    <2>. QED BY <1>5, <2>2 DEF LockUsage, config, Quota!ledger
  <1>6. CASE LockKeyUsage(c)
    <2>1. [call[c] EXCEPT !.pc = "decide", !.keyUsed = keyUsage[<<k, m>>]].pc \in Open
          /\ call[c].pc \in Open
      BY <1>0, <1>6 DEF CallRow, LockKeyUsage, Open, Running
    <2>2. UNCHANGED answers BY <1>0, <1>6, <2>1, CallGoesOn DEF LockKeyUsage
    <2>. QED BY <1>6, <2>2 DEF LockKeyUsage, config, Quota!ledger
  <1>7. CASE Decide(c)
    <2>1. key[k].status = "live" BY <1>7, ReadIsCurrent
    <2>2. \A p \in {"admitted", "globalLimitExceeded", "keyLimitExceeded"} :
            Ends(c, p) => Quota!Answer(c, k, m, p)
      BY <1>0, <1>7, CallAnswered DEF Decide, Ends, Open, Running, Pc, Refused
    <2>3. CASE Reached(call[c].limit, call[c].used)
      <3>1. Ends(c, "globalLimitExceeded") BY <1>7, <2>3 DEF Decide
      <3>2. Quota!Refuse(c, k, m) BY <1>0, <1>7, <2>1, <2>2, <2>3, <3>1, ReadTells DEF Quota!Refuse
      <3>. QED BY <1>0, <3>2 DEF Quota!LedgerNext
    <2>4. CASE ~Reached(call[c].limit, call[c].used) /\ Reached(call[c].keyLimit, call[c].keyUsed)
      <3>1. Ends(c, "keyLimitExceeded") BY <1>7, <2>4 DEF Decide
      <3>2. Quota!Refuse(c, k, m) BY <1>0, <1>7, <2>1, <2>2, <2>4, <3>1, ReadTells DEF Quota!Refuse
      <3>. QED BY <1>0, <3>2 DEF Quota!LedgerNext
    <2>5. CASE ~Reached(call[c].limit, call[c].used) /\ ~Reached(call[c].keyLimit, call[c].keyUsed)
      <3>1. Ends(c, "admitted") BY <1>7, <2>5 DEF Decide
      <3>2. Quota!LetThrough(c, k, m)
        BY <1>0, <1>7, <2>1, <2>2, <2>5, <3>1, ReadTells DEF Quota!LetThrough
      <3>. QED BY <1>0, <3>2 DEF Quota!LedgerNext
    <2>. QED BY <2>3, <2>4, <2>5
  <1>8. CASE InternalError(c)
    <2>1. Quota!Answer(c, k, m, "internalError")
      BY <1>0, <1>8, CallAnswered DEF InternalError, Ends, Open, Running, Pc, Refused
    <2>2. Quota!Fail(c, k, m) BY <1>0, <2>1 DEF Quota!Fail
    <2>. QED BY <1>0, <2>2 DEF Quota!LedgerNext
  <1>. QED BY <1>1, <1>2, <1>3, <1>4, <1>5, <1>6, <1>7, <1>8 DEF CallStep

\* What administrators do to rows nobody has locked is an edit of the ledger.
LEMMA EditIsEntered ==
  ASSUME Inv,
         \/ NextMonth
         \/ \E k \in Key, limit \in LimitOrNone : IssueReservationApiKey(k, limit)
         \/ \E k \in Key, limit \in LimitOrNone, r \in Revision : UpdateKeyLimit(k, limit, r)
         \/ \E k \in Key, r \in Revision : RevokeKey(k, r)
         \/ \E limit \in LimitOrNone, r \in Revision : UpdateUsageLimit(limit, r)
  PROVE  Quota!LedgerNext
  <1>1. CASE NextMonth
    <2>1. UNCHANGED answers BY <1>1, AnswersStand DEF NextMonth
    <2>. QED BY <1>1, <2>1 DEF NextMonth, config, Quota!MonthEnds, Quota!LedgerNext
  <1>2. ASSUME NEW k \in Key, NEW limit \in LimitOrNone, IssueReservationApiKey(k, limit)
        PROVE  Quota!LedgerNext
    <2>1. UNCHANGED answers BY <1>2, AnswersStand DEF IssueReservationApiKey
    <2>2. Quota!EditKey(k) BY <1>2, <2>1 DEF IssueReservationApiKey, Quota!EditKey
    <2>. QED BY <2>2 DEF Quota!LedgerNext
  <1>3. ASSUME NEW k \in Key, NEW limit \in LimitOrNone, NEW r \in Revision, UpdateKeyLimit(k, limit, r)
        PROVE  Quota!LedgerNext
    <2>1. UNCHANGED answers BY <1>3, AnswersStand DEF UpdateKeyLimit
    <2>2. key' = [key EXCEPT ![k] = [status |-> "live", limit |-> limit, revision |-> key[k].revision + 1]]
      BY <1>3 DEF UpdateKeyLimit, Editable
    <2>3. Quota!EditKey(k) BY <1>3, <2>1, <2>2 DEF UpdateKeyLimit, Editable, Quota!EditKey, Inv, TypeOK
    <2>. QED BY <2>3 DEF Quota!LedgerNext
  <1>4. ASSUME NEW k \in Key, NEW r \in Revision, RevokeKey(k, r)
        PROVE  Quota!LedgerNext
    <2>1. UNCHANGED answers BY <1>4, AnswersStand DEF RevokeKey
    <2>3. key' = [key EXCEPT ![k] = [status |-> "revoked", limit |-> key[k].limit,
                                     revision |-> key[k].revision + 1]]
      BY <1>4 DEF RevokeKey, Editable
    <2>4. None \in LimitOrNone BY DEF LimitOrNone
    <2>5. Quota!EditKey(k) BY <1>4, <2>1, <2>3, <2>4 DEF RevokeKey, Editable, Quota!EditKey, Inv, TypeOK
    <2>. QED BY <2>5 DEF Quota!LedgerNext
  <1>5. ASSUME NEW limit \in LimitOrNone, NEW r \in Revision, UpdateUsageLimit(limit, r)
        PROVE  Quota!LedgerNext
    <2>1. UNCHANGED answers BY <1>5, AnswersStand DEF UpdateUsageLimit
    <2>2. Quota!EditSetting BY <1>5, <2>1 DEF UpdateUsageLimit, Quota!EditSetting
    <2>. QED BY <2>2 DEF Quota!LedgerNext
  <1>. QED BY <1>1, <1>2, <1>3, <1>4, <1>5

\* Calls, administrators and the calendar change what callers can see as if every call
\* were decided in one step: neither the locks nor the counters can be told from the answers.
THEOREM ImplementsQuota == Spec => QuotaSpec
  <1>1. Init => Quota!LedgerInit
    <2> SUFFICES ASSUME Init PROVE answers = [c \in Call |-> Quota!Unanswered]
      BY DEF Init, Quota!LedgerInit
    <2>1. \A c \in Call : call[c].pc = "new" BY DEF Init
    <2>. QED BY <2>1 DEF answers, AnswerOf, Quota!Unanswered
  <1>2. Inv /\ MonthsBegun /\ [Next]_vars => [Quota!LedgerNext]_(Quota!ledger)
    <2> SUFFICES ASSUME Inv, MonthsBegun, [Next]_vars PROVE [Quota!LedgerNext]_(Quota!ledger)
      OBVIOUS
    <2>1. CASE UNCHANGED vars
      <3>1. UNCHANGED answers BY <2>1, AnswersStand DEF vars
      <3>. QED BY <2>1, <3>1 DEF vars, Quota!ledger
    <2>. QED BY <2>1, CallIsAnswered, EditIsEntered DEF Next, AllAnswered
  <1>. QED BY <1>1, <1>2, MonthsBegunInit, MonthsBegunNext, Invariance, PTL
           DEF Spec, QuotaSpec, Quota!LedgerSpec
=============================================================================
