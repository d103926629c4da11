---------------------------- MODULE ReservationUsage ----------------------------
(***************************************************************************)
(* API keys of the reservation API and their monthly quotas                *)
(* (lib/server/reservation-api-keys.ts, reservation-api-usage.ts): the     *)
(* transaction that authenticates a call and counts it, and the            *)
(* administrators who issue, limit and revoke keys meanwhile.              *)
(*                                                                         *)
(* A call locks rows in the order key, setting, usage, key usage and keeps *)
(* them until it commits or rolls back; each SELECT ... FOR UPDATE is a    *)
(* step.  An administrator's update waits for the row, sees its latest     *)
(* version and commits at once.  One tenant: tenants share no rows.        *)
(***************************************************************************)
EXTENDS Integers, FiniteSets

CONSTANTS
  Call,        \* calls of the reservation API
  Key,         \* API keys that may be issued
  Limit,       \* monthly limits the administrators choose from
  MaxRevision, \* bound on the revision of a key and of the setting
  MaxMonth,    \* bound on the month
  None         \* no limit, no holder, never used

ASSUME CallAssumption == IsFiniteSet(Call)
ASSUME BoundAssumption ==
  Limit \subseteq Nat /\ MaxRevision \in Nat \ {0} /\ MaxMonth \in Nat
ASSUME NoneAssumption == None \notin Nat /\ None \notin Call

Month == 0..MaxMonth
Revision == 1..MaxRevision
LimitOrNone == Limit \cup {None}
KeyStatus == {"absent", "live", "revoked"}

KeyRow == [status : KeyStatus, limit : LimitOrNone, revision : Revision]
SettingRow == [limit : LimitOrNone, revision : Revision]

\* The rows a call locks.
KeyLock(k) == <<"key", k>>
SettingLock == <<"setting">>
UsageLock(m) == <<"usage", m>>
KeyUsageLock(k, m) == <<"keyUsage", k, m>>
Lock ==
  {KeyLock(k) : k \in Key} \cup {SettingLock} \cup {UsageLock(m) : m \in Month}
    \cup {KeyUsageLock(k, m) : k \in Key, m \in Month}

VARIABLES
  month,    \* the current month in Tokyo
  key,      \* reservation_api_keys
  setting,  \* reservation_api_usage_settings
  usage,    \* reservation_api_monthly_usage, a missing row being 0
  keyUsage, \* reservation_api_key_monthly_usage, a missing row being 0
  lastUsed, \* lastUsedAt of the keys, by month
  holder,   \* the call that holds a row's lock
  call      \* where each call is, and what it has read

config == <<key, setting>>
counters == <<usage, keyUsage, lastUsed>>
vars == <<month, key, setting, usage, keyUsage, lastUsed, holder, call>>

Init ==
  /\ month = 0
  /\ key = [k \in Key |-> [status |-> "absent", limit |-> None, revision |-> 1]]
  /\ setting = [limit |-> None, revision |-> 1]
  /\ usage = [m \in Month |-> 0]
  /\ keyUsage = [km \in Key \X Month |-> 0]
  /\ lastUsed = [k \in Key |-> None]
  /\ holder = [l \in Lock |-> None]
  /\ call \in [Call -> [pc : {"new"}, key : Key, month : {0}, keyLimit : {None},
                        limit : {None}, used : {0}, keyUsed : {0}]]

-----------------------------------------------------------------------------
(* Administrators.  An update names the revision it was made for.          *)

IssueReservationApiKey(k, limit) ==
  /\ key[k].status = "absent"
  /\ key' = [key EXCEPT ![k] = [status |-> "live", limit |-> limit, revision |-> 1]]
  /\ UNCHANGED <<month, setting, counters, holder, call>>

\* The row is free, live and at the revision the administrator saw.
Editable(k, expected) ==
  /\ holder[KeyLock(k)] = None
  /\ key[k].status = "live"
  /\ key[k].revision = expected
  /\ expected < MaxRevision

UpdateKeyLimit(k, limit, expected) ==
  /\ Editable(k, expected)
  /\ key' = [key EXCEPT ![k] = [status |-> "live", limit |-> limit, revision |-> expected + 1]]
  /\ UNCHANGED <<month, setting, counters, holder, call>>

RevokeKey(k, expected) ==
  /\ Editable(k, expected)
  /\ key' = [key EXCEPT ![k] =
               [status |-> "revoked", limit |-> key[k].limit, revision |-> expected + 1]]
  /\ UNCHANGED <<month, setting, counters, holder, call>>

UpdateUsageLimit(limit, expected) ==
  /\ holder[SettingLock] = None
  /\ setting.revision = expected
  /\ expected < MaxRevision
  /\ setting' = [limit |-> limit, revision |-> expected + 1]
  /\ UNCHANGED <<month, key, counters, holder, call>>

-----------------------------------------------------------------------------
(* A call.                                                                 *)

Goes(c, row) == call' = [call EXCEPT ![c] = row]

\* What a call takes when nobody holds it.
Take(c, l) == holder[l] = None /\ holder' = [holder EXCEPT ![l] = c]

Release(c) == holder' = [l \in Lock |-> IF holder[l] = c THEN None ELSE holder[l]]

\* Mutant of Ends: an error caught inside the transaction leaves it open.
EndsUnlessFailed(c, pc) ==
  /\ Goes(c, [call[c] EXCEPT !.pc = pc])
  /\ IF pc = "internalError" THEN UNCHANGED holder ELSE Release(c)

\* COMMIT and ROLLBACK free every lock of the call.
Ends(c, pc) == Goes(c, [call[c] EXCEPT !.pc = pc]) /\ Release(c)

\* The route reads the clock and hands it to the transaction.
Begin(c) ==
  /\ call[c].pc = "new"
  /\ Goes(c, [call[c] EXCEPT !.pc = "key", !.month = month])
  /\ UNCHANGED <<month, config, counters, holder>>

\* Mutant of LockKey: the key is read without FOR UPDATE.
ReadKey(c) ==
  LET k == call[c].key
  IN  /\ call[c].pc = "key"
      /\ IF key[k].status = "live"
           THEN Goes(c, [call[c] EXCEPT !.pc = "setting", !.keyLimit = key[k].limit])
           ELSE Goes(c, [call[c] EXCEPT !.pc = "unauthorized"])
      /\ UNCHANGED <<month, config, counters, holder>>

\* A revoked or unknown key is refused before anything is counted.
LockKey(c) ==
  LET k == call[c].key
  IN  /\ call[c].pc = "key"
      /\ holder[KeyLock(k)] = None
      /\ IF key[k].status = "live"
           THEN /\ Take(c, KeyLock(k))
                /\ Goes(c, [call[c] EXCEPT !.pc = "setting", !.keyLimit = key[k].limit])
           ELSE /\ Goes(c, [call[c] EXCEPT !.pc = "unauthorized"])
                /\ UNCHANGED holder
      /\ UNCHANGED <<month, config, counters>>

LockSetting(c) ==
  /\ call[c].pc = "setting"
  /\ Take(c, SettingLock)
  /\ Goes(c, [call[c] EXCEPT !.pc = "usage", !.limit = setting.limit])
  /\ UNCHANGED <<month, config, counters>>

\* The counter's row is inserted if it is missing, and locked.
LockUsage(c) ==
  LET m == call[c].month
  IN  /\ call[c].pc = "usage"
      /\ Take(c, UsageLock(m))
      /\ Goes(c, [call[c] EXCEPT !.pc = "keyUsage", !.used = usage[m]])
      /\ UNCHANGED <<month, config, counters>>

LockKeyUsage(c) ==
  LET km == <<call[c].key, call[c].month>>
  IN  /\ call[c].pc = "keyUsage"
      /\ Take(c, KeyUsageLock(km[1], km[2]))
      /\ Goes(c, [call[c] EXCEPT !.pc = "decide", !.keyUsed = keyUsage[km]])
      /\ UNCHANGED <<month, config, counters>>

Reached(limit, used) == limit # None /\ used >= limit

\* Mutant of Decide: the tenant's counter is written before the key's limit is tested.
DecideCountingFirst(c) ==
  LET k == call[c].key
      m == call[c].month
  IN  /\ call[c].pc = "decide"
      /\ lastUsed' = [lastUsed EXCEPT ![k] = m]
      /\ \/ /\ Reached(call[c].limit, call[c].used)
            /\ Ends(c, "globalLimitExceeded")
            /\ UNCHANGED <<usage, keyUsage>>
         \/ /\ ~Reached(call[c].limit, call[c].used)
            /\ usage' = [usage EXCEPT ![m] = call[c].used + 1]
            /\ IF Reached(call[c].keyLimit, call[c].keyUsed)
                 THEN Ends(c, "keyLimitExceeded") /\ UNCHANGED keyUsage
                 ELSE /\ Ends(c, "admitted")
                      /\ keyUsage' = [keyUsage EXCEPT ![<<k, m>>] = call[c].keyUsed + 1]
      /\ UNCHANGED <<month, config>>

\* Mutant of Decide: the key's limit is tested first.
DecideKeyFirst(c) ==
  LET k == call[c].key
      m == call[c].month
      full == Reached(call[c].limit, call[c].used)
      keyFull == Reached(call[c].keyLimit, call[c].keyUsed)
  IN  /\ call[c].pc = "decide"
      /\ lastUsed' = [lastUsed EXCEPT ![k] = m]
      /\ \/ /\ full \/ keyFull
            /\ Ends(c, IF keyFull THEN "keyLimitExceeded" ELSE "globalLimitExceeded")
            /\ UNCHANGED <<usage, keyUsage>>
         \/ /\ ~full /\ ~keyFull
            /\ Ends(c, "admitted")
            /\ usage' = [usage EXCEPT ![m] = call[c].used + 1]
            /\ keyUsage' = [keyUsage EXCEPT ![<<k, m>>] = call[c].keyUsed + 1]
      /\ UNCHANGED <<month, config>>

\* The tenant's limit is tested first; a refused call marks the key as used
\* and is not counted.
Decide(c) ==
  LET k == call[c].key
      m == call[c].month
      full == Reached(call[c].limit, call[c].used)
      keyFull == Reached(call[c].keyLimit, call[c].keyUsed)
  IN  /\ call[c].pc = "decide"
      /\ lastUsed' = [lastUsed EXCEPT ![k] = m]
      /\ \/ /\ full \/ keyFull
            /\ Ends(c, IF full THEN "globalLimitExceeded" ELSE "keyLimitExceeded")
            /\ UNCHANGED <<usage, keyUsage>>
         \/ /\ ~full /\ ~keyFull
            /\ Ends(c, "admitted")
            /\ usage' = [usage EXCEPT ![m] = call[c].used + 1]
            /\ keyUsage' = [keyUsage EXCEPT ![<<k, m>>] = call[c].keyUsed + 1]
      /\ UNCHANGED <<month, config>>

\* The database fails: the transaction is rolled back.
InternalError(c) ==
  /\ call[c].pc \in {"key", "setting", "usage", "keyUsage", "decide"}
  /\ Ends(c, "internalError")
  /\ UNCHANGED <<month, config, counters>>

CallStep(c) ==
  LockKey(c) \/ LockSetting(c) \/ LockUsage(c) \/ LockKeyUsage(c) \/ Decide(c)

NextMonth ==
  /\ month < MaxMonth
  /\ month' = month + 1
  /\ UNCHANGED <<config, counters, holder, call>>

\* No call is left: new ones are the bound.
AllAnswered ==
  /\ \A c \in Call : call[c].pc \notin {"new", "key", "setting", "usage", "keyUsage", "decide"}
  /\ UNCHANGED vars

Next ==
  \/ NextMonth \/ AllAnswered
  \/ \E k \in Key, limit \in LimitOrNone : IssueReservationApiKey(k, limit)
  \/ \E k \in Key, limit \in LimitOrNone, r \in Revision : UpdateKeyLimit(k, limit, r)
  \/ \E k \in Key, r \in Revision : RevokeKey(k, r)
  \/ \E limit \in LimitOrNone, r \in Revision : UpdateUsageLimit(limit, r)
  \/ \E c \in Call : Begin(c) \/ CallStep(c) \/ InternalError(c)

Spec == Init /\ [][Next]_vars

\* The database runs the statements of a transaction whose lock stays free.
FairSpec == Spec /\ \A c \in Call : WF_vars(CallStep(c))

-----------------------------------------------------------------------------
(* Properties.                                                             *)

Running == {"key", "setting", "usage", "keyUsage", "decide"}
Refused == {"globalLimitExceeded", "keyLimitExceeded"}
Pc == Running \cup Refused \cup {"new", "unauthorized", "admitted", "internalError"}

CallRow == [pc : Pc, key : Key, month : Month, keyLimit : LimitOrNone,
            limit : LimitOrNone, used : Nat, keyUsed : Nat]

\* Rows and calls keep the shape of the tables and of what a call has read.
TypeOK ==
  /\ month \in Month
  /\ key \in [Key -> KeyRow]
  /\ setting \in SettingRow
  /\ usage \in [Month -> Nat]
  /\ keyUsage \in [Key \X Month -> Nat]
  /\ lastUsed \in [Key -> Month \cup {None}]
  /\ holder \in [Lock -> Call \cup {None}]
  /\ call \in [Call -> CallRow]

AdmittedIn(m) == {c \in Call : call[c].pc = "admitted" /\ call[c].month = m}
AdmittedOf(k, m) == {c \in AdmittedIn(m) : call[c].key = k}

\* Both counters of a month say how many calls were let through: a rollback, a
\* refusal or a call that passed the end of the month leaves no trace in them,
\* and no count is lost although each call writes back a number it read.
UsageIsCounted ==
  \A m \in Month :
    /\ usage[m] = Cardinality(AdmittedIn(m))
    /\ \A k \in Key : keyUsage[<<k, m>>] = Cardinality(AdmittedOf(k, m))

\* At the moment a call is let through its key is live and neither limit, as
\* the administrators have set it by then, is used up.
AdmittedWithinLimits ==
  [][\A c \in Call :
       call[c].pc # "admitted" /\ call'[c].pc = "admitted" =>
         LET k == call[c].key
             m == call[c].month
         IN  /\ key[k].status = "live"
             /\ setting.limit # None => usage[m] < setting.limit
             /\ key[k].limit # None => keyUsage[<<k, m>>] < key[k].limit]_vars

\* A call is told that a limit is exceeded only if it is at that moment: the
\* limit may just have been raised, or the call before it rolled back.
RefusedAtLimit ==
  [][\A c \in Call :
       LET k == call[c].key
           m == call[c].month
       IN  /\ call[c].pc # "globalLimitExceeded" /\ call'[c].pc = "globalLimitExceeded" =>
                setting.limit # None /\ usage[m] >= setting.limit
           /\ call[c].pc # "keyLimitExceeded" /\ call'[c].pc = "keyLimitExceeded" =>
                key[k].limit # None /\ keyUsage[<<k, m>>] >= key[k].limit]_vars

\* A call's answer, once it has one.
AnswerOf(c) ==
  IF call[c].pc \in Running \cup {"new"} THEN [is |-> "none", key |-> None, month |-> None]
  ELSE [is |-> call[c].pc, key |-> call[c].key, month |-> call[c].month]

answers == [c \in Call |-> AnswerOf(c)]

\* Every call is answered at one instant, by what is in force then and by how many
\* calls were let through before it (QuotaLedger): the statements in between, the
\* locks and the counters cannot be told from the answers. A call that is over both
\* limits hears of the tenant's.
Quota == INSTANCE QuotaLedger WITH answer <- answers
QuotaSpec == Quota!LedgerSpec

\* The order of the locks lets every call that began finish.
EveryCallAnswered == \A c \in Call : call[c].pc = "key" ~> call[c].pc \notin Running
=============================================================================
