------------------------------ MODULE QuotaLedger ------------------------------
(***************************************************************************)
(* What the quota of the reservation API promises, whatever the            *)
(* interleaving of calls and administrators: a call is answered at one     *)
(* instant, by the key and the limits in force at that instant, and what   *)
(* its limits are compared with is the number of calls that were let       *)
(* through before it.  There are no counters here and no locks;            *)
(* ReservationUsage.tla implements this with both.                         *)
(***************************************************************************)
EXTENDS Integers, FiniteSets

CONSTANTS Call, Key, LimitOrNone, MaxMonth, None

VARIABLES month, key, setting, answer

ledger == <<month, key, setting, answer>>

\* A call that has no answer yet.
Unanswered == [is |-> "none", key |-> None, month |-> None]

LedgerInit ==
  /\ month = 0
  /\ key = [k \in Key |-> [status |-> "absent", limit |-> None, revision |-> 1]]
  /\ setting = [limit |-> None, revision |-> 1]
  /\ answer = [c \in Call |-> Unanswered]

\* The calls that were let through in month m, and those of them made with key k.
Through(m) == {c \in Call : answer[c].is = "admitted" /\ answer[c].month = m}
ThroughWith(k, m) == {c \in Through(m) : answer[c].key = k}

UsedUp(limit, calls) == limit # None /\ Cardinality(calls) >= limit

Answer(c, k, m, is) ==
  /\ answer[c] = Unanswered
  /\ answer' = [answer EXCEPT ![c] = [is |-> is, key |-> k, month |-> m]]
  /\ UNCHANGED <<month, key, setting>>

\* A call counts for a month that has begun, not always for the present one.
LetThrough(c, k, m) ==
  /\ key[k].status = "live" /\ m <= month
  /\ ~UsedUp(setting.limit, Through(m))
  /\ ~UsedUp(key[k].limit, ThroughWith(k, m))
  /\ Answer(c, k, m, "admitted")

\* A caller hears of its key's limit only where the tenant's leaves room.
Refuse(c, k, m) ==
  /\ key[k].status = "live" /\ m <= month
  /\ \/ /\ UsedUp(setting.limit, Through(m))
        /\ Answer(c, k, m, "globalLimitExceeded")
     \/ /\ ~UsedUp(setting.limit, Through(m)) /\ UsedUp(key[k].limit, ThroughWith(k, m))
        /\ Answer(c, k, m, "keyLimitExceeded")

TurnAway(c, k, m) ==
  /\ key[k].status # "live" /\ m <= month
  /\ Answer(c, k, m, "unauthorized")

Fail(c, k, m) == m <= month /\ Answer(c, k, m, "internalError")

\* A key is born with revision 1, keeps what it is called by, and never comes back to life.
EditKey(k) ==
  /\ \E limit \in LimitOrNone :
       \/ /\ key[k].status = "absent"
          /\ key' = [key EXCEPT ![k] = [status |-> "live", limit |-> limit, revision |-> 1]]
       \/ /\ key[k].status = "live"
          /\ key' = [key EXCEPT ![k] = [status |-> "live", limit |-> limit, revision |-> @.revision + 1]]
       \/ /\ key[k].status = "live"
          /\ key' = [key EXCEPT ![k] = [status |-> "revoked", limit |-> @.limit, revision |-> @.revision + 1]]
  /\ UNCHANGED <<month, setting, answer>>

EditSetting ==
  /\ \E limit \in LimitOrNone : setting' = [limit |-> limit, revision |-> setting.revision + 1]
  /\ UNCHANGED <<month, key, answer>>

MonthEnds == month < MaxMonth /\ month' = month + 1 /\ UNCHANGED <<key, setting, answer>>

LedgerNext ==
  \/ MonthEnds \/ EditSetting
  \/ \E k \in Key : EditKey(k)
  \/ \E c \in Call, k \in Key, m \in 0..MaxMonth :
       LetThrough(c, k, m) \/ Refuse(c, k, m) \/ TurnAway(c, k, m) \/ Fail(c, k, m)

LedgerSpec == LedgerInit /\ [][LedgerNext]_ledger
=============================================================================
