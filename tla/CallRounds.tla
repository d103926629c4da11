------------------------------- MODULE CallRounds -------------------------------
(***************************************************************************)
(* What a telephone round promises the citizens, whichever requests        *)
(* overlap, expire or die and in whichever order events and receipts       *)
(* arrive: a citizen's calls are made one after the other, the next one    *)
(* only once the one before is known to have failed or to have been        *)
(* answered, each rings at most once, and an answer decides about its      *)
(* citizen the moment that call and answer are both known.                 *)
(* MunicipalOutreach.tla implements this.                                  *)
(***************************************************************************)
EXTENDS Integers

CONSTANTS Target, AttemptNo, MaxRetries

Attempt == Target \X AttemptNo

VARIABLES
  fate,  \* of a call: none, recorded, placed, failed, answered
  heard, \* the last answer received for a call, or "none"
  state, \* of a target: PENDING, WAITING_FOR_DEADLINE, CONFIRMED
  staff  \* the targets that have reached the staff

round == <<fate, heard, state, staff>>

RoundInit ==
  /\ fate = [a \in Attempt |-> "none"]
  /\ heard = [a \in Attempt |-> "none"]
  /\ state = [t \in Target |-> "PENDING"]
  /\ staff = {}

Over == {"failed", "answered"}
Rung == Over \cup {"placed"}
Escalated(t) == staff' = staff \cup {t}

Record(t, n) ==
  /\ fate[<<t, n>>] = "none"
  /\ n > 1 => n <= MaxRetries + 1 /\ fate[<<t, n - 1>>] \in Over
  /\ fate' = [fate EXCEPT ![<<t, n>>] = "recorded"]
  /\ UNCHANGED <<heard, state, staff>>

Place(a) ==
  /\ fate[a] = "recorded"
  /\ fate' = [fate EXCEPT ![a] = "placed"]
  /\ UNCHANGED <<heard, state, staff>>

\* Whoever has acknowledged the call is not handed over because it is said to have failed: what
\* the answer decides waits for the call to connect, or for the deadline.  Anyone else goes to the
\* staff if this was the last call, or if no time is left for the next one.
Fail(a) ==
  /\ fate[a] = "placed"
  /\ fate' = [fate EXCEPT ![a] = "failed"]
  /\ IF heard[a] \notin {"none", "unacknowledged"} THEN UNCHANGED staff
     ELSE IF a[2] > MaxRetries THEN Escalated(a[1])
     ELSE Escalated(a[1]) \/ UNCHANGED staff
  /\ UNCHANGED <<heard, state>>

\* What an answer decides about the target.
Decides(t, answer) ==
  /\ IF answer \in {"concern", "unclear", "unacknowledged"}
       THEN Escalated(t) ELSE UNCHANGED staff
  /\ state' = CASE answer = "confirmed" -> [state EXCEPT ![t] = "CONFIRMED"]
                [] answer = "planned" -> [state EXCEPT ![t] = "WAITING_FOR_DEADLINE"]
                [] OTHER -> state

\* That a call was answered may be reported late, and again: what it decided is decided again.
Connect(a) ==
  /\ fate[a] \in Rung
  /\ fate' = [fate EXCEPT ![a] = "answered"]
  /\ Decides(a[1], heard[a])
  /\ UNCHANGED heard

Hear(a, answer) ==
  /\ fate[a] \in Rung
  /\ heard' = [heard EXCEPT ![a] = answer]
  /\ Decides(a[1], IF fate[a] = "answered" THEN answer ELSE "none")
  /\ UNCHANGED fate

\* A deadline, a refused call or an unclear sending.
Escalate(t) == Escalated(t) /\ UNCHANGED <<fate, heard, state>>

RoundNext ==
  \/ \E t \in Target, n \in AttemptNo : Record(t, n)
  \/ \E a \in Attempt : Place(a) \/ Fail(a) \/ Connect(a)
  \/ \E a \in Attempt,
        answer \in {"confirmed", "planned", "concern", "unclear", "unacknowledged"} : Hear(a, answer)
  \/ \E t \in Target : Escalate(t)

RoundSpec == RoundInit /\ [][RoundNext]_round

\* A citizen's telephone rings for one call only once every earlier one is over: no two calls to
\* one citizen are under way at a time, and none is left out.
CallsInTurn ==
  \A t \in Target : \A m, n \in AttemptNo :
    m < n /\ fate[<<t, n>>] # "none" => fate[<<t, m>>] \in Over
=============================================================================
