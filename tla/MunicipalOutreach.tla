--------------------------- MODULE MunicipalOutreach ---------------------------
(***************************************************************************)
(* The telephone rounds of a municipality (lib/server/zaad/municipal):     *)
(* the cron request that applies provider events, sends due calls and      *)
(* settles deadlines (scheduler.ts, receipts.ts), the answer receipts, the *)
(* staff's support cases, queueing and revising a workflow (service.ts).   *)
(*                                                                         *)
(* A worker is one cron request; two of them overlap when one is slow.     *)
(* Every statement or transaction on the database is a step: SERIALIZABLE  *)
(* transactions are atomic, a READ COMMITTED one that reads a row and then *)
(* writes it is two steps.  The reads of one latestSendInput are one step. *)
(* Time is counted in minutes, the resolution of nextDueSlot.              *)
(***************************************************************************)
EXTENDS Integers, FiniteSets, Sequences

CONSTANTS
  Target,        \* target snapshots of one run
  Worker,        \* cron requests that may overlap
  Delivery,      \* deliveries of answer receipts by the call flow
  ReceiptOf,     \* [Delivery -> receipt ids]
  Answer,        \* answers the receipts may bring, a set of answer classes
  Event,         \* dialer statuses the provider may report, a set of call states
  Window,        \* minutes inside every availability window
  DueAt,         \* workflow.dueAt, from which on targets are settled
  Deadline,      \* earliest of DueAt and the evidence's deadlines, the end of calling
  Horizon,       \* minutes nextDueSlot looks ahead
  RetryInterval, \* settings.retryIntervalMinutes
  MaxRetries,    \* settings.maxRetries
  Lease,         \* minutes a claim lasts
  MaxTime,       \* bound on the clock
  MaxCrashes,    \* bound on cron requests that are killed
  MaxRevisions,  \* bound on revisions of the workflow
  StaffStatus,   \* case states the staff makes use of
  None

\* What a receipt makes of a call that was answered.  Two classes decide nothing: an answer is
\* "unclear" if the caller acknowledged it but the identity, the recognition or a question is not
\* settled, and "unacknowledged" if the caller did not.
AnswerClass == {"confirmed", "planned", "concern", "unclear", "unacknowledged"}
NeedsStaff == {"concern", "unclear", "unacknowledged"}
AckState(class) == IF class = "unacknowledged" THEN "UNCONFIRMED" ELSE "CONFIRMED"
Unreached == {"NO_ANSWER", "BUSY", "REJECTED", "FAILED"}
CallState == {"QUEUED", "UNKNOWN", "ANSWERED"} \cup Unreached
JobState == {"PENDING", "CLAIMED", "SENT", "UNKNOWN", "BLOCKED", "CANCELLED"}
OutboxState == {"SENDING", "ACCEPTED", "UNKNOWN"}
InboxState == {"RECEIVED", "APPLIED", "QUARANTINED"}
CaseState == {"OPEN", "IN_PROGRESS", "HANDOFF_PENDING", "HANDOFF_RECEIVED", "COMPLETED"}
Reason == {"RECHECK_FAILED", "SEND_RESULT_UNKNOWN", "RETRY_LIMIT_REACHED",
           "ANSWER", "DEADLINE_REACHED"}

\* One attempt more than the code should ever make, so that it shows.
AttemptNo == 1..(MaxRetries + 2)
Attempt == Target \X AttemptNo
\* A job is unique by target, attempt number and due slot.
Job == Target \X AttemptNo \X (0..MaxTime)
TargetOf(j) == j[1]
AttemptOf(j) == <<j[1], j[2]>>
DueSlot(j) == j[3]

JobRow == [state : JobState, owner : Worker \cup {None}, until : Nat]
AttemptRow == [call : CallState, engaged : BOOLEAN]
CaseRow == [status : CaseState, reasons : SUBSET Reason]
Response == [receipt : {ReceiptOf[d] : d \in Delivery}, class : AnswerClass]

ASSUME EventAssumption == Event \subseteq CallState \ {"QUEUED", "UNKNOWN"}
ASSUME DeliveryAssumption ==
  /\ DOMAIN ReceiptOf = Delivery
  /\ Answer \subseteq AnswerClass
ASSUME TimeAssumption ==
  /\ {DueAt, Deadline, Horizon, RetryInterval, MaxRetries, Lease, MaxTime, MaxCrashes,
      MaxRevisions} \subseteq Nat
  /\ Deadline <= DueAt
  /\ Window \subseteq 0..MaxTime
ASSUME NoneAssumption ==
  /\ None \notin JobRow \cup AttemptRow \cup CaseRow
  /\ None \notin Job \cup Attempt \cup Worker \cup OutboxState \cup InboxState
ASSUME StaffAssumption == StaffStatus \subseteq CaseState

-----------------------------------------------------------------------------
VARIABLES
  clock,
  run,       \* state of the run, "PREVIEW" or "QUEUED"
  revised,   \* later revisions of the workflow
  job,       \* municipal_schedule_jobs
  outbox,    \* municipal_outbox, by job: state or None
  attempt,   \* municipal_call_attempts
  state,     \* state of the target snapshots
  cases,     \* municipal_support_cases, by target
  inbox,     \* municipal_provider_inbox, by attempt and status
  responses, \* municipal_responses of an attempt, oldest first
  wk,        \* where each cron request is and what it has read
  delivery,  \* where each receipt delivery is, its attempt and its answer
  dialled,   \* external: calls the provider placed for an attempt
  crashes

flow == <<run, revised>>
sending == <<job, outbox, attempt>>
outcome == <<state, cases>>
vars == <<clock, run, revised, job, outbox, attempt, state, cases, inbox,
          responses, wk, delivery, dialled, crashes>>

\* A cron request that has not read anything yet applies events first.
Fresh == [pc |-> "inbox", now |-> 0, todo |-> {}, posted |-> {}, job |-> None, seen |-> None]

Init ==
  /\ clock = 0
  /\ run = "PREVIEW" /\ revised = 0
  /\ job = [j \in Job |-> None]
  /\ outbox = [j \in Job |-> None]
  /\ attempt = [a \in Attempt |-> None]
  /\ state = [t \in Target |-> "PENDING"]
  /\ cases = [t \in Target |-> None]
  /\ inbox = [e \in Attempt \X Event |-> None]
  /\ responses = [a \in Attempt |-> <<>>]
  /\ wk = [w \in Worker |-> Fresh]
  /\ delivery = [d \in Delivery |-> [pc |-> "idle", attempt |-> None, answer |-> "none"]]
  /\ dialled = [a \in Attempt |-> 0]
  /\ crashes = 0

-----------------------------------------------------------------------------
(* Jobs, cases and due slots.                                              *)

JobIn(j, s) == job[j] # None /\ job[j].state = s
Put(j, s) == [job EXCEPT ![j] = [job[j] EXCEPT !.state = s]]

Unclaimed == [state |-> "PENDING", owner |-> None, until |-> 0]

\* job with the pending jobs of the targets T cancelled.
Cancel(T) ==
  [j \in Job |-> IF TargetOf(j) \in T /\ JobIn(j, "PENDING")
                   THEN [job[j] EXCEPT !.state = "CANCELLED"] ELSE job[j]]

NextDueSlot(after) ==
  LET open == {s \in Window : after <= s /\ s < Deadline /\ s < after + Horizon}
  IN  IF open = {} THEN None ELSE CHOOSE s \in open : \A r \in open : s <= r

\* A case as ensureMunicipalCase leaves it, given the row it read.
Reasoned(case, rs) ==
  IF case = None THEN [status |-> "OPEN", reasons |-> rs]
  ELSE IF case.status = "COMPLETED" THEN case
  ELSE [case EXCEPT !.reasons = @ \cup rs]

EnsureCase(t, rs) == [cases EXCEPT ![t] = Reasoned(@, rs)]

\* The calls latestSendInput lets through.
Sendable(t) ==
  /\ revised = 0
  /\ cases[t] = None
  /\ state[t] # "CONFIRMED"
  /\ clock < Deadline
  /\ clock \in Window

-----------------------------------------------------------------------------
(* Staff: queueing the confirmed preview, revising, working on cases.      *)

QueueWorkflowRun ==
  LET slot == NextDueSlot(clock)
  IN  /\ run = "PREVIEW" /\ revised = 0
      /\ slot # None
      /\ run' = "QUEUED"
      /\ job' = [j \in Job |-> IF j[2] = 1 /\ DueSlot(j) = slot THEN Unclaimed ELSE job[j]]
      /\ UNCHANGED <<clock, revised, outbox, attempt, state, cases, inbox, responses,
                     wk, delivery, dialled, crashes>>

SaveWorkflow ==
  /\ revised < MaxRevisions
  /\ revised' = revised + 1
  /\ job' = Cancel(Target)
  /\ UNCHANGED <<clock, run, outbox, attempt, state, cases, inbox, responses,
                 wk, delivery, dialled, crashes>>

CaseTransitions ==
  [OPEN |-> {"OPEN", "IN_PROGRESS"},
   IN_PROGRESS |-> {"IN_PROGRESS", "HANDOFF_PENDING", "COMPLETED"},
   HANDOFF_PENDING |-> {"HANDOFF_PENDING", "HANDOFF_RECEIVED"},
   HANDOFF_RECEIVED |-> {"HANDOFF_RECEIVED", "IN_PROGRESS", "COMPLETED"},
   COMPLETED |-> {"COMPLETED"}]

\* Verifying the business fact or completing the case stops the round.
UpdateMunicipalCase(t, to, verified) ==
  /\ cases[t] # None
  /\ to \in CaseTransitions[cases[t].status]
  /\ cases' = [cases EXCEPT ![t].status = to]
  /\ job' = IF to = "COMPLETED" \/ verified THEN Cancel({t}) ELSE job
  /\ UNCHANGED <<clock, flow, outbox, attempt, state, inbox, responses,
                 wk, delivery, dialled, crashes>>

-----------------------------------------------------------------------------
(* Provider events, and what an answer leads to.                           *)

\* The webhook stores an event of a call that was placed; a repeat is dropped.
AcceptProviderEvent(a, e) ==
  /\ dialled[a] > 0
  /\ inbox[<<a, e>>] = None
  /\ inbox' = [inbox EXCEPT ![<<a, e>>] = "RECEIVED"]
  /\ UNCHANGED <<clock, flow, sending, outcome, responses, wk, delivery, dialled, crashes>>

\* Mutant of NextCallState: the last event wins.
LastCallState(current, e) == e

NextCallState(current, e) ==
  IF e = "ANSWERED" THEN e
  ELSE IF current \in {"QUEUED", "UNKNOWN"} THEN e ELSE current

Latest(log) == log[Len(log)]

\* The class of the latest response, once the call is known to be answered.
Evidence(call, log) ==
  IF call = "ANSWERED" /\ log # <<>> THEN Latest(log).class ELSE "none"

\* Mutant of ApplyOutcome: a planned submission leaves the target as it was.
ApplyConfirmation(t, evidence) ==
  /\ cases' = IF evidence \in NeedsStaff THEN EnsureCase(t, {"ANSWER"}) ELSE cases
  /\ state' = IF evidence = "confirmed" THEN [state EXCEPT ![t] = "CONFIRMED"] ELSE state

\* applyMunicipalAnswerOutcome; what becomes of the jobs is up to the caller.
ApplyOutcome(t, evidence) ==
  /\ cases' = IF evidence \in NeedsStaff THEN EnsureCase(t, {"ANSWER"}) ELSE cases
  /\ state' = CASE evidence = "confirmed" -> [state EXCEPT ![t] = "CONFIRMED"]
                [] evidence = "planned" -> [state EXCEPT ![t] = "WAITING_FOR_DEADLINE"]
                [] OTHER -> state

\* The attempt's ackState, which the latest receipt has set whatever else it left open.
Acknowledged(a) == responses[a] # <<>> /\ AckState(Latest(responses[a]).class) = "CONFIRMED"

\* Mutant of MayRetry: one retry more than the setting.
MayRetryOnceMore(n) == n <= MaxRetries + 1

MayRetry(n) == n <= MaxRetries

\* Mutant of ScheduleRetry: where no retry is left, the deadline is waited for.
ScheduleRetryOrWait(a, call) ==
  LET t == a[1]
      slot == IF MayRetry(a[2]) THEN NextDueSlot(clock + RetryInterval) ELSE None
      next == <<t, a[2] + 1, slot>>
  IN  IF Acknowledged(a) \/ cases[t] # None \/ call \notin Unreached \/ slot = None
        THEN UNCHANGED <<job, cases>>
      ELSE /\ job' = IF job[next] = None THEN [job EXCEPT ![next] = Unclaimed] ELSE job
           /\ UNCHANGED cases

\* scheduleMunicipalRetry of attempt a whose call state becomes call.
ScheduleRetry(a, call) ==
  LET t == a[1]
      slot == IF MayRetry(a[2]) THEN NextDueSlot(clock + RetryInterval) ELSE None
      next == <<t, a[2] + 1, slot>>
  IN  IF Acknowledged(a) \/ cases[t] # None \/ call \notin Unreached
        THEN UNCHANGED <<job, cases>>
      ELSE IF slot = None
        THEN cases' = EnsureCase(t, {"RETRY_LIMIT_REACHED"}) /\ UNCHANGED job
      ELSE /\ job' = IF job[next] = None THEN [job EXCEPT ![next] = Unclaimed] ELSE job
           /\ UNCHANGED cases

\* processMunicipalInbox: one event, one SERIALIZABLE transaction.
ApplyEvent(w, a, e) ==
  LET call == NextCallState(attempt[a].call, e)
  IN  /\ wk[w].pc = "inbox"
      /\ inbox[<<a, e>>] = "RECEIVED"
      /\ IF ~attempt[a].engaged
           THEN /\ inbox' = [inbox EXCEPT ![<<a, e>>] = "QUARANTINED"]
                /\ UNCHANGED <<attempt, job, outcome>>
           ELSE /\ inbox' = [inbox EXCEPT ![<<a, e>>] = "APPLIED"]
                /\ attempt' = [attempt EXCEPT ![a].call = call]
                /\ IF call = "ANSWERED"
                     THEN job' = Cancel({a[1]}) /\ ApplyOutcome(a[1], Evidence(call, responses[a]))
                     ELSE ScheduleRetry(a, call) /\ UNCHANGED state
      /\ UNCHANGED <<clock, flow, outbox, responses, wk, delivery, dialled, crashes>>


-----------------------------------------------------------------------------
(* Answer receipts of the call flow.                                       *)

\* A capability is issued for a known engagement only.  The earlier receipts
\* are read before the transaction.
CheckReceipt(d, a) ==
  /\ delivery[d].pc = "idle"
  /\ attempt[a] # None /\ attempt[a].engaged
  /\ \E answer \in Answer :
       LET log == responses[a]
           same == {i \in DOMAIN log : log[i].receipt = ReceiptOf[d]}
           verdict == IF log = <<>> THEN "store"
                      ELSE IF same = {} THEN "review"
                      ELSE IF \E i \in same : log[i].class = answer THEN "duplicate"
                      ELSE "conflict"
       IN delivery' = [delivery EXCEPT ![d] = [pc |-> verdict, attempt |-> a, answer |-> answer]]
  /\ UNCHANGED <<clock, flow, sending, outcome, inbox, responses, wk, dialled, crashes>>

\* The unique index refuses a second response with the same receipt.
StoreReceipt(d) ==
  LET a == delivery[d].attempt
      answer == delivery[d].answer
      same == {i \in DOMAIN responses[a] : responses[a][i].receipt = ReceiptOf[d]}
      log == Append(responses[a], [receipt |-> ReceiptOf[d], class |-> answer])
      evidence == Evidence(attempt[a].call, log)
  IN  /\ delivery[d].pc = "store"
      /\ IF same = {}
           THEN /\ delivery' = [delivery EXCEPT ![d].pc = "stored"]
                /\ responses' = [responses EXCEPT ![a] = log]
                /\ job' = IF evidence = "none" THEN job ELSE Cancel({a[1]})
                /\ ApplyOutcome(a[1], evidence)
           ELSE /\ delivery' = [delivery EXCEPT ![d].pc =
                     IF \E i \in same : responses[a][i].class = answer
                       THEN "duplicate" ELSE "conflict"]
                /\ UNCHANGED <<responses, job, outcome>>
      /\ UNCHANGED <<clock, flow, outbox, attempt, inbox, wk, dialled, crashes>>

-----------------------------------------------------------------------------
(* The cron request: expired claims, due calls, deadlines.                 *)

Become(w, row) == wk' = [wk EXCEPT ![w] = row]
Go(w, pc) == Become(w, [wk[w] EXCEPT !.pc = pc])

\* Every event the request found is applied before the tick starts.
ReadExpired(w) ==
  LET expired == {j \in Job : JobIn(j, "CLAIMED") /\ job[j].until < clock}
  IN  /\ wk[w].pc = "inbox"
      /\ \A e \in DOMAIN inbox : inbox[e] # "RECEIVED"
      /\ Become(w, [Fresh EXCEPT !.pc = "expire", !.now = clock, !.todo = expired,
                                  !.posted = {j \in expired : outbox[j] # None}])
      /\ UNCHANGED <<clock, flow, sending, outcome, inbox, responses, delivery, dialled, crashes>>

\* Mutant of ReleaseExpired: only claims without an outbox row are looked at.
ReleaseUnposted(w, j) ==
  /\ wk[w].pc = "expire" /\ j \in wk[w].todo
  /\ job' = IF JobIn(j, "CLAIMED") /\ job[j].until < wk[w].now /\ j \notin wk[w].posted
              THEN [job EXCEPT ![j] = Unclaimed] ELSE job
  /\ Become(w, [wk[w] EXCEPT !.todo = @ \ {j}])
  /\ UNCHANGED <<clock, flow, outbox, attempt, outcome, inbox, responses, delivery, dialled, crashes>>

\* What the request read decides; only a release checks the claim again.
ReleaseExpired(w, j) ==
  /\ wk[w].pc = "expire" /\ j \in wk[w].todo
  /\ IF j \in wk[w].posted
       THEN job' = Put(j, "UNKNOWN") /\ outbox' = [outbox EXCEPT ![j] = "UNKNOWN"]
       ELSE /\ job' = IF JobIn(j, "CLAIMED") /\ job[j].until < wk[w].now
                        THEN [job EXCEPT ![j] = Unclaimed] ELSE job
            /\ UNCHANGED outbox
  /\ Become(w, [wk[w] EXCEPT !.todo = @ \ {j}])
  /\ UNCHANGED <<clock, flow, attempt, outcome, inbox, responses, delivery, dialled, crashes>>

ReadDue(w) ==
  /\ wk[w].pc = "expire" /\ wk[w].todo = {}
  /\ Become(w, [wk[w] EXCEPT !.pc = "claim", !.posted = {},
                   !.todo = {j \in Job : JobIn(j, "PENDING") /\ DueSlot(j) <= wk[w].now}])
  /\ UNCHANGED <<clock, flow, sending, outcome, inbox, responses, delivery, dialled, crashes>>

\* The earliest candidate is claimed if it is still pending, and else skipped.
Claim(w, j) ==
  /\ wk[w].pc = "claim" /\ j \in wk[w].todo
  /\ \A k \in wk[w].todo : DueSlot(j) <= DueSlot(k)
  /\ IF JobIn(j, "PENDING")
       THEN /\ job' = [job EXCEPT ![j] = [state |-> "CLAIMED", owner |-> w,
                                           until |-> wk[w].now + Lease]]
            /\ Become(w, [wk[w] EXCEPT !.pc = "recheck", !.job = j, !.todo = @ \ {j}])
       ELSE Become(w, [wk[w] EXCEPT !.todo = @ \ {j}]) /\ UNCHANGED job
  /\ UNCHANGED <<clock, flow, outbox, attempt, outcome, inbox, responses, delivery,
                 dialled, crashes>>

\* No candidate is left, or the first ones took ten seconds.
StopClaiming(w) ==
  /\ wk[w].pc = "claim"
  /\ wk[w].todo = {} \/ wk[w].job # None
  /\ Become(w, [Fresh EXCEPT !.pc = "settle"])
  /\ UNCHANGED <<clock, flow, sending, outcome, inbox, responses, delivery, dialled, crashes>>

Recheck(w) ==
  /\ wk[w].pc = "recheck"
  /\ Sendable(TargetOf(wk[w].job))
  /\ Go(w, "prepare")
  /\ UNCHANGED <<clock, flow, sending, outcome, inbox, responses, delivery, dialled, crashes>>

\* Permissions, readiness, evidence or the database may refuse any call.
Refuse(w) ==
  LET j == wk[w].job
  IN  /\ wk[w].pc = "recheck"
      /\ job' = IF job[j].owner = w THEN Put(j, "BLOCKED") ELSE job
      /\ Go(w, "block")
      /\ UNCHANGED <<clock, flow, outbox, attempt, outcome, inbox, responses, delivery,
                     dialled, crashes>>

\* Mutant of Prepare: neither table has its unique index.
PrepareAgain(w) ==
  LET j == wk[w].job
  IN  /\ wk[w].pc = "prepare"
      /\ attempt' = [attempt EXCEPT ![AttemptOf(j)] = [call |-> "QUEUED", engaged |-> FALSE]]
      /\ outbox' = [outbox EXCEPT ![j] = "SENDING"]
      /\ Go(w, "recheckAgain")
      /\ UNCHANGED <<clock, flow, job, outcome, inbox, responses, delivery, dialled, crashes>>

\* The attempt and the outbox row are unique; a violation ends the request.
Prepare(w) ==
  LET j == wk[w].job
      a == AttemptOf(j)
  IN  /\ wk[w].pc = "prepare"
      /\ IF attempt[a] = None /\ outbox[j] = None
           THEN /\ attempt' = [attempt EXCEPT ![a] = [call |-> "QUEUED", engaged |-> FALSE]]
                /\ outbox' = [outbox EXCEPT ![j] = "SENDING"]
                /\ Go(w, "recheckAgain")
           ELSE Become(w, Fresh) /\ UNCHANGED <<attempt, outbox>>
      /\ UNCHANGED <<clock, flow, job, outcome, inbox, responses, delivery, dialled, crashes>>

\* The second recheck lets the call through, or ends up in the catch block.
RecheckAgain(w) ==
  /\ wk[w].pc = "recheckAgain"
  /\ \/ Sendable(TargetOf(wk[w].job)) /\ Go(w, "send")
     \/ Go(w, "catch")
  /\ UNCHANGED <<clock, flow, sending, outcome, inbox, responses, delivery, dialled, crashes>>

\* The provider accepts the call; or it gives no clear answer or none at all,
\* whether it places the call or not.
Send(w) ==
  LET a == AttemptOf(wk[w].job)
  IN  /\ wk[w].pc = "send"
      /\ \E reply \in {"accepted", "unclear", "catch"}, placed \in BOOLEAN :
           /\ reply = "accepted" => placed
           /\ dialled' = [dialled EXCEPT ![a] = IF placed THEN @ + 1 ELSE @]
           /\ Go(w, reply)
      /\ UNCHANGED <<clock, flow, sending, outcome, inbox, responses, delivery, crashes>>

\* The reply is recorded whatever happened to the claim meanwhile; an unclear
\* one may name an engagement or not.  When the transaction fails, catch.
RecordReply(w) ==
  LET j == wk[w].job
      a == AttemptOf(j)
      accepted == wk[w].pc = "accepted"
  IN  /\ wk[w].pc \in {"accepted", "unclear"}
      /\ \/ /\ outbox' = [outbox EXCEPT ![j] = IF accepted THEN "ACCEPTED" ELSE "UNKNOWN"]
            /\ \E known \in BOOLEAN :
                 /\ accepted => known
                 /\ known => dialled[a] > 0
                 /\ attempt' = [attempt EXCEPT ![a] =
                      [call |-> IF accepted THEN "QUEUED" ELSE "UNKNOWN", engaged |-> known]]
            /\ job' = Put(j, IF accepted THEN "SENT" ELSE "UNKNOWN")
            /\ Go(w, "claim")
         \/ Go(w, "catch") /\ UNCHANGED sending
      /\ UNCHANGED <<clock, flow, outcome, inbox, responses, delivery, dialled, crashes>>

\* ensureMunicipalCase reads the case ...
ReadCase(w) ==
  /\ wk[w].pc \in {"block", "catch"}
  /\ Become(w, [wk[w] EXCEPT !.seen = cases[TargetOf(wk[w].job)],
                   !.pc = IF @ = "block" THEN "saveBlocked" ELSE "saveUnknown"])
  /\ UNCHANGED <<clock, flow, sending, outcome, inbox, responses, delivery, dialled, crashes>>

\* ... and then writes it: a new case, which another one made meanwhile
\* forbids, or the reasons it read and the new ones.
WriteCase(t, seen, rs) ==
  cases' = [cases EXCEPT ![t] =
              IF seen = None THEN Reasoned(None, rs)
              ELSE [@ EXCEPT !.reasons = Reasoned(seen, rs).reasons]]

SaveCase(w) ==
  LET j == wk[w].job
      t == TargetOf(j)
      seen == wk[w].seen
      unknown == wk[w].pc = "saveUnknown"
  IN  /\ wk[w].pc \in {"saveBlocked", "saveUnknown"}
      /\ IF seen = None /\ cases[t] # None
           THEN Become(w, Fresh) /\ UNCHANGED <<sending, cases>>
           ELSE /\ IF seen # None /\ seen.status = "COMPLETED"
                     THEN UNCHANGED cases
                     ELSE WriteCase(t, seen, IF unknown THEN {"SEND_RESULT_UNKNOWN"}
                                                        ELSE {"RECHECK_FAILED"})
                /\ IF unknown
                     THEN /\ outbox' = [outbox EXCEPT ![j] = "UNKNOWN"]
                          /\ attempt' = [attempt EXCEPT ![AttemptOf(j)].call = "UNKNOWN"]
                          /\ job' = Put(j, "UNKNOWN")
                     ELSE UNCHANGED sending
                /\ Become(w, [wk[w] EXCEPT !.pc = "claim", !.seen = None])
      /\ UNCHANGED <<clock, flow, state, inbox, responses, delivery, dialled, crashes>>

\* Mutant of Overdue: only targets nobody has answered for.
OverduePending(t) ==
  /\ run = "QUEUED" /\ clock >= DueAt
  /\ state[t] = "PENDING" /\ cases[t] = None

Overdue(t) ==
  /\ run = "QUEUED" /\ clock >= DueAt
  /\ state[t] # "CONFIRMED" /\ cases[t] = None

\* settleMunicipalDeadlines: one target, one SERIALIZABLE transaction.
SettleDeadline(w, t) ==
  /\ wk[w].pc = "settle"
  /\ Overdue(t)
  /\ cases' = EnsureCase(t, {"DEADLINE_REACHED"})
  /\ job' = Cancel({t})
  /\ UNCHANGED <<clock, flow, outbox, attempt, state, inbox, responses, wk, delivery,
                 dialled, crashes>>

EndRequest(w) ==
  /\ wk[w].pc = "settle"
  /\ \A t \in Target : ~Overdue(t)
  /\ Become(w, Fresh)
  /\ UNCHANGED <<clock, flow, sending, outcome, inbox, responses, delivery, dialled, crashes>>

\* The host kills the request anywhere.
Crash(w) ==
  /\ wk[w].pc # "inbox"
  /\ crashes < MaxCrashes
  /\ crashes' = crashes + 1
  /\ Become(w, Fresh)
  /\ UNCHANGED <<clock, flow, sending, outcome, inbox, responses, delivery, dialled>>

Tick ==
  /\ clock < MaxTime
  /\ clock' = clock + 1
  /\ UNCHANGED <<flow, sending, outcome, inbox, responses, wk, delivery, dialled, crashes>>

-----------------------------------------------------------------------------
CronStep(w) ==
  \/ \E a \in Attempt, e \in Event : ApplyEvent(w, a, e)
  \/ ReadExpired(w) \/ ReadDue(w) \/ StopClaiming(w)
  \/ \E j \in Job : ReleaseExpired(w, j) \/ Claim(w, j)
  \/ Recheck(w) \/ Refuse(w) \/ Prepare(w) \/ RecheckAgain(w) \/ Send(w)
  \/ RecordReply(w) \/ ReadCase(w) \/ SaveCase(w)
  \/ \E t \in Target : SettleDeadline(w, t)
  \/ EndRequest(w)

Next ==
  \/ QueueWorkflowRun \/ SaveWorkflow \/ Tick
  \/ \E t \in Target, to \in StaffStatus, v \in BOOLEAN : UpdateMunicipalCase(t, to, v)
  \/ \E a \in Attempt, e \in Event : AcceptProviderEvent(a, e)
  \/ \E d \in Delivery, a \in Attempt : CheckReceipt(d, a)
  \/ \E d \in Delivery : StoreReceipt(d)
  \/ \E w \in Worker : CronStep(w) \/ Crash(w)

Spec == Init /\ [][Next]_vars

\* The cron service keeps calling, the host keeps running what it does not
\* kill, and time passes.  Nothing is assumed of citizens, provider and staff.
Fairness == WF_vars(Tick) /\ \A w \in Worker : WF_vars(CronStep(w))
FairSpec == Spec /\ Fairness

-----------------------------------------------------------------------------
(* Properties.                                                             *)

Pc == {"inbox", "expire", "claim", "recheck", "prepare", "recheckAgain", "send", "accepted",
       "unclear", "catch", "block", "saveBlocked", "saveUnknown", "settle"}

\* Rows, workers and deliveries keep the shape the tables and handlers give them.
TypeOK ==
  /\ clock \in 0..MaxTime /\ run \in {"PREVIEW", "QUEUED"} /\ revised \in 0..MaxRevisions
  /\ job \in [Job -> JobRow \cup {None}]
  /\ outbox \in [Job -> OutboxState \cup {None}]
  /\ attempt \in [Attempt -> AttemptRow \cup {None}]
  /\ state \in [Target -> {"PENDING", "CONFIRMED", "WAITING_FOR_DEADLINE"}]
  /\ cases \in [Target -> CaseRow \cup {None}]
  /\ inbox \in [Attempt \X Event -> InboxState \cup {None}]
  /\ responses \in [Attempt -> Seq(Response)]
  /\ wk \in [Worker -> [pc : Pc, now : 0..MaxTime, todo : SUBSET Job, posted : SUBSET Job,
                        job : Job \cup {None}, seen : CaseRow \cup {None}]]
  /\ delivery \in [Delivery ->
       [pc : {"idle", "store", "stored", "duplicate", "review", "conflict"},
        attempt : Attempt \cup {None}, answer : AnswerClass \cup {"none"}]]
  /\ dialled \in [Attempt -> Nat] /\ crashes \in 0..MaxCrashes

\* A citizen's telephone rings once per attempt at most, and a call is on
\* record before it is placed: however requests overlap or die, a claim that
\* expires or a retry scheduled twice never sends the call again.
AtMostOneCallPerAttempt ==
  \A a \in Attempt :
    /\ dialled[a] <= 1
    /\ dialled[a] = 1 => \E j \in Job : AttemptOf(j) = a /\ outbox[j] # None

\* A retry is made only after the provider reported that the call before it
\* failed, and never beyond the setting's number of retries.
RetryFollowsFailedCall ==
  \A t \in Target, n \in AttemptNo :
    n > 1 /\ attempt[<<t, n>>] # None =>
      /\ n <= MaxRetries + 1
      /\ attempt[<<t, n - 1>>] # None
      /\ attempt[<<t, n - 1>>].call \in Unreached \cup {"ANSWERED"}

\* Event and receipt may come in either order: once both are there, the answer
\* has reached the staff or has settled the target.
OutcomeFollowsEvidence ==
  \A a \in Attempt :
    attempt[a] # None /\ attempt[a].call = "ANSWERED" /\ responses[a] # <<>> =>
      IF Latest(responses[a]).class \in NeedsStaff
        THEN cases[a[1]] # None
        ELSE state[a[1]] # "PENDING"

\* No late or reordered event, and no slow request, makes an answered call
\* unanswered again.
AnsweredIsFinal ==
  [][\A a \in Attempt :
       attempt[a] # None /\ attempt[a].call = "ANSWERED" => attempt'[a].call = "ANSWERED"]_vars

\* How far a call has come, as far as the tables and the provider know.
FateOf(a) ==
  IF attempt[a] = None THEN "none"
  ELSE IF attempt[a].call = "ANSWERED" THEN "answered"
  ELSE IF attempt[a].call \in Unreached THEN "failed"
  ELSE IF dialled[a] = 0 THEN "recorded" ELSE "placed"

fate == [a \in Attempt |-> FateOf(a)]
heard == [a \in Attempt |-> IF responses[a] = <<>> THEN "none" ELSE Latest(responses[a]).class]
staff == {t \in Target : cases[t] # None}

\* To the citizens a round is a sequence of calls, one open at a time, each of which rings at most
\* once, and every answer decides at one instant (CallRounds). A citizen who could not be reached
\* in the last call, and has not acknowledged it in a receipt, goes to the staff in the same step
\* in which that is learnt; one who has acknowledged it waits for the deadline (scheduler.ts:28).
Round == INSTANCE CallRounds
RoundSpec == Round!RoundSpec

\* Every target of a queued run is confirmed by telephone or ends up with the
\* staff, whichever requests crash and whatever the provider does.
EveryTargetSettled ==
  \A t \in Target : run = "QUEUED" ~> (state[t] = "CONFIRMED" \/ cases[t] # None)

\* A call whose sender died is found by a later request and marked UNKNOWN.
CrashedSendSurfaces ==
  \A j \in Job : outbox[j] = "SENDING" ~> outbox[j] # "SENDING"

\* receipts.ts:79 promises that a later receipt cannot overwrite an earlier one.
AnswerNotOverwritten == \A a \in Attempt : Len(responses[a]) <= 1

\* scheduler.ts:20 promises to preserve manual completion: no later observation
\* changes a case the staff has completed.
ManualCompletionPreserved ==
  [][\A t \in Target :
       cases[t] # None /\ cases[t].status = "COMPLETED" => cases'[t] = cases[t]]_vars
=============================================================================
