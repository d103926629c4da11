------------------------ MODULE MunicipalOutreachProofs ------------------------
(***************************************************************************)
(* Proofs about MunicipalOutreach for any sets of targets, overlapping     *)
(* cron requests, receipts and events, and any deadline, window and lease. *)
(***************************************************************************)
EXTENDS MunicipalOutreach, TLAPS

-----------------------------------------------------------------------------
(* The inductive invariant: what a request holds at each of its steps.     *)

Sending == {"recheckAgain", "send"}
Prepared == Sending \cup {"accepted", "unclear", "catch", "saveUnknown"}
Handling == Prepared \cup {"recheck", "prepare", "block", "saveBlocked"}
Saving == {"saveBlocked", "saveUnknown"}

RequestRow == [pc : Pc, now : 0..MaxTime, todo : SUBSET Job, posted : SUBSET Job,
               job : Job \cup {None}, seen : CaseRow \cup {None}]

\* Rows are never deleted, so what a request has read still exists.
RequestOK(w) ==
  /\ \A j \in wk[w].todo : job[j] # None
  /\ wk[w].pc \in Handling => wk[w].job \in Job /\ job[wk[w].job] # None
  /\ wk[w].pc \in Prepared =>
       attempt[AttemptOf(wk[w].job)] # None /\ outbox[wk[w].job] # None
  /\ wk[w].pc \in Saving /\ wk[w].seen # None => cases[TargetOf(wk[w].job)] # None
InboxOK == \A a \in Attempt, e \in Event : inbox[<<a, e>>] # None => attempt[a] # None
DeliveryOK ==
  \A d \in Delivery :
    delivery[d].pc = "store" =>
      /\ delivery[d].attempt \in Attempt /\ attempt[delivery[d].attempt] # None
      /\ delivery[d].answer \in AnswerClass
RowsExist == (\A w \in Worker : RequestOK(w)) /\ InboxOK /\ DeliveryOK

\* The unique attempt number lets one request at a time near the provider.
OneSender ==
  \A w, v \in Worker :
    w # v /\ wk[w].pc \in Sending /\ wk[v].pc \in Sending =>
      AttemptOf(wk[w].job) # AttemptOf(wk[v].job)

\* Nobody has called for an attempt whose sender has not.
NotYetCalled ==
  \A w \in Worker : wk[w].pc \in Sending => dialled[AttemptOf(wk[w].job)] = 0

CallsRecorded == \A a \in Attempt : dialled[a] > 0 => attempt[a] # None

Inv ==
  /\ TypeOK /\ RowsExist /\ OneSender /\ NotYetCalled
  /\ CallsRecorded /\ AtMostOneCallPerAttempt

-----------------------------------------------------------------------------
\* Rows are made and changed, never deleted.
Grow ==
  /\ \A j \in Job : job[j] # None => job'[j] # None
  /\ \A j \in Job : outbox[j] # None => outbox'[j] # None
  /\ \A a \in Attempt : attempt[a] # None => attempt'[a] # None
  /\ \A t \in Target : cases[t] # None => cases'[t] # None

LEMMA AttemptOfJob == \A j \in Job : AttemptOf(j) \in Attempt /\ TargetOf(j) \in Target
  BY DEF Job, AttemptOf, Attempt, TargetOf

LEMMA InvInit == Init => Inv
  <1> SUFFICES ASSUME Init PROVE Inv
    OBVIOUS
  <1>1. TypeOK
    <2>1. responses \in [Attempt -> Seq(Response)] BY DEF Init
    <2>2. wk \in [Worker -> RequestRow]
      BY TimeAssumption DEF Init, Fresh, Pc, RequestRow
    <2>. QED BY <2>1, <2>2, TimeAssumption DEF Init, TypeOK, RequestRow
  <1>. QED
    BY <1>1 DEF Init, Inv, RowsExist, RequestOK, InboxOK, DeliveryOK, OneSender, NotYetCalled,
       CallsRecorded, AtMostOneCallPerAttempt, Fresh, Sending, Prepared, Handling, Saving

\* What grows keeps every request right that does not move itself.
LEMMA StillOK ==
  ASSUME Inv, Grow, NEW w \in Worker, wk'[w] = wk[w]
  PROVE  RequestOK(w)'
  BY AttemptOfJob DEF Inv, Grow, RowsExist, RequestOK, TypeOK, Prepared, Handling, Saving

LEMMA CallsStillRecorded ==
  ASSUME Inv, Grow, UNCHANGED dialled
  PROVE  (CallsRecorded /\ AtMostOneCallPerAttempt)'
  BY DEF Inv, Grow, CallsRecorded, AtMostOneCallPerAttempt

LEMMA InboxStillOK == Inv /\ Grow /\ UNCHANGED inbox => InboxOK'
  BY DEF Inv, Grow, RowsExist, InboxOK

LEMMA DeliveryStillOK == Inv /\ Grow /\ UNCHANGED delivery => DeliveryOK'
  BY DEF Inv, Grow, RowsExist, DeliveryOK

\* A step of staff, citizens or the provider, told by its effect on the tables.
LEMMA OutsideStep ==
  ASSUME Inv, Grow, UNCHANGED <<wk, dialled>>, TypeOK', InboxOK', DeliveryOK'
  PROVE  Inv'
  <1>1. RowsExist'
    BY StillOK DEF RowsExist
  <1>2. (OneSender /\ NotYetCalled)'
    BY DEF Inv, OneSender, NotYetCalled
  <1>. QED BY <1>1, <1>2, CallsStillRecorded DEF Inv

\* A step of one request that places no call and does not get near the provider.
LEMMA RequestStep ==
  ASSUME Inv, Grow, NEW w \in Worker, NEW new \in RequestRow, wk' = [wk EXCEPT ![w] = new],
         new.pc \in Sending => wk[w].pc \in Sending /\ new.job = wk[w].job,
         UNCHANGED <<dialled, delivery>>, TypeOK', InboxOK', RequestOK(w)'
  PROVE  Inv'
  <1>1. \A v \in Worker : v # w => wk'[v] = wk[v]
    BY DEF Inv, TypeOK
  <1>2. wk'[w] = new
    BY DEF Inv, TypeOK
  <1>3. RowsExist'
    BY <1>1, StillOK, DeliveryStillOK DEF RowsExist
  <1>4. (OneSender /\ NotYetCalled)'
    BY <1>1, <1>2 DEF Inv, OneSender, NotYetCalled
  <1>. QED BY <1>3, <1>4, CallsStillRecorded DEF Inv

-----------------------------------------------------------------------------
(* Types of what the actions write.                                        *)

LEMMA StateType ==
  ASSUME NEW row \in JobRow, NEW s \in JobState
  PROVE  [row EXCEPT !.state = s] \in JobRow
  BY DEF JobRow

LEMMA PutType ==
  ASSUME TypeOK, NEW j \in Job, job[j] # None, NEW s \in JobState
  PROVE  /\ Put(j, s) \in [Job -> JobRow \cup {None}]
         /\ \A k \in Job : job[k] # None => Put(j, s)[k] # None
  <1>1. [job[j] EXCEPT !.state = s] \in JobRow
    BY StateType DEF TypeOK
  <1>. QED BY <1>1, NoneAssumption DEF TypeOK, Put

LEMMA CancelType ==
  ASSUME TypeOK, NEW T
  PROVE  /\ Cancel(T) \in [Job -> JobRow \cup {None}]
         /\ \A k \in Job : job[k] # None => Cancel(T)[k] # None
  <1>1. ASSUME NEW k \in Job, JobIn(k, "PENDING")
        PROVE  [job[k] EXCEPT !.state = "CANCELLED"] \in JobRow
    BY <1>1, StateType DEF TypeOK, JobIn, JobState
  <1>. QED BY <1>1, NoneAssumption DEF TypeOK, Cancel

LEMMA UnclaimedType == Unclaimed \in JobRow /\ Unclaimed # None
  BY NoneAssumption DEF Unclaimed, JobRow, JobState

LEMMA ReasonedType ==
  ASSUME NEW c \in CaseRow \cup {None}, NEW rs \in SUBSET Reason
  PROVE  Reasoned(c, rs) \in CaseRow /\ Reasoned(c, rs) # None
  <1>1. Reasoned(c, rs) \in CaseRow
    BY DEF Reasoned, CaseRow, CaseState
  <1>. QED BY <1>1, NoneAssumption

LEMMA EnsureCaseType ==
  ASSUME TypeOK, NEW t \in Target, NEW rs \in SUBSET Reason
  PROVE  /\ EnsureCase(t, rs) \in [Target -> CaseRow \cup {None}]
         /\ \A u \in Target : cases[u] # None => EnsureCase(t, rs)[u] # None
  BY ReasonedType DEF TypeOK, EnsureCase

LEMMA CallType ==
  ASSUME TypeOK, NEW a \in Attempt, attempt[a] # None, NEW c \in CallState
  PROVE  /\ [attempt EXCEPT ![a].call = c] \in [Attempt -> AttemptRow \cup {None}]
         /\ \A b \in Attempt : attempt[b] # None => [attempt EXCEPT ![a].call = c][b] # None
  <1>0. attempt[a] \in AttemptRow
    BY DEF TypeOK
  <1>1. [attempt[a] EXCEPT !.call = c] \in AttemptRow
    BY <1>0 DEF AttemptRow
  <1>2. [attempt EXCEPT ![a].call = c] = [attempt EXCEPT ![a] = [attempt[a] EXCEPT !.call = c]]
    BY DEF TypeOK
  <1> DEFINE row == [attempt[a] EXCEPT !.call = c]
  <1> HIDE DEF row
  <1>3. row \in AttemptRow /\ row # None
    BY <1>1, NoneAssumption DEF row
  <1>4. /\ [attempt EXCEPT ![a] = row] \in [Attempt -> AttemptRow \cup {None}]
        /\ \A b \in Attempt : attempt[b] # None => [attempt EXCEPT ![a] = row][b] # None
    BY <1>3 DEF TypeOK
  <1>. QED BY <1>2, <1>4 DEF row

LEMMA FreshType == Fresh \in RequestRow
  BY TimeAssumption DEF Fresh, RequestRow, Pc

-----------------------------------------------------------------------------
(* The steps of staff, citizens, provider and time.                        *)

LEMMA QueueStep == Inv /\ QueueWorkflowRun => Inv'
  <1> SUFFICES ASSUME Inv, QueueWorkflowRun PROVE Inv'
    OBVIOUS
  <1>1. job' \in [Job -> JobRow \cup {None}] /\ \A k \in Job : job[k] # None => job'[k] # None
    BY UnclaimedType DEF QueueWorkflowRun, Inv, TypeOK
  <1>2. TypeOK' BY <1>1 DEF QueueWorkflowRun, Inv, TypeOK
  <1>3. Grow BY <1>1 DEF QueueWorkflowRun, Grow
  <1>. QED BY <1>2, <1>3, OutsideStep, InboxStillOK, DeliveryStillOK DEF QueueWorkflowRun

LEMMA SaveWorkflowStep == Inv /\ SaveWorkflow => Inv'
  <1> SUFFICES ASSUME Inv, SaveWorkflow PROVE Inv'
    OBVIOUS
  <1>1. job' \in [Job -> JobRow \cup {None}] /\ \A k \in Job : job[k] # None => job'[k] # None
    BY CancelType DEF SaveWorkflow, Inv
  <1>2. TypeOK' BY <1>1, TimeAssumption DEF SaveWorkflow, Inv, TypeOK
  <1>3. Grow BY <1>1 DEF SaveWorkflow, Grow
  <1>. QED BY <1>2, <1>3, OutsideStep, InboxStillOK, DeliveryStillOK DEF SaveWorkflow

LEMMA UpdateCaseStep ==
  ASSUME Inv, NEW t \in Target, NEW to \in StaffStatus, NEW v \in BOOLEAN,
         UpdateMunicipalCase(t, to, v)
  PROVE  Inv'
  <1>1. job' \in [Job -> JobRow \cup {None}] /\ \A k \in Job : job[k] # None => job'[k] # None
    BY CancelType DEF UpdateMunicipalCase, Inv, TypeOK
  <1>2. [cases[t] EXCEPT !.status = to] \in CaseRow
    <2>1. cases[t] \in CaseRow BY DEF UpdateMunicipalCase, Inv, TypeOK
    <2>2. to \in CaseState BY StaffAssumption
    <2>. QED BY <2>1, <2>2 DEF CaseRow
  <1>3. /\ cases' \in [Target -> CaseRow \cup {None}]
        /\ \A u \in Target : cases[u] # None => cases'[u] # None
    <2> DEFINE row == [cases[t] EXCEPT !.status = to]
    <2>1. row \in CaseRow /\ row # None
      BY <1>2, NoneAssumption
    <2>2. cases' = [cases EXCEPT ![t] = row]
      BY DEF UpdateMunicipalCase, Inv, TypeOK
    <2> HIDE DEF row
    <2>. QED BY <2>1, <2>2 DEF Inv, TypeOK
  <1>4. TypeOK' BY <1>1, <1>3 DEF UpdateMunicipalCase, Inv, TypeOK, flow
  <1>5. Grow BY <1>1, <1>3 DEF UpdateMunicipalCase, Grow
  <1>. QED BY <1>4, <1>5, OutsideStep, InboxStillOK, DeliveryStillOK DEF UpdateMunicipalCase

LEMMA TickStep == Inv /\ Tick => Inv'
  <1> SUFFICES ASSUME Inv, Tick PROVE Inv'
    OBVIOUS
  <1>1. TypeOK' BY TimeAssumption DEF Tick, Inv, TypeOK, flow, sending, outcome
  <1>2. Grow BY DEF Tick, Grow, sending, outcome
  <1>. QED BY <1>1, <1>2, OutsideStep, InboxStillOK, DeliveryStillOK DEF Tick

LEMMA ProviderEventStep ==
  ASSUME Inv, NEW a \in Attempt, NEW e \in Event, AcceptProviderEvent(a, e)
  PROVE  Inv'
  <1>1. inbox' \in [Attempt \X Event -> InboxState \cup {None}]
    BY DEF AcceptProviderEvent, Inv, TypeOK, InboxState
  <1>2. TypeOK' BY <1>1 DEF AcceptProviderEvent, Inv, TypeOK, flow, sending, outcome
  <1>3. Grow BY DEF AcceptProviderEvent, Grow, sending, outcome
  <1>4. attempt[a] # None BY DEF AcceptProviderEvent, Inv, CallsRecorded
  <1>5. InboxOK'
    BY <1>4 DEF AcceptProviderEvent, Inv, RowsExist, InboxOK, TypeOK, sending
  <1>. QED BY <1>2, <1>3, <1>5, OutsideStep, DeliveryStillOK DEF AcceptProviderEvent

LEMMA CheckReceiptStep ==
  ASSUME Inv, NEW d \in Delivery, NEW a \in Attempt, CheckReceipt(d, a)
  PROVE  Inv'
  <1>1. PICK verdict \in {"store", "review", "duplicate", "conflict"}, answer \in Answer :
          delivery' = [delivery EXCEPT ![d] =
                         [pc |-> verdict, attempt |-> a, answer |-> answer]]
    BY DEF CheckReceipt
  <1>2. answer \in AnswerClass BY DeliveryAssumption
  <1>3. TypeOK' BY <1>1, <1>2 DEF CheckReceipt, Inv, TypeOK, flow, sending, outcome
  <1>4. Grow BY DEF CheckReceipt, Grow, sending, outcome
  <1>5. DeliveryOK'
    BY <1>1, <1>2 DEF CheckReceipt, Inv, RowsExist, DeliveryOK, TypeOK, sending
  <1>. QED BY <1>3, <1>4, <1>5, OutsideStep, InboxStillOK DEF CheckReceipt

LEMMA OutcomeType ==
  ASSUME TypeOK, NEW t \in Target, NEW ev, ApplyOutcome(t, ev)
  PROVE  /\ cases' \in [Target -> CaseRow \cup {None}]
         /\ \A u \in Target : cases[u] # None => cases'[u] # None
         /\ state' \in [Target -> {"PENDING", "CONFIRMED", "WAITING_FOR_DEADLINE"}]
  <1>1. /\ cases' \in [Target -> CaseRow \cup {None}]
        /\ \A u \in Target : cases[u] # None => cases'[u] # None
    BY EnsureCaseType DEF ApplyOutcome, TypeOK, Reason
  <1>2. state' \in [Target -> {"PENDING", "CONFIRMED", "WAITING_FOR_DEADLINE"}]
    BY DEF ApplyOutcome, TypeOK
  <1>. QED BY <1>1, <1>2

LEMMA StoreReceiptStep ==
  ASSUME Inv, NEW d \in Delivery, StoreReceipt(d)
  PROVE  Inv'
  <1> DEFINE a == delivery[d].attempt
             response == [receipt |-> ReceiptOf[d], class |-> delivery[d].answer]
  <1>1. a \in Attempt /\ a[1] \in Target /\ delivery[d].answer \in AnswerClass
    BY DEF StoreReceipt, Inv, RowsExist, DeliveryOK, Attempt
  <1>2. response \in Response
    BY <1>1 DEF Response
  <1>3. job' \in [Job -> JobRow \cup {None}] /\ \A k \in Job : job[k] # None => job'[k] # None
    BY CancelType DEF StoreReceipt, Inv, TypeOK
  <1>4. /\ cases' \in [Target -> CaseRow \cup {None}]
        /\ \A u \in Target : cases[u] # None => cases'[u] # None
        /\ state' \in [Target -> {"PENDING", "CONFIRMED", "WAITING_FOR_DEADLINE"}]
    BY <1>1, OutcomeType DEF StoreReceipt, Inv, TypeOK, outcome
  <1>5. responses' \in [Attempt -> Seq(Response)]
    <2>1. Append(responses[a], response) \in Seq(Response)
      BY <1>1, <1>2 DEF Inv, TypeOK
    <2>. QED BY <1>1, <2>1 DEF StoreReceipt, Inv, TypeOK
  <1>6. PICK verdict \in {"stored", "duplicate", "conflict"} :
          delivery' = [delivery EXCEPT ![d].pc = verdict]
    BY DEF StoreReceipt
  <1>7. /\ delivery' \in [Delivery ->
             [pc : {"idle", "store", "stored", "duplicate", "review", "conflict"},
              attempt : Attempt \cup {None}, answer : AnswerClass \cup {"none"}]]
        /\ \A c \in Delivery : delivery'[c].pc = "store" => delivery'[c] = delivery[c]
    <2>0. delivery[d] \in [pc : {"idle", "store", "stored", "duplicate", "review", "conflict"},
                           attempt : Attempt \cup {None}, answer : AnswerClass \cup {"none"}]
      BY DEF Inv, TypeOK
    <2>1. [delivery[d] EXCEPT !.pc = verdict] \in
             [pc : {"idle", "store", "stored", "duplicate", "review", "conflict"},
              attempt : Attempt \cup {None}, answer : AnswerClass \cup {"none"}]
      BY <2>0
    <2> DEFINE row == [delivery[d] EXCEPT !.pc = verdict]
    <2>2. delivery' = [delivery EXCEPT ![d] = row]
      BY <1>6 DEF Inv, TypeOK
    <2>3. row.pc # "store"
      BY <2>0
    <2> HIDE DEF row
    <2>4. row \in [pc : {"idle", "store", "stored", "duplicate", "review", "conflict"},
                   attempt : Attempt \cup {None}, answer : AnswerClass \cup {"none"}]
      BY <2>1 DEF row
    <2>. QED BY <2>2, <2>3, <2>4 DEF Inv, TypeOK
  <1>8. TypeOK' BY <1>3, <1>4, <1>5, <1>7 DEF StoreReceipt, Inv, TypeOK, flow
  <1>9. Grow BY <1>3, <1>4 DEF StoreReceipt, Grow
  <1>10. DeliveryOK' BY <1>7 DEF StoreReceipt, Inv, RowsExist, DeliveryOK
  <1>. QED BY <1>8, <1>9, <1>10, OutsideStep, InboxStillOK DEF StoreReceipt

LEMMA ApplyEventStep ==
  ASSUME Inv, NEW w \in Worker, NEW a \in Attempt, NEW e \in Event, ApplyEvent(w, a, e)
  PROVE  Inv'
  <1> DEFINE call == NextCallState(attempt[a].call, e)
  <1>1. attempt[a] \in AttemptRow /\ attempt[a] # None
    BY NoneAssumption DEF ApplyEvent, Inv, RowsExist, InboxOK, TypeOK, InboxState
  <1>2. call \in CallState
    BY <1>1, EventAssumption DEF NextCallState, AttemptRow
  <1>3. a[1] \in Target
    BY DEF Attempt
  <1>4. /\ attempt' \in [Attempt -> AttemptRow \cup {None}]
        /\ \A b \in Attempt : attempt[b] # None => attempt'[b] # None
    <2>1. attempt' = attempt \/ attempt' = [attempt EXCEPT ![a].call = call]
      BY DEF ApplyEvent
    <2>2. TypeOK BY DEF Inv
    <2> HIDE DEF call
    <2>3. CASE attempt' = attempt
      BY <2>2, <2>3 DEF TypeOK
    <2>4. CASE attempt' = [attempt EXCEPT ![a].call = call]
      BY <1>1, <1>2, <2>2, <2>4, CallType
    <2>. QED BY <2>1, <2>3, <2>4
  <1>5. inbox' \in [Attempt \X Event -> InboxState \cup {None}]
    <2>1. PICK s \in InboxState : inbox' = [inbox EXCEPT ![<<a, e>>] = s]
      BY DEF ApplyEvent, InboxState
    <2>. QED BY <2>1 DEF Inv, TypeOK
  <1>6. /\ job' \in [Job -> JobRow \cup {None}]
        /\ \A k \in Job : job[k] # None => job'[k] # None
        /\ cases' \in [Target -> CaseRow \cup {None}]
        /\ \A u \in Target : cases[u] # None => cases'[u] # None
        /\ state' \in [Target -> {"PENDING", "CONFIRMED", "WAITING_FOR_DEADLINE"}]
    <2>1. CASE ~attempt[a].engaged
      BY <2>1 DEF ApplyEvent, outcome, Inv, TypeOK
    <2>2. CASE attempt[a].engaged /\ call = "ANSWERED"
      BY <1>3, <2>2, CancelType, OutcomeType DEF ApplyEvent, Inv
    <2>3. CASE attempt[a].engaged /\ call # "ANSWERED"
      <3>1. ScheduleRetry(a, call) /\ UNCHANGED state
        BY <2>3 DEF ApplyEvent
      <3>2. /\ job' \in [Job -> JobRow \cup {None}]
            /\ \A k \in Job : job[k] # None => job'[k] # None
        BY <3>1, UnclaimedType, ZenonT(40) DEF ScheduleRetry, Inv, TypeOK
      <3>3. /\ cases' \in [Target -> CaseRow \cup {None}]
            /\ \A u \in Target : cases[u] # None => cases'[u] # None
        BY <1>3, <3>1, EnsureCaseType DEF ScheduleRetry, Inv, TypeOK, Reason
      <3>. QED BY <3>1, <3>2, <3>3 DEF Inv, TypeOK
    <2>. QED BY <2>1, <2>2, <2>3
  <1>7. TypeOK' BY <1>4, <1>5, <1>6 DEF ApplyEvent, Inv, TypeOK, flow
  <1>8. Grow BY <1>4, <1>6 DEF ApplyEvent, Grow
  <1>9. InboxOK'
    <2>1. \A b \in Attempt, f \in Event :
            inbox'[<<b, f>>] # None => inbox[<<b, f>>] # None \/ b = a
      BY DEF ApplyEvent, Inv, TypeOK
    <2>. QED BY <1>1, <1>8, <2>1 DEF Inv, RowsExist, InboxOK, Grow
  <1>. QED BY <1>7, <1>8, <1>9, OutsideStep, DeliveryStillOK DEF ApplyEvent

LEMMA SettleStep ==
  ASSUME Inv, NEW w \in Worker, NEW t \in Target, SettleDeadline(w, t)
  PROVE  Inv'
  <1>1. job' \in [Job -> JobRow \cup {None}] /\ \A k \in Job : job[k] # None => job'[k] # None
    BY CancelType DEF SettleDeadline, Inv
  <1>2. /\ cases' \in [Target -> CaseRow \cup {None}]
        /\ \A u \in Target : cases[u] # None => cases'[u] # None
    BY EnsureCaseType DEF SettleDeadline, Inv, Reason
  <1>3. TypeOK' BY <1>1, <1>2 DEF SettleDeadline, Inv, TypeOK, flow
  <1>4. Grow BY <1>1, <1>2 DEF SettleDeadline, Grow
  <1>. QED BY <1>3, <1>4, OutsideStep, InboxStillOK, DeliveryStillOK DEF SettleDeadline

-----------------------------------------------------------------------------
(* The steps of a request.                                                 *)

LEMMA BecomeType ==
  ASSUME TypeOK, NEW w \in Worker, NEW row \in RequestRow, Become(w, row)
  PROVE  wk' \in [Worker -> RequestRow] /\ wk'[w] = row
  BY DEF TypeOK, Become, RequestRow

\* The request reads, or goes on, and no table changes.
LEMMA ReadStep ==
  ASSUME Inv, NEW w \in Worker, NEW new \in RequestRow, Become(w, new),
         new.pc \in Sending => wk[w].pc \in Sending /\ new.job = wk[w].job,
         UNCHANGED <<clock, flow, sending, outcome, inbox, responses, delivery, dialled>>,
         crashes' \in 0..MaxCrashes,
         \A j \in new.todo : job[j] # None,
         new.pc \in Handling => new.job = wk[w].job /\ wk[w].pc \in Handling,
         new.pc \in Prepared => wk[w].pc \in Prepared,
         new.pc \in Saving => new.seen = cases[TargetOf(new.job)]
  PROVE  Inv'
  <1>1. TypeOK'
    <2>1. wk' \in [Worker -> RequestRow] BY BecomeType DEF Inv
    <2>. QED BY <2>1 DEF Inv, TypeOK, RequestRow, flow, sending, outcome
  <1>2. Grow BY DEF Grow, sending, outcome
  <1>3. wk'[w] = new BY BecomeType DEF Inv
  <1>4. RequestOK(w)'
    <2>1. RequestOK(w) BY DEF Inv, RowsExist
    <2>2. \A j \in wk'[w].todo : job'[j] # None
      BY <1>3 DEF sending
    <2>3. wk'[w].pc \in Handling => wk'[w].job \in Job /\ job'[wk'[w].job] # None
      BY <1>3, <2>1 DEF sending, RequestOK
    <2>4. wk'[w].pc \in Prepared =>
            attempt'[AttemptOf(wk'[w].job)] # None /\ outbox'[wk'[w].job] # None
      <3>1. Prepared \subseteq Handling BY DEF Prepared, Handling
      <3>. QED BY <1>3, <2>1, <3>1 DEF sending, RequestOK
    <2>5. wk'[w].pc \in Saving /\ wk'[w].seen # None => cases'[TargetOf(wk'[w].job)] # None
      BY <1>3 DEF outcome
    <2>. QED BY <2>2, <2>3, <2>4, <2>5 DEF RequestOK
  <1>. QED BY <1>1, <1>2, <1>4, RequestStep, InboxStillOK DEF Become

LEMMA ReadExpiredStep ==
  ASSUME Inv, NEW w \in Worker, ReadExpired(w)
  PROVE  Inv'
  <1> DEFINE expired == {j \in Job : JobIn(j, "CLAIMED") /\ job[j].until < clock}
             new == [Fresh EXCEPT !.pc = "expire", !.now = clock, !.todo = expired,
                                  !.posted = {j \in expired : outbox[j] # None}]
  <1>1. new \in RequestRow
    BY DEF Inv, TypeOK, Fresh, RequestRow, Pc
  <1>2. new.pc = "expire" /\ new.todo = expired
    BY DEF Fresh
  <1>3. Become(w, new)
    BY DEF ReadExpired
  <1>4. \A j \in expired : job[j] # None
    BY DEF JobIn
  <1> HIDE DEF new, expired
  <1>5. crashes' \in 0..MaxCrashes BY DEF ReadExpired, Inv, TypeOK
  <1>. QED
    BY <1>1, <1>2, <1>3, <1>4, <1>5, ReadStep
       DEF ReadExpired, Handling, Prepared, Sending, Saving

LEMMA ReadDueStep ==
  ASSUME Inv, NEW w \in Worker, ReadDue(w)
  PROVE  Inv'
  <1> DEFINE due == {j \in Job : JobIn(j, "PENDING") /\ DueSlot(j) <= wk[w].now}
             new == [wk[w] EXCEPT !.pc = "claim", !.posted = {}, !.todo = due]
  <1>1. wk[w] \in RequestRow
    BY DEF Inv, TypeOK, RequestRow
  <1>2. new \in RequestRow /\ new.pc = "claim" /\ new.todo = due
    BY <1>1 DEF RequestRow, Pc
  <1>3. Become(w, new)
    BY DEF ReadDue
  <1>4. \A j \in due : job[j] # None
    BY DEF JobIn
  <1> HIDE DEF new, due
  <1>5. crashes' \in 0..MaxCrashes BY DEF ReadDue, Inv, TypeOK
  <1>. QED
    BY <1>2, <1>3, <1>4, <1>5, ReadStep
       DEF ReadDue, Handling, Prepared, Sending, Saving

LEMMA FreshRead ==
  ASSUME Inv, NEW w \in Worker, NEW p \in {"inbox", "settle"},
         Become(w, [Fresh EXCEPT !.pc = p]),
         UNCHANGED <<clock, flow, sending, outcome, inbox, responses, delivery, dialled>>,
         crashes' \in 0..MaxCrashes
  PROVE  Inv'
  <1> DEFINE new == [Fresh EXCEPT !.pc = p]
  <1>1. new \in RequestRow /\ new.pc = p /\ new.todo = {}
    BY FreshType DEF RequestRow, Pc, Fresh
  <1>2. p \notin Handling /\ p \notin Prepared /\ p \notin Sending /\ p \notin Saving
    BY DEF Handling, Prepared, Sending, Saving
  <1> HIDE DEF new
  <1>. QED BY <1>1, <1>2, ReadStep DEF new

LEMMA FreshIsInbox == Fresh = [Fresh EXCEPT !.pc = "inbox"]
  BY DEF Fresh

LEMMA StopEndCrashStep ==
  ASSUME Inv, NEW w \in Worker, StopClaiming(w) \/ EndRequest(w) \/ Crash(w)
  PROVE  Inv'
  <1>1. crashes' \in 0..MaxCrashes
    BY TimeAssumption DEF StopClaiming, EndRequest, Crash, Inv, TypeOK
  <1>2. UNCHANGED <<clock, flow, sending, outcome, inbox, responses, delivery, dialled>>
    BY DEF StopClaiming, EndRequest, Crash
  <1>3. \E p \in {"inbox", "settle"} : Become(w, [Fresh EXCEPT !.pc = p])
    BY FreshIsInbox DEF StopClaiming, EndRequest, Crash
  <1>. QED BY <1>1, <1>2, <1>3, FreshRead

LEMMA GoStep ==
  ASSUME Inv, NEW w \in Worker, NEW p \in Pc \ Saving, Go(w, p),
         UNCHANGED <<clock, flow, sending, outcome, inbox, responses, delivery, dialled>>,
         UNCHANGED crashes,
         p \in Sending => wk[w].pc \in Sending,
         p \in Handling => wk[w].pc \in Handling,
         p \in Prepared => wk[w].pc \in Prepared
  PROVE  Inv'
  <1> DEFINE new == [wk[w] EXCEPT !.pc = p]
  <1>1. wk[w] \in RequestRow
    BY DEF Inv, TypeOK, RequestRow
  <1>2. new \in RequestRow /\ new.pc = p /\ new.todo = wk[w].todo /\ new.job = wk[w].job
    BY <1>1 DEF RequestRow
  <1>3. Become(w, new)
    BY DEF Go
  <1>4. \A j \in new.todo : job[j] # None
    BY <1>2 DEF Inv, RowsExist, RequestOK
  <1>5. crashes' \in 0..MaxCrashes BY DEF Inv, TypeOK
  <1> HIDE DEF new
  <1>. QED BY <1>2, <1>3, <1>4, <1>5, ReadStep

LEMMA RecheckStep ==
  ASSUME Inv, NEW w \in Worker, Recheck(w) \/ RecheckAgain(w)
  PROVE  Inv'
  <1>1. CASE Recheck(w)
    BY <1>1, GoStep DEF Recheck, Pc, Handling, Prepared, Sending, Saving
  <1>2. CASE RecheckAgain(w)
    <2>1. wk[w].pc = "recheckAgain" /\ \E p \in {"send", "catch"} : Go(w, p)
      BY <1>2 DEF RecheckAgain
    <2>. QED BY <1>2, <2>1, GoStep
         DEF RecheckAgain, Pc, Handling, Prepared, Sending, Saving
  <1>. QED BY <1>1, <1>2

LEMMA ReadCaseStep ==
  ASSUME Inv, NEW w \in Worker, ReadCase(w)
  PROVE  Inv'
  <1> DEFINE p == IF wk[w].pc = "block" THEN "saveBlocked" ELSE "saveUnknown"
             c == cases[TargetOf(wk[w].job)]
             new == [wk[w] EXCEPT !.seen = c, !.pc = p]
  <1>1. wk[w] \in RequestRow
    BY DEF Inv, TypeOK, RequestRow
  <1>2. wk[w].pc \in {"block", "catch"} /\ wk[w].pc \in Handling
    BY DEF ReadCase, Handling, Prepared
  <1>3. wk[w].job \in Job
    BY <1>2 DEF Inv, RowsExist, RequestOK
  <1>4. c \in CaseRow \cup {None}
    BY <1>3 DEF Inv, TypeOK, TargetOf, Job
  <1>5. p \in {"saveBlocked", "saveUnknown"} /\ (p = "saveUnknown" => wk[w].pc = "catch")
    BY <1>2
  <1>6. Become(w, new)
    BY <1>1 DEF ReadCase, RequestRow
  <1> HIDE DEF p
  <1>7. new \in RequestRow /\ new.pc = p /\ new.todo = wk[w].todo /\ new.job = wk[w].job
          /\ new.seen = cases[TargetOf(new.job)]
    BY <1>1, <1>4, <1>5 DEF RequestRow, Pc
  <1>8. \A j \in new.todo : job[j] # None
    BY <1>7 DEF Inv, RowsExist, RequestOK
  <1>9. crashes' \in 0..MaxCrashes BY DEF ReadCase, Inv, TypeOK
  <1>10. p \notin Sending /\ (p \in Prepared => wk[w].pc \in Prepared)
    BY <1>2, <1>5 DEF Prepared, Sending
  <1> HIDE DEF new
  <1>. QED BY <1>2, <1>6, <1>7, <1>8, <1>9, <1>10, ReadStep DEF ReadCase

LEMMA ReleaseStep ==
  ASSUME Inv, NEW w \in Worker, NEW j \in Job, ReleaseExpired(w, j)
  PROVE  Inv'
  <1> DEFINE new == [wk[w] EXCEPT !.todo = @ \ {j}]
  <1>1. wk[w] \in RequestRow /\ wk[w].pc = "expire"
    BY DEF Inv, TypeOK, RequestRow, ReleaseExpired
  <1>2. new \in RequestRow /\ new.pc = "expire" /\ new.todo \subseteq wk[w].todo
    BY <1>1 DEF RequestRow
  <1>3. job[j] # None
    BY DEF ReleaseExpired, Inv, RowsExist, RequestOK
  <1>4. Become(w, new)
    BY <1>1 DEF ReleaseExpired, RequestRow
  <1>5. job' \in [Job -> JobRow \cup {None}] /\ \A k \in Job : job[k] # None => job'[k] # None
    <2>1. job' = Put(j, "UNKNOWN") \/ job' = [job EXCEPT ![j] = Unclaimed] \/ job' = job
      BY DEF ReleaseExpired
    <2>2. TypeOK BY DEF Inv
    <2>3. CASE job' = Put(j, "UNKNOWN") BY <1>3, <2>2, <2>3, PutType DEF JobState
    <2>4. CASE job' = [job EXCEPT ![j] = Unclaimed]
      BY <2>2, <2>4, UnclaimedType DEF TypeOK
    <2>5. CASE job' = job BY <2>2, <2>5 DEF TypeOK
    <2>. QED BY <2>1, <2>3, <2>4, <2>5
  <1>6. /\ outbox' \in [Job -> OutboxState \cup {None}]
        /\ \A k \in Job : outbox[k] # None => outbox'[k] # None
    BY NoneAssumption DEF ReleaseExpired, Inv, TypeOK, OutboxState
  <1> HIDE DEF new
  <1>7. wk' \in [Worker -> RequestRow] /\ wk'[w] = new
    BY <1>2, <1>4, BecomeType DEF Inv
  <1>8. TypeOK' BY <1>5, <1>6, <1>7 DEF ReleaseExpired, Inv, TypeOK, RequestRow, flow, outcome
  <1>9. Grow BY <1>5, <1>6 DEF ReleaseExpired, Grow, outcome
  <1>10. RequestOK(w)'
    BY <1>2, <1>5, <1>7 DEF RequestOK, Handling, Prepared, Sending, Saving, Inv, RowsExist, TypeOK,
       RequestRow
  <1>. QED
    BY <1>2, <1>4, <1>8, <1>9, <1>10, RequestStep, InboxStillOK
       DEF ReleaseExpired, Become, Sending

LEMMA ClaimStep ==
  ASSUME Inv, NEW w \in Worker, NEW j \in Job, Claim(w, j)
  PROVE  Inv'
  <1>1. wk[w] \in RequestRow /\ wk[w].pc = "claim"
    BY DEF Inv, TypeOK, RequestRow, Claim
  <1>2. PICK new \in RequestRow :
          /\ Become(w, new)
          /\ new.todo \subseteq wk[w].todo
          /\ new.pc \in {"claim", "recheck"}
          /\ new.pc = "recheck" => new.job = j /\ job[j] # None
    <2>1. CASE JobIn(j, "PENDING")
      <3> DEFINE new == [wk[w] EXCEPT !.pc = "recheck", !.job = j, !.todo = @ \ {j}]
      <3>1. new \in RequestRow /\ new.pc = "recheck" /\ new.job = j
                /\ new.todo \subseteq wk[w].todo
        BY <1>1 DEF RequestRow, Pc
      <3>2. Become(w, new)
        BY <2>1, <1>1 DEF Claim, RequestRow
      <3>. QED BY <2>1, <3>1, <3>2 DEF JobIn
    <2>2. CASE ~JobIn(j, "PENDING")
      <3> DEFINE new == [wk[w] EXCEPT !.todo = @ \ {j}]
      <3>1. new \in RequestRow /\ new.pc = "claim" /\ new.todo \subseteq wk[w].todo
        BY <1>1 DEF RequestRow
      <3>2. Become(w, new)
        BY <2>2, <1>1 DEF Claim, RequestRow
      <3>. QED BY <3>1, <3>2
    <2>. QED BY <2>1, <2>2
  <1>3. job' \in [Job -> JobRow \cup {None}] /\ \A k \in Job : job[k] # None => job'[k] # None
    <2> DEFINE row == [state |-> "CLAIMED", owner |-> w, until |-> wk[w].now + Lease]
    <2>1. row \in JobRow
      BY <1>1, TimeAssumption DEF JobRow, JobState, RequestRow
    <2>2. job' = job \/ job' = [job EXCEPT ![j] = row]
      BY DEF Claim
    <2>3. row # None
      BY <2>1, NoneAssumption
    <2> HIDE DEF row
    <2>4. CASE job' = job BY <2>4 DEF Inv, TypeOK
    <2>5. CASE job' = [job EXCEPT ![j] = row] BY <2>1, <2>3, <2>5 DEF Inv, TypeOK
    <2>. QED BY <2>2, <2>4, <2>5
  <1>4. wk' \in [Worker -> RequestRow] /\ wk'[w] = new
    BY <1>2, BecomeType DEF Inv
  <1>5. TypeOK' BY <1>3, <1>4 DEF Claim, Inv, TypeOK, RequestRow, flow, outcome
  <1>6. Grow BY <1>3 DEF Claim, Grow, outcome
  <1>7. new.pc \notin Prepared /\ new.pc \notin Sending /\ new.pc \notin Saving
    BY <1>2 DEF Prepared, Sending, Saving
  <1>8. new.pc \in Handling => new.pc = "recheck"
    BY <1>2 DEF Prepared, Sending, Handling
  <1>9. RequestOK(w)'
    BY <1>2, <1>3, <1>4, <1>7, <1>8 DEF RequestOK, Inv, RowsExist, TypeOK, RequestRow
  <1>. QED
    BY <1>2, <1>5, <1>6, <1>7, <1>9, RequestStep, InboxStillOK DEF Claim, Become

\* A step that writes tables and goes on with the same job.
LEMMA WriteStep ==
  ASSUME Inv, NEW w \in Worker, NEW p \in Pc, Go(w, p), wk[w].pc \in Handling,
         Grow, UNCHANGED <<clock, flow, inbox, responses, delivery, dialled, crashes>>,
         job' \in [Job -> JobRow \cup {None}],
         outbox' \in [Job -> OutboxState \cup {None}],
         attempt' \in [Attempt -> AttemptRow \cup {None}],
         UNCHANGED outcome,
         p \notin Sending, p \notin Saving, p \in Prepared => wk[w].pc \in Prepared
  PROVE  Inv'
  <1> DEFINE new == [wk[w] EXCEPT !.pc = p]
  <1>1. wk[w] \in RequestRow
    BY DEF Inv, TypeOK, RequestRow
  <1>2. new \in RequestRow /\ new.pc = p /\ new.todo = wk[w].todo /\ new.job = wk[w].job
    BY <1>1 DEF RequestRow
  <1>3. Become(w, new)
    BY DEF Go
  <1> HIDE DEF new
  <1>4. wk' \in [Worker -> RequestRow] /\ wk'[w] = new
    BY <1>2, <1>3, BecomeType DEF Inv
  <1>5. TypeOK' BY <1>4 DEF Inv, TypeOK, RequestRow, flow, outcome
  <1>6. RequestOK(w)'
    <2>1. RequestOK(w) /\ wk[w].todo \subseteq Job
      BY <1>1 DEF Inv, RowsExist, RequestRow
    <2>2. wk'[w].job \in Job /\ job'[wk'[w].job] # None
      BY <1>2, <1>4, <2>1 DEF RequestOK, Grow
    <2>3. p \in Prepared =>
            attempt'[AttemptOf(wk'[w].job)] # None /\ outbox'[wk'[w].job] # None
      BY <1>2, <1>4, <2>1, <2>2, AttemptOfJob DEF RequestOK, Grow
    <2>4. \A j \in wk'[w].todo : job'[j] # None
      BY <1>2, <1>4, <2>1 DEF RequestOK, Grow
    <2>. QED BY <1>2, <1>4, <2>2, <2>3, <2>4 DEF RequestOK
  <1>. QED
    BY <1>2, <1>3, <1>5, <1>6, RequestStep, InboxStillOK DEF Become

LEMMA RefuseStep ==
  ASSUME Inv, NEW w \in Worker, Refuse(w)
  PROVE  Inv'
  <1>1. wk[w].pc = "recheck" /\ wk[w].pc \in Handling
    BY DEF Refuse, Handling
  <1>2. wk[w].job \in Job /\ job[wk[w].job] # None
    BY <1>1 DEF Inv, RowsExist, RequestOK
  <1>3. job' \in [Job -> JobRow \cup {None}] /\ \A k \in Job : job[k] # None => job'[k] # None
    <2>1. job' = Put(wk[w].job, "BLOCKED") \/ job' = job
      BY DEF Refuse
    <2>2. CASE job' = Put(wk[w].job, "BLOCKED")
      BY <1>2, <2>2, PutType DEF Inv, JobState
    <2>3. CASE job' = job BY <2>3 DEF Inv, TypeOK
    <2>. QED BY <2>1, <2>2, <2>3
  <1>4. Grow BY <1>3 DEF Refuse, Grow, outcome
  <1>5. outbox' \in [Job -> OutboxState \cup {None}] /\ attempt' \in [Attempt -> AttemptRow \cup {None}]
    BY DEF Refuse, Inv, TypeOK
  <1>6. "block" \in Pc /\ "block" \notin Prepared /\ "block" \notin Sending
          /\ "block" \notin Saving
    BY DEF Pc, Prepared, Sending, Saving
  <1>. QED BY <1>1, <1>3, <1>4, <1>5, <1>6, WriteStep DEF Refuse

LEMMA RecordReplyStep ==
  ASSUME Inv, NEW w \in Worker, RecordReply(w)
  PROVE  Inv'
  <1> DEFINE j == wk[w].job
             a == AttemptOf(j)
             accepted == wk[w].pc = "accepted"
  <1>1. wk[w].pc \in Prepared /\ wk[w].pc \in Handling
    BY DEF RecordReply, Prepared, Handling
  <1>2. j \in Job /\ job[j] # None /\ a \in Attempt
    BY <1>1, AttemptOfJob DEF Inv, RowsExist, RequestOK
  <1>3. CASE Go(w, "catch") /\ UNCHANGED sending
    <2>1. Grow BY <1>3 DEF RecordReply, sending, outcome, Grow
    <2>2. "catch" \in Pc /\ "catch" \notin Sending /\ "catch" \notin Saving
      BY DEF Pc, Sending, Saving
    <2>. QED
      BY <1>1, <1>3, <2>1, <2>2, WriteStep DEF RecordReply, sending, Inv, TypeOK
  <1>4. CASE Go(w, "claim")
    <2>1. PICK known \in BOOLEAN : attempt' = [attempt EXCEPT ![a] =
              [call |-> IF accepted THEN "QUEUED" ELSE "UNKNOWN", engaged |-> known]]
      <3>1. "claim" # "catch" OBVIOUS
      <3>2. wk[w] \in RequestRow BY DEF Inv, TypeOK, RequestRow
      <3>3. ~Go(w, "catch")
        <4>1. [wk[w] EXCEPT !.pc = "claim"].pc = "claim" /\ [wk[w] EXCEPT !.pc = "catch"].pc = "catch"
          BY <3>2 DEF RequestRow
        <4>. QED BY <1>4, <4>1 DEF Go, Become, Inv, TypeOK
      <3>. QED BY <3>3 DEF RecordReply
    <2>2. /\ outbox' = [outbox EXCEPT ![j] = IF accepted THEN "ACCEPTED" ELSE "UNKNOWN"]
          /\ job' = Put(j, IF accepted THEN "SENT" ELSE "UNKNOWN")
      <3>1. wk[w] \in RequestRow BY DEF Inv, TypeOK, RequestRow
      <3>2. ~Go(w, "catch")
        <4>1. [wk[w] EXCEPT !.pc = "claim"].pc = "claim" /\ [wk[w] EXCEPT !.pc = "catch"].pc = "catch"
          BY <3>1 DEF RequestRow
        <4>. QED BY <1>4, <4>1 DEF Go, Become, Inv, TypeOK
      <3>. QED BY <3>2 DEF RecordReply
    <2> DEFINE row == [call |-> IF accepted THEN "QUEUED" ELSE "UNKNOWN", engaged |-> known]
               mail == IF accepted THEN "ACCEPTED" ELSE "UNKNOWN"
               done == IF accepted THEN "SENT" ELSE "UNKNOWN"
    <2>3. row \in AttemptRow /\ mail \in OutboxState /\ done \in JobState
      BY DEF AttemptRow, CallState, OutboxState, JobState
    <2>4. row # None /\ mail # None
      BY <2>3, NoneAssumption
    <2> HIDE DEF row, mail, done
    <2>5. attempt' = [attempt EXCEPT ![a] = row] /\ outbox' = [outbox EXCEPT ![j] = mail]
            /\ job' = Put(j, done)
      BY <2>1, <2>2 DEF row, mail, done
    <2> HIDE DEF a, j
    <2>6. /\ attempt' \in [Attempt -> AttemptRow \cup {None}]
          /\ \A b \in Attempt : attempt[b] # None => attempt'[b] # None
      BY <1>2, <2>3, <2>4, <2>5 DEF Inv, TypeOK
    <2>7. /\ outbox' \in [Job -> OutboxState \cup {None}]
          /\ \A k \in Job : outbox[k] # None => outbox'[k] # None
      BY <1>2, <2>3, <2>4, <2>5 DEF Inv, TypeOK
    <2>8. job' \in [Job -> JobRow \cup {None}] /\ \A k \in Job : job[k] # None => job'[k] # None
      BY <1>2, <2>3, <2>5, PutType DEF Inv
    <2>9. Grow BY <2>6, <2>7, <2>8 DEF RecordReply, outcome, Grow
    <2>10. "claim" \in Pc /\ "claim" \notin Sending /\ "claim" \notin Prepared
             /\ "claim" \notin Saving
      BY DEF Pc, Sending, Prepared, Saving
    <2>. QED
      BY <1>1, <1>4, <2>6, <2>7, <2>8, <2>9, <2>10, WriteStep DEF RecordReply
  <1>. QED BY <1>3, <1>4 DEF RecordReply

\* The step that makes the attempt and the outbox row, and nobody else's.
LEMMA PrepareStep ==
  ASSUME Inv, NEW w \in Worker, Prepare(w)
  PROVE  Inv'
  <1> DEFINE j == wk[w].job
             a == AttemptOf(j)
             new == [wk[w] EXCEPT !.pc = "recheckAgain"]
  <1>1. wk[w].pc = "prepare" /\ wk[w].pc \in Handling
    BY DEF Prepare, Handling
  <1>2. j \in Job /\ job[j] # None /\ a \in Attempt
    BY <1>1, AttemptOfJob DEF Inv, RowsExist, RequestOK
  <1>3. CASE ~(attempt[a] = None /\ outbox[j] = None)
    <2>1. Become(w, [Fresh EXCEPT !.pc = "inbox"])
      BY <1>3, FreshIsInbox DEF Prepare
    <2>2. UNCHANGED <<clock, flow, sending, outcome, inbox, responses, delivery, dialled>>
      BY <1>3 DEF Prepare, sending
    <2>3. crashes' \in 0..MaxCrashes BY DEF Prepare, Inv, TypeOK
    <2>. QED BY <2>1, <2>2, <2>3, FreshRead
  <1>4. CASE attempt[a] = None /\ outbox[j] = None
    <2> DEFINE row == [call |-> "QUEUED", engaged |-> FALSE]
    <2>1. row \in AttemptRow /\ row # None
      <3>1. row \in AttemptRow BY DEF AttemptRow, CallState
      <3>. QED BY <3>1, NoneAssumption
    <2>2. /\ attempt' = [attempt EXCEPT ![a] = row]
          /\ outbox' = [outbox EXCEPT ![j] = "SENDING"]
          /\ Become(w, new)
      BY <1>4 DEF Prepare, Go
    <2> HIDE DEF row
    <2>3. wk[w] \in RequestRow
      BY DEF Inv, TypeOK, RequestRow
    <2>4. new \in RequestRow /\ new.pc = "recheckAgain" /\ new.todo = wk[w].todo /\ new.job = j
      BY <2>3 DEF RequestRow, Pc
    <2> HIDE DEF new
    <2>5. /\ wk' \in [Worker -> RequestRow] /\ wk'[w] = new
          /\ \A v \in Worker : v # w => wk'[v] = wk[v]
      BY <2>2, <2>4, BecomeType DEF Inv, TypeOK, Become
    <2>6. AttemptOf(j) = a
      OBVIOUS
    <2> HIDE DEF a, j
    <2>7. /\ attempt' \in [Attempt -> AttemptRow \cup {None}] /\ attempt'[a] # None
          /\ \A b \in Attempt : attempt[b] # None => attempt'[b] # None
      BY <1>2, <2>1, <2>2 DEF Inv, TypeOK
    <2>8. "SENDING" \in OutboxState /\ "SENDING" # None
      BY NoneAssumption DEF OutboxState
    <2>9. /\ outbox' \in [Job -> OutboxState \cup {None}] /\ outbox'[j] # None
          /\ \A k \in Job : outbox[k] # None => outbox'[k] # None
      BY <1>2, <2>2, <2>8 DEF Inv, TypeOK
    <2>10. TypeOK'
      BY <2>5, <2>7, <2>9 DEF Prepare, Inv, TypeOK, RequestRow, flow, outcome
    <2>11. Grow BY <2>7, <2>9 DEF Prepare, Grow, outcome
    <2>12. RequestOK(w)'
      <3>1. RequestOK(w) BY DEF Inv, RowsExist
      <3>. QED
        BY <1>2, <2>4, <2>5, <2>6, <2>7, <2>9, <3>1 DEF RequestOK, Prepare, Saving
    <2>13. RowsExist'
      BY <2>5, <2>11, <2>12, StillOK, InboxStillOK, DeliveryStillOK DEF RowsExist, Prepare
    <2>14. \A v \in Worker : wk[v].pc \in Sending => AttemptOf(wk[v].job) # a
      <3>1. \A v \in Worker : wk[v].pc \in Sending => attempt[AttemptOf(wk[v].job)] # None
        BY DEF Inv, RowsExist, RequestOK, Prepared
      <3>. QED BY <1>4, <3>1
    <2>15. OneSender'
      BY <2>4, <2>5, <2>6, <2>14 DEF OneSender, Inv
    <2>16. NotYetCalled'
      <3>1. dialled[a] = 0 BY <1>2, <1>4 DEF Inv, CallsRecorded, TypeOK
      <3>. QED BY <2>4, <2>5, <2>6, <3>1 DEF NotYetCalled, Inv, Prepare
    <2>. QED
      BY <2>10, <2>11, <2>13, <2>15, <2>16, CallsStillRecorded DEF Inv, Prepare
  <1>. QED BY <1>3, <1>4

\* The only step that calls: the first one for its attempt, with its rows made.
LEMMA SendStep ==
  ASSUME Inv, NEW w \in Worker, Send(w)
  PROVE  Inv'
  <1> DEFINE j == wk[w].job
             a == AttemptOf(j)
  <1>1. /\ wk[w].pc = "send" /\ wk[w].pc \in Sending /\ wk[w].pc \in Prepared
        /\ wk[w].pc \in Handling
    BY DEF Send, Sending, Prepared, Handling
  <1>2. j \in Job /\ a \in Attempt /\ attempt[a] # None /\ outbox[j] # None /\ job[j] # None
    BY <1>1, AttemptOfJob DEF Inv, RowsExist, RequestOK
  <1>3. PICK reply \in {"accepted", "unclear", "catch"}, placed \in BOOLEAN :
          /\ dialled' = [dialled EXCEPT ![a] = IF placed THEN @ + 1 ELSE @]
          /\ Become(w, [wk[w] EXCEPT !.pc = reply])
    BY DEF Send, Go
  <1> DEFINE new == [wk[w] EXCEPT !.pc = reply]
  <1>4. wk[w] \in RequestRow
    BY DEF Inv, TypeOK, RequestRow
  <1>5. new \in RequestRow /\ new.pc = reply /\ new.todo = wk[w].todo /\ new.job = j
    BY <1>4 DEF RequestRow, Pc
  <1>6. Become(w, new)
    BY <1>3
  <1> HIDE DEF new
  <1>7. /\ wk' \in [Worker -> RequestRow] /\ wk'[w] = new
        /\ \A v \in Worker : v # w => wk'[v] = wk[v]
    BY <1>5, <1>6, BecomeType DEF Inv, TypeOK, Become
  <1>8. dialled[a] = 0
    BY <1>1 DEF Inv, NotYetCalled
  <1>9. AttemptOf(j) = a /\ AttemptOf(wk[w].job) = a
    OBVIOUS
  <1> HIDE DEF a, j
  <1>10. /\ dialled' \in [Attempt -> Nat] /\ dialled'[a] \in {0, 1}
         /\ \A b \in Attempt : b # a => dialled'[b] = dialled[b]
    BY <1>2, <1>3, <1>8 DEF Inv, TypeOK
  <1>11. TypeOK'
    BY <1>7, <1>10 DEF Send, Inv, TypeOK, RequestRow, flow, sending, outcome
  <1>12. Grow BY DEF Send, Grow, sending, outcome
  <1>13. RequestOK(w)'
    <2>1. RequestOK(w) BY DEF Inv, RowsExist
    <2>. QED BY <1>2, <1>5, <1>7, <1>9, <2>1 DEF RequestOK, Send, sending, Saving
  <1>14. RowsExist'
    BY <1>7, <1>12, <1>13, StillOK, InboxStillOK, DeliveryStillOK DEF RowsExist, Send
  <1>15. wk'[w].pc \notin Sending
    BY <1>5, <1>7 DEF Sending
  <1>16. OneSender'
    BY <1>7, <1>15 DEF OneSender, Inv
  <1>17. \A v \in Worker : v # w /\ wk[v].pc \in Sending =>
           AttemptOf(wk[v].job) \in Attempt /\ AttemptOf(wk[v].job) # a
    <2>1. \A v \in Worker : wk[v].pc \in Sending => wk[v].job \in Job
      BY DEF Inv, RowsExist, RequestOK, Prepared, Handling
    <2>. QED BY <1>1, <1>9, <2>1, AttemptOfJob DEF Inv, OneSender
  <1>18. NotYetCalled'
    BY <1>7, <1>10, <1>15, <1>17 DEF NotYetCalled, Inv
  <1>19. CallsRecorded'
    BY <1>2, <1>10 DEF Inv, CallsRecorded, Send, sending
  <1>20. AtMostOneCallPerAttempt'
    BY <1>2, <1>9, <1>10 DEF Inv, AtMostOneCallPerAttempt, Send, sending
  <1>. QED BY <1>11, <1>14, <1>16, <1>18, <1>19, <1>20 DEF Inv

LEMMA SaveCaseStep ==
  ASSUME Inv, NEW w \in Worker, SaveCase(w)
  PROVE  Inv'
  <1> DEFINE j == wk[w].job
             a == AttemptOf(j)
             t == TargetOf(j)
             seen == wk[w].seen
             unknown == wk[w].pc = "saveUnknown"
             rs == IF unknown THEN {"SEND_RESULT_UNKNOWN"} ELSE {"RECHECK_FAILED"}
             new == [wk[w] EXCEPT !.pc = "claim", !.seen = None]
  <1>1. wk[w].pc \in Handling /\ wk[w].pc \in Saving /\ (unknown => wk[w].pc \in Prepared)
    BY DEF SaveCase, Saving, Prepared, Handling
  <1>2. /\ j \in Job /\ job[j] # None /\ a \in Attempt /\ t \in Target
        /\ unknown => attempt[a] # None /\ outbox[j] # None
    BY <1>1, AttemptOfJob DEF Inv, RowsExist, RequestOK, TargetOf, Job
  <1>3. seen # None => cases[t] # None
    BY <1>1 DEF Inv, RowsExist, RequestOK
  <1>4. CASE seen = None /\ cases[t] # None
    <2>1. Become(w, [Fresh EXCEPT !.pc = "inbox"])
      BY <1>4, FreshIsInbox DEF SaveCase
    <2>2. UNCHANGED <<clock, flow, sending, outcome, inbox, responses, delivery, dialled>>
      BY <1>4 DEF SaveCase, outcome
    <2>3. crashes' \in 0..MaxCrashes BY DEF SaveCase, Inv, TypeOK
    <2>. QED BY <2>1, <2>2, <2>3, FreshRead
  <1>5. CASE ~(seen = None /\ cases[t] # None)
    <2>1. wk[w] \in RequestRow
      BY DEF Inv, TypeOK, RequestRow
    <2>2. new \in RequestRow /\ new.pc = "claim" /\ new.todo = wk[w].todo
      BY <2>1 DEF RequestRow, Pc
    <2>3. Become(w, new)
      BY <1>5 DEF SaveCase
    <2>4. /\ cases' \in [Target -> CaseRow \cup {None}]
          /\ \A u \in Target : cases[u] # None => cases'[u] # None
      <3>1. rs \in SUBSET Reason BY DEF Reason
      <3>2. cases' = cases \/ WriteCase(t, seen, rs)
        BY <1>5 DEF SaveCase
      <3>3. CASE cases' = cases BY <3>3 DEF Inv, TypeOK
      <3>4. CASE WriteCase(t, seen, rs)
        <4> DEFINE row == IF seen = None THEN Reasoned(None, rs)
                          ELSE [cases[t] EXCEPT !.reasons = Reasoned(seen, rs).reasons]
        <4> HIDE DEF rs
        <4>1. seen \in CaseRow \cup {None} BY <2>1 DEF RequestRow
        <4>2. Reasoned(None, rs) \in CaseRow /\ Reasoned(seen, rs) \in CaseRow
          BY <3>1, <4>1, ReasonedType
        <4>3. cases[t] \in CaseRow \cup {None} BY <1>2 DEF Inv, TypeOK
        <4>4. row \in CaseRow
          BY <1>3, <4>2, <4>3 DEF CaseRow
        <4>5. row # None BY <4>4, NoneAssumption
        <4>6. cases' = [cases EXCEPT ![t] = row]
          BY <3>4 DEF WriteCase, Inv, TypeOK
        <4> HIDE DEF row, t
        <4>. QED BY <1>2, <4>4, <4>5, <4>6 DEF Inv, TypeOK
      <3>. QED BY <3>2, <3>3, <3>4
    <2>5. /\ job' \in [Job -> JobRow \cup {None}]
          /\ \A k \in Job : job[k] # None => job'[k] # None
      <3>1. job' = job \/ job' = Put(j, "UNKNOWN") BY <1>5 DEF SaveCase, sending
      <3>2. CASE job' = job BY <3>2 DEF Inv, TypeOK
      <3>3. CASE job' = Put(j, "UNKNOWN") BY <1>2, <3>3, PutType DEF Inv, JobState
      <3>. QED BY <3>1, <3>2, <3>3
    <2>6. /\ outbox' \in [Job -> OutboxState \cup {None}]
          /\ \A k \in Job : outbox[k] # None => outbox'[k] # None
      <3>1. outbox' = outbox \/ outbox' = [outbox EXCEPT ![j] = "UNKNOWN"]
        BY <1>5 DEF SaveCase, sending
      <3>2. "UNKNOWN" \in OutboxState /\ "UNKNOWN" # None
        BY NoneAssumption DEF OutboxState
      <3>3. CASE outbox' = outbox BY <3>3 DEF Inv, TypeOK
      <3>4. CASE outbox' = [outbox EXCEPT ![j] = "UNKNOWN"]
        <4> HIDE DEF j
        <4>. QED BY <1>2, <3>2, <3>4 DEF Inv, TypeOK
      <3>. QED BY <3>1, <3>3, <3>4
    <2>7. /\ attempt' \in [Attempt -> AttemptRow \cup {None}]
          /\ \A b \in Attempt : attempt[b] # None => attempt'[b] # None
      <3>1. \/ attempt' = attempt
            \/ unknown /\ attempt' = [attempt EXCEPT ![a].call = "UNKNOWN"]
        <4>1. CASE unknown BY <1>5, <4>1 DEF SaveCase
        <4>2. CASE ~unknown
          <5>1. UNCHANGED sending BY <1>5, <4>2 DEF SaveCase
          <5>. QED BY <5>1 DEF sending
        <4>. QED BY <4>1, <4>2
      <3>2. CASE attempt' = attempt BY <3>2 DEF Inv, TypeOK
      <3>3. CASE unknown /\ attempt' = [attempt EXCEPT ![a].call = "UNKNOWN"]
        <4>1. "UNKNOWN" \in CallState BY DEF CallState
        <4>. QED BY <1>2, <3>3, <4>1, CallType DEF Inv
      <3>. QED BY <3>1, <3>2, <3>3
    <2> HIDE DEF new
    <2>8. wk' \in [Worker -> RequestRow] /\ wk'[w] = new
      BY <2>2, <2>3, BecomeType DEF Inv
    <2>9. TypeOK'
      BY <2>4, <2>5, <2>6, <2>7, <2>8 DEF SaveCase, Inv, TypeOK, RequestRow, flow
    <2>10. Grow BY <2>4, <2>5, <2>6, <2>7 DEF Grow
    <2>11. "claim" \notin Handling /\ "claim" \notin Prepared /\ "claim" \notin Sending
             /\ "claim" \notin Saving
      BY DEF Handling, Prepared, Sending, Saving
    <2>12. RequestOK(w)'
      <3>1. RequestOK(w) /\ wk[w].todo \subseteq Job
        BY <2>1 DEF Inv, RowsExist, RequestRow
      <3>. QED BY <2>2, <2>5, <2>8, <2>11, <3>1 DEF RequestOK
    <2>. QED
      BY <2>2, <2>3, <2>9, <2>10, <2>11, <2>12, RequestStep, InboxStillOK DEF SaveCase, Become
  <1>. QED BY <1>4, <1>5

-----------------------------------------------------------------------------
(* The theorems.                                                           *)

\* Every step keeps the invariant: one case per disjunct of Next.
LEMMA InvNext == Inv /\ [Next]_vars => Inv'
  <1> SUFFICES ASSUME Inv, [Next]_vars PROVE Inv'
    OBVIOUS
  <1>1. CASE QueueWorkflowRun BY <1>1, QueueStep
  <1>2. CASE SaveWorkflow BY <1>2, SaveWorkflowStep
  <1>3. CASE Tick BY <1>3, TickStep
  <1>4. ASSUME NEW t \in Target, NEW to \in StaffStatus, NEW v \in BOOLEAN,
               UpdateMunicipalCase(t, to, v)
        PROVE  Inv'
    BY <1>4, UpdateCaseStep
  <1>5. ASSUME NEW a \in Attempt, NEW e \in Event, AcceptProviderEvent(a, e) PROVE Inv'
    BY <1>5, ProviderEventStep
  <1>6. ASSUME NEW d \in Delivery, NEW a \in Attempt, CheckReceipt(d, a) PROVE Inv'
    BY <1>6, CheckReceiptStep
  <1>7. ASSUME NEW d \in Delivery, StoreReceipt(d) PROVE Inv'
    BY <1>7, StoreReceiptStep
  <1>8. ASSUME NEW w \in Worker, CronStep(w) PROVE Inv'
    <2>1. ASSUME NEW a \in Attempt, NEW e \in Event, ApplyEvent(w, a, e) PROVE Inv'
      BY <2>1, ApplyEventStep
    <2>2. CASE ReadExpired(w) BY <2>2, ReadExpiredStep
    <2>3. CASE ReadDue(w) BY <2>3, ReadDueStep
    <2>4. CASE StopClaiming(w) \/ EndRequest(w) BY <2>4, StopEndCrashStep
    <2>5. ASSUME NEW j \in Job, ReleaseExpired(w, j) PROVE Inv'
      BY <2>5, ReleaseStep
    <2>6. ASSUME NEW j \in Job, Claim(w, j) PROVE Inv'
      BY <2>6, ClaimStep
    <2>7. CASE Recheck(w) \/ RecheckAgain(w) BY <2>7, RecheckStep
    <2>8. CASE Refuse(w) BY <2>8, RefuseStep
    <2>9. CASE Prepare(w) BY <2>9, PrepareStep
    <2>10. CASE Send(w) BY <2>10, SendStep
    <2>11. CASE RecordReply(w) BY <2>11, RecordReplyStep
    <2>12. CASE ReadCase(w) BY <2>12, ReadCaseStep
    <2>13. CASE SaveCase(w) BY <2>13, SaveCaseStep
    <2>14. ASSUME NEW t \in Target, SettleDeadline(w, t) PROVE Inv'
      BY <2>14, SettleStep
    <2>. QED
      BY <1>8, <2>1, <2>2, <2>3, <2>4, <2>5, <2>6, <2>7, <2>8, <2>9, <2>10, <2>11, <2>12,
         <2>13, <2>14 DEF CronStep
  <1>9. ASSUME NEW w \in Worker, Crash(w) PROVE Inv'
    BY <1>9, StopEndCrashStep
  <1>10. CASE UNCHANGED vars
    <2>1. TypeOK' BY <1>10 DEF Inv, TypeOK, vars
    <2>2. Grow BY <1>10 DEF Grow, vars
    <2>. QED BY <1>10, <2>1, <2>2, OutsideStep, InboxStillOK, DeliveryStillOK DEF vars
  <1>. QED
    BY <1>1, <1>2, <1>3, <1>4, <1>5, <1>6, <1>7, <1>8, <1>9, <1>10 DEF Next

\* The rows of every table and what every cron request holds stay well formed,
\* however many requests overlap and wherever the host kills them.
THEOREM TypeCorrectness == Spec => []TypeOK
  <1>1. Inv => TypeOK BY DEF Inv
  <1>. QED BY <1>1, InvInit, InvNext, PTL DEF Spec

\* For any number of overlapping or killed cron requests, no citizen's phone
\* rings twice for one attempt, and no call is placed without its outbox row:
\* the unique attempt row decides who may send, and is never deleted.
THEOREM CitizenCalledOnce == Spec => []AtMostOneCallPerAttempt
  <1>1. Inv => AtMostOneCallPerAttempt BY DEF Inv
  <1>. QED BY <1>1, InvInit, InvNext, PTL DEF Spec

-----------------------------------------------------------------------------
(* What an answered call, and the answers given in it, lead to.  An        *)
(* attempt belongs to one request from its preparation to the reply; until *)
(* then it has no engagement, and no event of it is applied.               *)

OneHandler ==
  \A w, v \in Worker :
    w # v /\ wk[w].pc \in Prepared /\ wk[v].pc \in Prepared =>
      AttemptOf(wk[w].job) # AttemptOf(wk[v].job)

Unengaged ==
  \A w \in Worker :
    wk[w].pc \in Prepared => attempt[AttemptOf(wk[w].job)].engaged = FALSE

AnsweredEngaged ==
  \A a \in Attempt :
    attempt[a] # None /\ attempt[a].call = "ANSWERED" => attempt[a].engaged = TRUE

Handled == OneHandler /\ Unengaged /\ AnsweredEngaged
AnswerInv == Handled /\ OutcomeFollowsEvidence

\* What AnsweredIsFinal says of a step.
StaysAnswered ==
  \A a \in Attempt :
    attempt[a] # None /\ attempt[a].call = "ANSWERED" => attempt'[a].call = "ANSWERED"
\* No call becomes an answered one.
NoNewAnswer ==
  \A a \in Attempt :
    attempt'[a] # None /\ attempt'[a].call = "ANSWERED" =>
      attempt[a] # None /\ attempt[a].call = "ANSWERED"
\* Nobody enters the steps between preparation and reply.
NobodyPrepares ==
  \A v \in Worker :
    wk'[v].pc \in Prepared => wk[v].pc \in Prepared /\ wk'[v].job = wk[v].job

-----------------------------------------------------------------------------
(* The effects of a step on the attempts.                                  *)

LEMMA HandlerFacts ==
  ASSUME Inv, NEW w \in Worker, wk[w].pc \in Prepared
  PROVE  /\ wk[w].job \in Job
         /\ AttemptOf(wk[w].job) \in Attempt
         /\ attempt[AttemptOf(wk[w].job)] # None
  BY AttemptOfJob DEF Inv, RowsExist, RequestOK, Prepared, Handling

LEMMA AttemptsSame ==
  ASSUME Handled, UNCHANGED attempt, NobodyPrepares
  PROVE  Handled' /\ StaysAnswered /\ NoNewAnswer
  BY DEF Handled, OneHandler, Unengaged, AnsweredEngaged, StaysAnswered, NoNewAnswer,
         NobodyPrepares

\* The request that holds an attempt writes its row and lets go of it.
LEMMA HandlerLeaves ==
  ASSUME Inv, Handled, NEW w \in Worker, wk[w].pc \in Prepared, wk'[w].pc \notin Prepared,
         \A v \in Worker : v # w => wk'[v] = wk[v],
         NEW row, row.call # "ANSWERED",
         attempt' = [attempt EXCEPT ![AttemptOf(wk[w].job)] = row]
  PROVE  Handled' /\ StaysAnswered /\ NoNewAnswer
  <1> DEFINE a == AttemptOf(wk[w].job)
  <1>1. a \in Attempt /\ attempt[a] # None BY HandlerFacts
  <1>2. attempt[a].call # "ANSWERED"
    BY <1>1 DEF Handled, Unengaged, AnsweredEngaged
  <1>3. /\ attempt'[a] = row
        /\ \A b \in Attempt : b # a => attempt'[b] = attempt[b]
    BY <1>1 DEF Inv, TypeOK
  <1>4. \A v \in Worker : v # w /\ wk[v].pc \in Prepared =>
          AttemptOf(wk[v].job) \in Attempt /\ AttemptOf(wk[v].job) # a
    BY HandlerFacts DEF Handled, OneHandler
  <1> HIDE DEF a
  <1>5. OneHandler' BY DEF Handled, OneHandler
  <1>6. Unengaged'
    BY <1>3, <1>4 DEF Handled, Unengaged
  <1>7. AnsweredEngaged' BY <1>3 DEF Handled, AnsweredEngaged
  <1>8. StaysAnswered /\ NoNewAnswer
    BY <1>2, <1>3 DEF StaysAnswered, NoNewAnswer
  <1>. QED BY <1>5, <1>6, <1>7, <1>8 DEF Handled

LEMMA BecomeEffect ==
  ASSUME Inv, NEW w \in Worker, NEW new, Become(w, new)
  PROVE  wk'[w] = new /\ \A v \in Worker : v # w => wk'[v] = wk[v]
  BY DEF Inv, TypeOK, Become

\* Most steps of a request: it stays where it is or leaves, its job the same.
LEMMA RequestMoves ==
  ASSUME Inv, Handled, NEW w \in Worker, NEW new, Become(w, new), UNCHANGED attempt,
         new.pc \in Prepared => wk[w].pc \in Prepared /\ new.job = wk[w].job
  PROVE  Handled' /\ StaysAnswered /\ NoNewAnswer
  <1>1. NobodyPrepares BY BecomeEffect DEF NobodyPrepares
  <1>. QED BY <1>1, AttemptsSame

\* Where a request holds no attempt.
Ashore == {"inbox", "expire", "claim", "settle", "recheck", "prepare", "block", "saveBlocked"}

LEMMA RequestLeaves ==
  ASSUME Inv, Handled, NEW w \in Worker, NEW new, Become(w, new), UNCHANGED attempt,
         new.pc \in Ashore
  PROVE  Handled' /\ StaysAnswered /\ NoNewAnswer
  <1>1. new.pc \notin Prepared BY DEF Ashore, Prepared, Sending
  <1>. QED BY <1>1, RequestMoves

-----------------------------------------------------------------------------
(* Attempts: the actions.                                                  *)

LEMMA ReadsHandled ==
  ASSUME Inv, Handled, NEW w \in Worker,
         \/ ReadExpired(w) \/ ReadDue(w) \/ StopClaiming(w) \/ EndRequest(w) \/ Crash(w)
         \/ Recheck(w) \/ RecheckAgain(w) \/ Refuse(w) \/ ReadCase(w) \/ Send(w)
         \/ \E j \in Job : ReleaseExpired(w, j) \/ Claim(w, j)
  PROVE  Handled' /\ StaysAnswered /\ NoNewAnswer
  <1>0. wk[w] \in RequestRow BY DEF Inv, TypeOK, RequestRow
  <1>1. UNCHANGED attempt
    BY DEF ReadExpired, ReadDue, StopClaiming, EndRequest, Crash, Recheck, RecheckAgain, Refuse,
           ReadCase, Send, ReleaseExpired, Claim, sending
  <1>2. CASE ReadExpired(w) \/ StopClaiming(w)
    <2> DEFINE expired == {j \in Job : JobIn(j, "CLAIMED") /\ job[j].until < clock}
               new == [Fresh EXCEPT !.pc = "expire", !.now = clock, !.todo = expired,
                                    !.posted = {j \in expired : outbox[j] # None}]
    <2>1. new.pc = "expire" BY DEF Fresh
    <2>2. [Fresh EXCEPT !.pc = "settle"].pc = "settle" BY DEF Fresh
    <2>3. CASE ReadExpired(w)
      <3>1. Become(w, new) BY <2>3 DEF ReadExpired
      <3> HIDE DEF new
      <3>. QED BY <1>1, <2>1, <3>1, RequestLeaves DEF Ashore
    <2>4. CASE StopClaiming(w) BY <1>1, <2>2, <2>4, RequestLeaves DEF StopClaiming, Ashore
    <2>. QED BY <1>2, <2>3, <2>4
  <1>3. CASE EndRequest(w) \/ Crash(w)
    <2>1. Become(w, Fresh) BY <1>3 DEF EndRequest, Crash
    <2>2. Fresh.pc \in Ashore BY DEF Fresh, Ashore
    <2>. QED BY <1>1, <2>1, <2>2, RequestLeaves
  <1>4. CASE ReadDue(w)
    <2> DEFINE due == {j \in Job : JobIn(j, "PENDING") /\ DueSlot(j) <= wk[w].now}
               new == [wk[w] EXCEPT !.pc = "claim", !.posted = {}, !.todo = due]
    <2>1. new.pc = "claim" BY <1>0 DEF RequestRow
    <2>2. Become(w, new) BY <1>4 DEF ReadDue
    <2> HIDE DEF new
    <2>. QED BY <1>1, <2>1, <2>2, RequestLeaves DEF Ashore
  <1>5. CASE Recheck(w) \/ Refuse(w)
    <2>1. PICK pc \in {"prepare", "block"} : Become(w, [wk[w] EXCEPT !.pc = pc])
      BY <1>5 DEF Recheck, Refuse, Go
    <2>2. [wk[w] EXCEPT !.pc = pc].pc = pc BY <1>0 DEF RequestRow
    <2>. QED BY <1>1, <2>1, <2>2, RequestLeaves DEF Ashore
  <1>6. ASSUME NEW j \in Job, ReleaseExpired(w, j) PROVE Handled' /\ StaysAnswered /\ NoNewAnswer
    <2>1. Become(w, [wk[w] EXCEPT !.todo = @ \ {j}]) BY <1>6 DEF ReleaseExpired
    <2>2. [wk[w] EXCEPT !.todo = @ \ {j}].pc = wk[w].pc BY <1>0 DEF RequestRow
    <2>. QED BY <1>1, <1>6, <2>1, <2>2, RequestLeaves DEF ReleaseExpired, Ashore
  <1>7. ASSUME NEW j \in Job, Claim(w, j) PROVE Handled' /\ StaysAnswered /\ NoNewAnswer
    <2>1. /\ [wk[w] EXCEPT !.todo = @ \ {j}].pc = wk[w].pc
          /\ [wk[w] EXCEPT !.pc = "recheck", !.job = j, !.todo = @ \ {j}].pc = "recheck"
      BY <1>0 DEF RequestRow
    <2>2. \/ Become(w, [wk[w] EXCEPT !.todo = @ \ {j}])
          \/ Become(w, [wk[w] EXCEPT !.pc = "recheck", !.job = j, !.todo = @ \ {j}])
      BY <1>7 DEF Claim
    <2>3. wk[w].pc = "claim" BY <1>7 DEF Claim
    <2>. QED BY <1>1, <2>1, <2>2, <2>3, RequestLeaves DEF Ashore
  <1>8. CASE RecheckAgain(w) \/ Send(w)
    <2>1. PICK pc \in {"send", "catch", "accepted", "unclear"} : Become(w, [wk[w] EXCEPT !.pc = pc])
      BY <1>8 DEF RecheckAgain, Send, Go
    <2>2. wk[w].pc \in Prepared BY <1>8 DEF RecheckAgain, Send, Prepared, Sending
    <2>3. [wk[w] EXCEPT !.pc = pc].job = wk[w].job BY <1>0 DEF RequestRow
    <2>. QED BY <1>1, <2>1, <2>2, <2>3, RequestMoves
  <1>9. CASE ReadCase(w)
    <2> DEFINE new == [wk[w] EXCEPT !.seen = cases[TargetOf(wk[w].job)],
                         !.pc = IF @ = "block" THEN "saveBlocked" ELSE "saveUnknown"]
    <2>1. Become(w, new) BY <1>9 DEF ReadCase
    <2>2. new.job = wk[w].job /\ (wk[w].pc = "block" => new.pc = "saveBlocked")
      BY <1>0 DEF RequestRow
    <2>3. "saveBlocked" \notin Prepared BY DEF Prepared, Sending
    <2>4. wk[w].pc = "block" \/ wk[w].pc \in Prepared BY <1>9 DEF ReadCase, Prepared
    <2> HIDE DEF new
    <2>. QED BY <1>1, <2>1, <2>2, <2>3, <2>4, RequestMoves
  <1>. QED BY <1>2, <1>3, <1>4, <1>5, <1>6, <1>7, <1>8, <1>9

LEMMA PrepareHandled ==
  ASSUME Inv, Handled, NEW w \in Worker, Prepare(w)
  PROVE  Handled' /\ StaysAnswered /\ NoNewAnswer
  <1> DEFINE j == wk[w].job
             a == AttemptOf(j)
             row == [call |-> "QUEUED", engaged |-> FALSE]
  <1>0. wk[w] \in RequestRow BY DEF Inv, TypeOK, RequestRow
  <1>1. CASE ~(attempt[a] = None /\ outbox[j] = None)
    <2>1. Become(w, Fresh) /\ UNCHANGED attempt BY <1>1 DEF Prepare
    <2>2. Fresh.pc \notin Prepared BY DEF Fresh, Prepared, Sending
    <2>. QED BY <2>1, <2>2, RequestMoves
  <1>2. CASE attempt[a] = None /\ outbox[j] = None
    <2>1. attempt' = [attempt EXCEPT ![a] = row] /\ Become(w, [wk[w] EXCEPT !.pc = "recheckAgain"])
      BY <1>2 DEF Prepare, Go
    <2>2. a \in Attempt
      BY AttemptOfJob DEF Prepare, Inv, RowsExist, RequestOK, Handling
    <2>3. /\ wk'[w].job = j
          /\ \A v \in Worker : v # w => wk'[v] = wk[v]
      BY <1>0, <2>1, BecomeEffect DEF RequestRow
    <2>4. row.engaged = FALSE /\ row.call # "ANSWERED" OBVIOUS
    <2>5. AttemptOf(j) = a OBVIOUS
    <2>6. \A v \in Worker : v # w /\ wk[v].pc \in Prepared =>
            AttemptOf(wk[v].job) \in Attempt /\ AttemptOf(wk[v].job) # a
      BY <1>2, HandlerFacts
    <2> HIDE DEF a, j, row
    <2>7. attempt'[a] = row /\ \A b \in Attempt : b # a => attempt'[b] = attempt[b]
      BY <2>1, <2>2 DEF Inv, TypeOK
    <2>8. OneHandler' BY <2>3, <2>5, <2>6 DEF Handled, OneHandler
    <2>9. Unengaged' BY <2>3, <2>4, <2>5, <2>6, <2>7 DEF Handled, Unengaged
    <2>10. AnsweredEngaged' BY <2>4, <2>7 DEF Handled, AnsweredEngaged
    <2>11. StaysAnswered /\ NoNewAnswer
      BY <1>2, <2>4, <2>7 DEF StaysAnswered, NoNewAnswer
    <2>. QED BY <2>8, <2>9, <2>10, <2>11 DEF Handled
  <1>. QED BY <1>1, <1>2

LEMMA RecordReplyHandled ==
  ASSUME Inv, Handled, NEW w \in Worker, RecordReply(w)
  PROVE  Handled' /\ StaysAnswered /\ NoNewAnswer
  <1> DEFINE a == AttemptOf(wk[w].job)
             accepted == wk[w].pc = "accepted"
  <1>0. wk[w] \in RequestRow BY DEF Inv, TypeOK, RequestRow
  <1>1. wk[w].pc \in Prepared BY DEF RecordReply, Prepared
  <1>2. CASE Go(w, "catch") /\ UNCHANGED sending
    <2>1. [wk[w] EXCEPT !.pc = "catch"].job = wk[w].job BY <1>0 DEF RequestRow
    <2>. QED BY <1>1, <1>2, <2>1, RequestMoves DEF Go, sending
  <1>3. CASE /\ \E known \in BOOLEAN :
                  attempt' = [attempt EXCEPT ![a] =
                    [call |-> IF accepted THEN "QUEUED" ELSE "UNKNOWN", engaged |-> known]]
             /\ Go(w, "claim")
    <2>1. PICK known \in BOOLEAN : attempt' = [attempt EXCEPT ![a] =
              [call |-> IF accepted THEN "QUEUED" ELSE "UNKNOWN", engaged |-> known]]
      BY <1>3
    <2>2. [call |-> IF accepted THEN "QUEUED" ELSE "UNKNOWN", engaged |-> known].call # "ANSWERED"
      OBVIOUS
    <2>3. wk'[w].pc = "claim" /\ \A v \in Worker : v # w => wk'[v] = wk[v]
      BY <1>0, <1>3, BecomeEffect DEF Go, RequestRow
    <2>4. "claim" \notin Prepared BY DEF Prepared, Sending
    <2>. QED BY <1>1, <2>1, <2>2, <2>3, <2>4, HandlerLeaves
  <1>. QED BY <1>2, <1>3 DEF RecordReply

LEMMA SaveCaseHandled ==
  ASSUME Inv, Handled, NEW w \in Worker, SaveCase(w)
  PROVE  Handled' /\ StaysAnswered /\ NoNewAnswer
  <1> DEFINE a == AttemptOf(wk[w].job)
             new == [wk[w] EXCEPT !.pc = "claim", !.seen = None]
  <1>0. wk[w] \in RequestRow BY DEF Inv, TypeOK, RequestRow
  <1>1. new.pc = "claim" BY <1>0 DEF RequestRow
  <1>2. "claim" \notin Prepared /\ Fresh.pc \notin Prepared BY DEF Fresh, Prepared, Sending
  <1>3. CASE Become(w, Fresh) /\ UNCHANGED attempt
    BY <1>2, <1>3, RequestMoves
  <1>4. CASE Become(w, new) /\ UNCHANGED attempt
    BY <1>1, <1>2, <1>4, RequestMoves
  <1>5. CASE /\ wk[w].pc = "saveUnknown" /\ Become(w, new)
             /\ attempt' = [attempt EXCEPT ![a].call = "UNKNOWN"]
    <2>1. wk[w].pc \in Prepared BY <1>5 DEF Prepared
    <2>2. a \in Attempt /\ attempt[a] # None BY <2>1, HandlerFacts
    <2>3. attempt[a] \in AttemptRow BY <2>2 DEF Inv, TypeOK
    <2>4. [attempt[a] EXCEPT !.call = "UNKNOWN"].call # "ANSWERED" BY <2>3 DEF AttemptRow
    <2>5. attempt' = [attempt EXCEPT ![a] = [attempt[a] EXCEPT !.call = "UNKNOWN"]]
      BY <1>5
    <2>6. wk'[w].pc \notin Prepared /\ \A v \in Worker : v # w => wk'[v] = wk[v]
      BY <1>1, <1>2, <1>5, BecomeEffect
    <2>. QED BY <2>1, <2>4, <2>5, <2>6, HandlerLeaves
  <1>. QED BY <1>3, <1>4, <1>5 DEF SaveCase, sending

LEMMA ApplyEventHandled ==
  ASSUME Inv, Handled, NEW w \in Worker, NEW a \in Attempt, NEW e \in Event, ApplyEvent(w, a, e)
  PROVE  Handled' /\ StaysAnswered
  <1> DEFINE call == NextCallState(attempt[a].call, e)
  <1>1. CASE UNCHANGED attempt
    <2>1. NobodyPrepares BY DEF ApplyEvent, NobodyPrepares
    <2>. QED BY <1>1, <2>1, AttemptsSame
  <1>2. CASE attempt[a].engaged /\ attempt' = [attempt EXCEPT ![a].call = call]
    <2>1. attempt[a] # None /\ attempt[a] \in AttemptRow
      BY NoneAssumption DEF ApplyEvent, Inv, RowsExist, InboxOK, TypeOK, InboxState
    <2>2. attempt[a].engaged = TRUE BY <1>2, <2>1 DEF AttemptRow
    <2>3. attempt[a].call = "ANSWERED" => call = "ANSWERED"
      BY DEF NextCallState
    <2> DEFINE row == [attempt[a] EXCEPT !.call = call]
    <2>4. row.call = call /\ row.engaged = TRUE BY <2>1, <2>2 DEF AttemptRow
    <2>5. attempt' = [attempt EXCEPT ![a] = row] BY <1>2
    <2>6. UNCHANGED wk BY DEF ApplyEvent
    <2>7. \A v \in Worker : wk[v].pc \in Prepared =>
            AttemptOf(wk[v].job) \in Attempt /\ AttemptOf(wk[v].job) # a
      BY <2>2, HandlerFacts DEF Handled, Unengaged
    <2> HIDE DEF row, call
    <2>8. attempt'[a] = row /\ \A b \in Attempt : b # a => attempt'[b] = attempt[b]
      BY <2>5 DEF Inv, TypeOK
    <2>9. OneHandler' BY <2>6 DEF Handled, OneHandler
    <2>10. Unengaged' BY <2>6, <2>7, <2>8 DEF Handled, Unengaged
    <2>11. AnsweredEngaged' BY <2>4, <2>8 DEF Handled, AnsweredEngaged
    <2>12. StaysAnswered BY <2>3, <2>4, <2>8 DEF StaysAnswered
    <2>. QED BY <2>9, <2>10, <2>11, <2>12 DEF Handled
  <1>. QED BY <1>1, <1>2 DEF ApplyEvent

\* Staff, citizens, provider and time change no attempt and move no request.
LEMMA OutsideHandled ==
  ASSUME Handled, UNCHANGED <<attempt, wk>>
  PROVE  Handled' /\ StaysAnswered /\ NoNewAnswer
  <1>1. NobodyPrepares BY DEF NobodyPrepares
  <1>. QED BY <1>1, AttemptsSame

-----------------------------------------------------------------------------
(* What an answer leads to.                                                *)

\* Cases are made, never deleted; targets leave PENDING and never come back.
OutcomesGrow ==
  /\ \A t \in Target : cases[t] # None => cases'[t] # None
  /\ \A t \in Target : state[t] # "PENDING" => state'[t] # "PENDING"

LEMMA OutcomeKept ==
  ASSUME OutcomeFollowsEvidence, NoNewAnswer, OutcomesGrow, UNCHANGED responses
  PROVE  OutcomeFollowsEvidence'
  <1>1. \A a \in Attempt : a[1] \in Target BY DEF Attempt
  <1>. QED BY <1>1 DEF OutcomeFollowsEvidence, NoNewAnswer, OutcomesGrow

LEMMA ReasonedExists ==
  ASSUME Inv, NEW t \in Target, NEW rs \in SUBSET Reason
  PROVE  /\ \A u \in Target : cases[u] # None => EnsureCase(t, rs)[u] # None
         /\ EnsureCase(t, rs)[t] # None
  <1>1. cases[t] \in CaseRow \cup {None} BY DEF Inv, TypeOK
  <1>2. Reasoned(cases[t], rs) # None BY <1>1, ReasonedType
  <1>. QED BY <1>2 DEF EnsureCase, Inv, TypeOK

LEMMA OutcomeApplied ==
  ASSUME Inv, NEW t \in Target, NEW evidence, ApplyOutcome(t, evidence)
  PROVE  /\ OutcomesGrow
         /\ evidence \in NeedsStaff => cases'[t] # None
         /\ evidence \in {"confirmed", "planned"} => state'[t] # "PENDING"
  <1>1. {"ANSWER"} \in SUBSET Reason BY DEF Reason
  <1>2. /\ \A u \in Target : cases[u] # None => cases'[u] # None
        /\ evidence \in NeedsStaff => cases'[t] # None
    BY <1>1, ReasonedExists DEF ApplyOutcome
  <1>3. /\ \A u \in Target : state[u] # "PENDING" => state'[u] # "PENDING"
        /\ evidence \in {"confirmed", "planned"} => state'[t] # "PENDING"
    BY DEF ApplyOutcome, Inv, TypeOK
  <1>. QED BY <1>2, <1>3 DEF OutcomesGrow

LEMMA EvidenceClass ==
  ASSUME NEW log \in Seq(Response), log # <<>>
  PROVE  /\ Evidence("ANSWERED", log) = Latest(log).class
         /\ Latest(log).class \in NeedsStaff \cup {"confirmed", "planned"}
  <1>1. Latest(log) \in Response BY DEF Latest
  <1>. QED BY <1>1 DEF Evidence, Response, AnswerClass, NeedsStaff

LEMMA StoreReceiptOutcome ==
  ASSUME Inv, OutcomeFollowsEvidence, NEW d \in Delivery, StoreReceipt(d)
  PROVE  OutcomeFollowsEvidence'
  <1> DEFINE a == delivery[d].attempt
             response == [receipt |-> ReceiptOf[d], class |-> delivery[d].answer]
             log == Append(responses[a], response)
             evidence == Evidence(attempt[a].call, log)
  <1>0. UNCHANGED attempt BY DEF StoreReceipt
  <1>1. a \in Attempt /\ a[1] \in Target /\ delivery[d].answer \in AnswerClass
    BY DEF StoreReceipt, Inv, RowsExist, DeliveryOK, Attempt
  <1>2. CASE UNCHANGED <<responses, outcome>>
    <2>1. OutcomesGrow BY <1>2 DEF outcome, OutcomesGrow
    <2>2. NoNewAnswer BY <1>0 DEF NoNewAnswer
    <2>. QED BY <1>2, <2>1, <2>2, OutcomeKept
  <1>3. CASE responses' = [responses EXCEPT ![a] = log] /\ ApplyOutcome(a[1], evidence)
    <2>1. response \in Response BY <1>1 DEF Response
    <2>2. log \in Seq(Response) /\ log # <<>>
      <3>1. responses[a] \in Seq(Response) BY <1>1 DEF Inv, TypeOK
      <3> HIDE DEF response, a
      <3>. QED BY <2>1, <3>1
    <2>3. /\ OutcomesGrow
          /\ evidence \in NeedsStaff => cases'[a[1]] # None
          /\ evidence \in {"confirmed", "planned"} => state'[a[1]] # "PENDING"
      BY <1>1, <1>3, OutcomeApplied
    <2>4. attempt[a].call = "ANSWERED" =>
            evidence = Latest(log).class /\ evidence \in NeedsStaff \cup {"confirmed", "planned"}
      BY <2>2, EvidenceClass
    <2> HIDE DEF evidence, log, a
    <2>5. responses'[a] = log /\ \A b \in Attempt : b # a => responses'[b] = responses[b]
      BY <1>1, <1>3 DEF Inv, TypeOK
    <2> SUFFICES ASSUME NEW b \in Attempt, attempt'[b] # None, attempt'[b].call = "ANSWERED",
                        responses'[b] # <<>>
                 PROVE  IF Latest(responses'[b]).class \in NeedsStaff
                          THEN cases'[b[1]] # None
                          ELSE state'[b[1]] # "PENDING"
      BY DEF OutcomeFollowsEvidence, Latest
    <2>6. CASE b = a
      BY <1>0, <2>3, <2>4, <2>5, <2>6 DEF NeedsStaff
    <2>7. CASE b # a
      <3>1. b[1] \in Target BY DEF Attempt
      <3>. QED BY <1>0, <2>3, <2>5, <2>7, <3>1 DEF OutcomeFollowsEvidence, OutcomesGrow
    <2>. QED BY <2>6, <2>7
  <1>. QED BY <1>2, <1>3 DEF StoreReceipt

LEMMA ApplyEventOutcome ==
  ASSUME Inv, OutcomeFollowsEvidence, NEW w \in Worker, NEW a \in Attempt, NEW e \in Event,
         ApplyEvent(w, a, e)
  PROVE  OutcomeFollowsEvidence'
  <1> DEFINE call == NextCallState(attempt[a].call, e)
             evidence == Evidence(call, responses[a])
  <1>0. UNCHANGED responses BY DEF ApplyEvent
  <1>1. a[1] \in Target BY DEF Attempt
  <1>2. CASE UNCHANGED <<attempt, outcome>>
    <2>1. OutcomesGrow BY <1>2 DEF outcome, OutcomesGrow
    <2>2. NoNewAnswer BY <1>2 DEF NoNewAnswer
    <2>. QED BY <1>0, <2>1, <2>2, OutcomeKept
  <1>3. CASE attempt' = [attempt EXCEPT ![a].call = call]
    <2>1. attempt[a] # None /\ attempt[a] \in AttemptRow
      BY NoneAssumption DEF ApplyEvent, Inv, RowsExist, InboxOK, TypeOK, InboxState
    <2> DEFINE row == [attempt[a] EXCEPT !.call = call]
    <2>2. row.call = call BY <2>1 DEF AttemptRow
    <2>3. attempt' = [attempt EXCEPT ![a] = row] BY <1>3
    <2> HIDE DEF row
    <2>4. attempt'[a] = row /\ \A b \in Attempt : b # a => attempt'[b] = attempt[b]
      BY <2>3 DEF Inv, TypeOK
    <2>5. CASE call = "ANSWERED" /\ ApplyOutcome(a[1], evidence)
      <3>1. /\ OutcomesGrow
            /\ evidence \in NeedsStaff => cases'[a[1]] # None
            /\ evidence \in {"confirmed", "planned"} => state'[a[1]] # "PENDING"
        BY <1>1, <2>5, OutcomeApplied
      <3>2. responses[a] # <<>> =>
              /\ evidence = Latest(responses[a]).class
              /\ evidence \in NeedsStaff \cup {"confirmed", "planned"}
        BY <2>5, EvidenceClass DEF Inv, TypeOK
      <3> HIDE DEF evidence, call
      <3> SUFFICES ASSUME NEW b \in Attempt, attempt'[b] # None, attempt'[b].call = "ANSWERED",
                          responses[b] # <<>>
                   PROVE  IF Latest(responses[b]).class \in NeedsStaff
                            THEN cases'[b[1]] # None
                            ELSE state'[b[1]] # "PENDING"
        BY <1>0 DEF OutcomeFollowsEvidence, Latest
      <3>3. CASE b = a BY <3>1, <3>2, <3>3 DEF NeedsStaff
      <3>4. CASE b # a
        <4>1. b[1] \in Target BY DEF Attempt
        <4>. QED BY <2>4, <3>1, <3>4, <4>1 DEF OutcomeFollowsEvidence, OutcomesGrow
      <3>. QED BY <3>3, <3>4
    <2>6. CASE call # "ANSWERED" /\ ScheduleRetry(a, call) /\ UNCHANGED state
      <3>1. {"RETRY_LIMIT_REACHED"} \in SUBSET Reason BY DEF Reason
      <3>2. OutcomesGrow
        BY <1>1, <2>6, <3>1, ReasonedExists DEF ScheduleRetry, OutcomesGrow
      <3>3. NoNewAnswer BY <2>2, <2>4, <2>6 DEF NoNewAnswer
      <3>. QED BY <1>0, <3>2, <3>3, OutcomeKept
    <2>. QED BY <1>2, <1>3, <2>5, <2>6 DEF ApplyEvent
  <1>. QED BY <1>2, <1>3 DEF ApplyEvent

LEMMA SaveCaseOutcome ==
  ASSUME Inv, OutcomeFollowsEvidence, NoNewAnswer, NEW w \in Worker, SaveCase(w)
  PROVE  OutcomeFollowsEvidence'
  <1> DEFINE t == TargetOf(wk[w].job)
             seen == wk[w].seen
             rs == IF wk[w].pc = "saveUnknown" THEN {"SEND_RESULT_UNKNOWN"} ELSE {"RECHECK_FAILED"}
  <1>1. UNCHANGED <<responses, state>> BY DEF SaveCase
  <1>2. /\ t \in Target
        /\ seen # None => cases[t] # None
        /\ seen \in CaseRow \cup {None}
        /\ rs \in SUBSET Reason
    <2>1. wk[w].pc \in Saving /\ wk[w].pc \in Handling
      BY DEF SaveCase, Saving, Prepared, Handling
    <2>2. wk[w] \in RequestRow BY DEF Inv, TypeOK, RequestRow
    <2>3. t \in Target BY <2>1 DEF Inv, RowsExist, RequestOK, Job, TargetOf
    <2>4. seen \in CaseRow \cup {None} BY <2>2 DEF RequestRow
    <2>5. seen # None => cases[t] # None BY <2>1 DEF Inv, RowsExist, RequestOK
    <2>6. rs \in SUBSET Reason BY DEF Reason
    <2>. QED BY <2>3, <2>4, <2>5, <2>6
  <1>3. CASE UNCHANGED cases
    <2>1. OutcomesGrow BY <1>1, <1>3 DEF OutcomesGrow
    <2>. QED BY <1>1, <2>1, OutcomeKept
  <1>4. CASE WriteCase(t, seen, rs)
    <2> DEFINE row == IF seen = None THEN Reasoned(None, rs)
                      ELSE [cases[t] EXCEPT !.reasons = Reasoned(seen, rs).reasons]
    <2>1. cases' = [cases EXCEPT ![t] = row] BY <1>4 DEF WriteCase
    <2>2. row # None
      <3>1. CASE seen = None BY <1>2, <3>1, ReasonedType
      <3>2. CASE seen # None
        <4>1. Reasoned(seen, rs) \in CaseRow BY <1>2, ReasonedType
        <4>2. cases[t] \in CaseRow BY <1>2, <3>2 DEF Inv, TypeOK
        <4>3. [cases[t] EXCEPT !.reasons = Reasoned(seen, rs).reasons] \in CaseRow
          BY <4>1, <4>2 DEF CaseRow
        <4>. QED BY <3>2, <4>3, NoneAssumption
      <3>. QED BY <3>1, <3>2
    <2> HIDE DEF row, t
    <2>3. OutcomesGrow BY <1>1, <2>1, <2>2 DEF OutcomesGrow, Inv, TypeOK
    <2>. QED BY <1>1, <2>3, OutcomeKept
  <1>. QED BY <1>3, <1>4 DEF SaveCase, WriteCase

LEMMA UpdateCaseOutcome ==
  ASSUME Inv, OutcomeFollowsEvidence, NoNewAnswer,
         NEW t \in Target, NEW to \in StaffStatus, NEW v \in BOOLEAN, UpdateMunicipalCase(t, to, v)
  PROVE  OutcomeFollowsEvidence'
  <1> DEFINE row == [cases[t] EXCEPT !.status = to]
  <1>1. row \in CaseRow
    BY StaffAssumption DEF UpdateMunicipalCase, Inv, TypeOK, CaseRow
  <1>2. row # None BY <1>1, NoneAssumption
  <1>3. cases' = [cases EXCEPT ![t] = row] BY DEF UpdateMunicipalCase
  <1> HIDE DEF row
  <1>4. UNCHANGED <<responses, state>> BY DEF UpdateMunicipalCase
  <1>5. OutcomesGrow BY <1>2, <1>3, <1>4 DEF OutcomesGrow, Inv, TypeOK
  <1>. QED BY <1>4, <1>5, OutcomeKept

LEMMA SettleOutcome ==
  ASSUME Inv, OutcomeFollowsEvidence, NoNewAnswer,
         NEW w \in Worker, NEW t \in Target, SettleDeadline(w, t)
  PROVE  OutcomeFollowsEvidence'
  <1>1. {"DEADLINE_REACHED"} \in SUBSET Reason BY DEF Reason
  <1>2. OutcomesGrow BY <1>1, ReasonedExists DEF SettleDeadline, OutcomesGrow
  <1>3. UNCHANGED responses BY DEF SettleDeadline
  <1>. QED BY <1>2, <1>3, OutcomeKept

LEMMA OthersOutcome ==
  ASSUME OutcomeFollowsEvidence, NoNewAnswer, UNCHANGED <<responses, outcome>>
  PROVE  OutcomeFollowsEvidence'
  <1>1. OutcomesGrow BY DEF outcome, OutcomesGrow
  <1>. QED BY <1>1, OutcomeKept

-----------------------------------------------------------------------------
(* The theorems.                                                           *)

LEMMA AnswerInit == Init => AnswerInv
  BY DEF Init, AnswerInv, Handled, OneHandler, Unengaged, AnsweredEngaged,
         OutcomeFollowsEvidence, Fresh, Prepared, Sending

LEMMA AnswerNext ==
  ASSUME Inv, AnswerInv, [Next]_vars
  PROVE  AnswerInv' /\ StaysAnswered
  <1> USE DEF AnswerInv
  <1>1. CASE QueueWorkflowRun \/ SaveWorkflow \/ Tick
    <2>1. UNCHANGED <<attempt, wk, responses, outcome>>
      BY <1>1 DEF QueueWorkflowRun, SaveWorkflow, Tick, sending, outcome
    <2>. QED BY <2>1, OutsideHandled, OthersOutcome
  <1>2. ASSUME NEW t \in Target, NEW to \in StaffStatus, NEW v \in BOOLEAN,
               UpdateMunicipalCase(t, to, v)
        PROVE  AnswerInv' /\ StaysAnswered
    <2>1. UNCHANGED <<attempt, wk>> BY <1>2 DEF UpdateMunicipalCase
    <2>. QED BY <1>2, <2>1, OutsideHandled, UpdateCaseOutcome
  <1>3. ASSUME NEW a \in Attempt, NEW e \in Event, AcceptProviderEvent(a, e)
        PROVE  AnswerInv' /\ StaysAnswered
    <2>1. UNCHANGED <<attempt, wk, responses, outcome>>
      BY <1>3 DEF AcceptProviderEvent, sending, outcome
    <2>. QED BY <2>1, OutsideHandled, OthersOutcome
  <1>4. ASSUME NEW d \in Delivery, NEW a \in Attempt, CheckReceipt(d, a)
        PROVE  AnswerInv' /\ StaysAnswered
    <2>1. UNCHANGED <<attempt, wk, responses, outcome>>
      BY <1>4 DEF CheckReceipt, sending, outcome
    <2>. QED BY <2>1, OutsideHandled, OthersOutcome
  <1>5. ASSUME NEW d \in Delivery, StoreReceipt(d)
        PROVE  AnswerInv' /\ StaysAnswered
    <2>1. UNCHANGED <<attempt, wk>> BY <1>5 DEF StoreReceipt
    <2>. QED BY <1>5, <2>1, OutsideHandled, StoreReceiptOutcome
  <1>6. ASSUME NEW w \in Worker, NEW a \in Attempt, NEW e \in Event, ApplyEvent(w, a, e)
        PROVE  AnswerInv' /\ StaysAnswered
    BY <1>6, ApplyEventHandled, ApplyEventOutcome
  <1>7. ASSUME NEW w \in Worker,
               \/ ReadExpired(w) \/ ReadDue(w) \/ StopClaiming(w) \/ EndRequest(w) \/ Crash(w)
               \/ Recheck(w) \/ RecheckAgain(w) \/ Refuse(w) \/ ReadCase(w) \/ Send(w)
               \/ \E j \in Job : ReleaseExpired(w, j) \/ Claim(w, j)
        PROVE  AnswerInv' /\ StaysAnswered
    <2>1. UNCHANGED <<responses, outcome>>
      BY <1>7 DEF ReadExpired, ReadDue, StopClaiming, EndRequest, Crash, Recheck, RecheckAgain,
             Refuse, ReadCase, Send, ReleaseExpired, Claim
    <2>. QED BY <1>7, <2>1, ReadsHandled, OthersOutcome
  <1>8. ASSUME NEW w \in Worker, Prepare(w) \/ RecordReply(w)
        PROVE  AnswerInv' /\ StaysAnswered
    <2>1. UNCHANGED <<responses, outcome>> BY <1>8 DEF Prepare, RecordReply
    <2>. QED BY <1>8, <2>1, PrepareHandled, RecordReplyHandled, OthersOutcome
  <1>9. ASSUME NEW w \in Worker, SaveCase(w)
        PROVE  AnswerInv' /\ StaysAnswered
    BY <1>9, SaveCaseHandled, SaveCaseOutcome
  <1>10. ASSUME NEW w \in Worker, NEW t \in Target, SettleDeadline(w, t)
         PROVE  AnswerInv' /\ StaysAnswered
    <2>1. UNCHANGED <<attempt, wk>> BY <1>10 DEF SettleDeadline
    <2>. QED BY <1>10, <2>1, OutsideHandled, SettleOutcome
  <1>11. CASE UNCHANGED vars
    <2>1. UNCHANGED <<attempt, wk, responses, outcome>> BY <1>11 DEF vars, outcome
    <2>. QED BY <2>1, OutsideHandled, OthersOutcome
  <1>. QED
    BY <1>1, <1>2, <1>3, <1>4, <1>5, <1>6, <1>7, <1>8, <1>9, <1>10, <1>11 DEF Next, CronStep

\* Event and receipt, revision, crash and deadline in any order, for any number of
\* requests and receipts, contradictory ones included: an answered call with an
\* answer has reached the staff or has settled its target.
THEOREM EvidenceReachesOutcome == Spec => []OutcomeFollowsEvidence
  <1>1. Inv /\ AnswerInv /\ [Next]_vars => AnswerInv' BY AnswerNext
  <1>2. AnswerInv => OutcomeFollowsEvidence BY DEF AnswerInv
  <1>. QED BY <1>1, <1>2, AnswerInit, InvInit, InvNext, PTL DEF Spec

\* No reply recorded late, no failed send and no reordered event makes an answered
\* call unanswered: the request that may still write an attempt is the one that
\* prepared it, and before its reply the attempt has no engagement to be answered.
THEOREM AnswersAreFinal == Spec => AnsweredIsFinal
  <1>1. Inv /\ AnswerInv /\ [Next]_vars => AnswerInv' BY AnswerNext
  <1>2. Inv /\ AnswerInv /\ [Next]_vars =>
          [\A a \in Attempt : attempt[a] # None /\ attempt[a].call = "ANSWERED" =>
             attempt'[a].call = "ANSWERED"]_vars
    BY AnswerNext DEF StaysAnswered
  <1>. QED BY <1>1, <1>2, AnswerInit, InvInit, InvNext, PTL DEF Spec, AnsweredIsFinal

-----------------------------------------------------------------------------
(* Retries.  A call known to have failed, or to be answered, stays so: it  *)
(* has an engagement, and the requests that may still write an attempt     *)
(* hold attempts without one.                                              *)

Failed(a) ==
  /\ attempt[a] # None /\ attempt[a].engaged = TRUE
  /\ attempt[a].call \in Unreached \cup {"ANSWERED"}
RetryAllowed(t, n) == n > 1 => n <= MaxRetries + 1 /\ Failed(<<t, n - 1>>)

\* A retry that is scheduled, or made, follows a failed call.
RetryInv ==
  /\ \A j \in Job : job[j] # None => RetryAllowed(j[1], j[2])
  /\ \A t \in Target, n \in AttemptNo : attempt[<<t, n>>] # None => RetryAllowed(t, n)

FailedStays == \A a \in Attempt : Failed(a) => Failed(a)'
\* New jobs are allowed ones, and an attempt is made for a job.
JobsFollow == \A j \in Job : job'[j] # None => job[j] # None \/ RetryAllowed(j[1], j[2])'
AttemptsFollow ==
  \A a \in Attempt :
    attempt'[a] # None => attempt[a] # None \/ \E j \in Job : job[j] # None /\ AttemptOf(j) = a

LEMMA RetryKept ==
  ASSUME RetryInv, FailedStays, JobsFollow, AttemptsFollow
  PROVE  RetryInv'
  <1>1. ASSUME NEW t \in Target, NEW n \in AttemptNo, RetryAllowed(t, n)
        PROVE  RetryAllowed(t, n)'
    <2>1. n > 1 => <<t, n - 1>> \in Attempt BY TimeAssumption DEF Attempt, AttemptNo
    <2>. QED BY <1>1, <2>1 DEF RetryAllowed, FailedStays
  <1>2. ASSUME NEW j \in Job, job'[j] # None PROVE RetryAllowed(j[1], j[2])'
    <2>1. j[1] \in Target /\ j[2] \in AttemptNo BY DEF Job
    <2>. QED BY <1>1, <1>2, <2>1 DEF JobsFollow, RetryInv
  <1>3. ASSUME NEW t \in Target, NEW n \in AttemptNo, attempt'[<<t, n>>] # None
        PROVE  RetryAllowed(t, n)'
    <2>1. <<t, n>> \in Attempt BY DEF Attempt
    <2>2. CASE attempt[<<t, n>>] # None BY <1>1, <2>2 DEF RetryInv
    <2>3. ASSUME NEW j \in Job, job[j] # None, AttemptOf(j) = <<t, n>>
          PROVE  RetryAllowed(t, n)'
      <3>1. j[1] = t /\ j[2] = n BY <2>3 DEF AttemptOf
      <3>. QED BY <1>1, <2>3, <3>1 DEF RetryInv
    <2>. QED BY <1>3, <2>1, <2>2, <2>3 DEF AttemptsFollow
  <1>. QED BY <1>2, <1>3 DEF RetryInv

LEMMA AttemptsUnchanged ==
  ASSUME UNCHANGED attempt
  PROVE  FailedStays /\ AttemptsFollow
  BY DEF FailedStays, Failed, AttemptsFollow

\* The request that holds an attempt may write its row.
LEMMA HolderWrites ==
  ASSUME Inv, Handled, NEW w \in Worker, wk[w].pc \in Prepared, NEW row,
         attempt' = [attempt EXCEPT ![AttemptOf(wk[w].job)] = row]
  PROVE  FailedStays /\ AttemptsFollow
  <1> DEFINE a == AttemptOf(wk[w].job)
  <1>1. a \in Attempt /\ attempt[a] # None BY HandlerFacts
  <1>2. ~Failed(a) BY DEF Failed, Handled, Unengaged
  <1> HIDE DEF a
  <1>3. \A b \in Attempt : b # a => attempt'[b] = attempt[b]
    BY DEF a, Inv, TypeOK
  <1>. QED BY <1>1, <1>2, <1>3 DEF FailedStays, Failed, AttemptsFollow

LEMMA PutFollows ==
  ASSUME Inv, NEW j \in Job, job[j] # None, NEW s, job' = Put(j, s)
  PROVE  JobsFollow
  BY DEF Inv, TypeOK, Put, JobsFollow

LEMMA CancelFollows ==
  ASSUME NEW T, job' = Cancel(T)
  PROVE  JobsFollow
  BY DEF Cancel, JobIn, JobsFollow

LEMMA ApplyEventRetry ==
  ASSUME Inv, Handled, RetryInv, NEW w \in Worker, NEW a \in Attempt, NEW e \in Event,
         ApplyEvent(w, a, e)
  PROVE  RetryInv'
  <1> DEFINE call == NextCallState(attempt[a].call, e)
             n == a[2]
             slot == IF MayRetry(n) THEN NextDueSlot(clock + RetryInterval) ELSE None
             next == <<a[1], n + 1, slot>>
  <1>1. CASE UNCHANGED <<attempt, job>>
    BY <1>1, AttemptsUnchanged, RetryKept DEF JobsFollow
  <1>2. CASE /\ attempt[a].engaged
             /\ attempt' = [attempt EXCEPT ![a].call = call]
             /\ \/ job' = Cancel({a[1]})
                \/ UNCHANGED job
                \/ /\ call \in Unreached /\ slot # None
                   /\ job' = IF job[next] = None THEN [job EXCEPT ![next] = Unclaimed] ELSE job
    <2>1. attempt[a] # None /\ attempt[a] \in AttemptRow
      BY NoneAssumption DEF ApplyEvent, Inv, RowsExist, InboxOK, TypeOK, InboxState
    <2>2. attempt'[a] = [attempt[a] EXCEPT !.call = call]
          /\ \A b \in Attempt : b # a => attempt'[b] = attempt[b]
      BY <1>2 DEF Inv, TypeOK
    <2>3. e \in Unreached \cup {"ANSWERED"} /\ attempt[a].call \in CallState
      BY <2>1, EventAssumption DEF CallState, AttemptRow
    <2>4. call \in CallState /\ (Failed(a) => call \in Unreached \cup {"ANSWERED"})
      BY <2>1, <2>3 DEF NextCallState, Failed, Unreached, CallState
    <2>5. attempt'[a] # None /\ attempt'[a].call = call /\ attempt'[a].engaged = TRUE
      <3>1. [attempt[a] EXCEPT !.call = call] \in AttemptRow BY <2>1, <2>4 DEF AttemptRow
      <3>. QED BY <1>2, <2>1, <2>2, <3>1, NoneAssumption DEF AttemptRow
    <2> HIDE DEF call
    <2>6. FailedStays BY <2>2, <2>4, <2>5 DEF FailedStays, Failed
    <2>7. AttemptsFollow BY <2>1, <2>2 DEF AttemptsFollow
    <2>8. CASE job' = Cancel({a[1]})
      BY <2>6, <2>7, <2>8, CancelFollows, RetryKept
    <2>9. CASE UNCHANGED job
      BY <2>6, <2>7, <2>9, RetryKept DEF JobsFollow
    <2>10. CASE /\ call \in Unreached /\ slot # None
                /\ job' = IF job[next] = None THEN [job EXCEPT ![next] = Unclaimed] ELSE job
      <3>1. n \in Nat /\ n <= MaxRetries /\ a = <<a[1], n>> /\ n + 1 - 1 = n
        BY <2>10, TimeAssumption DEF MayRetry, Attempt, AttemptNo
      <3>2. Failed(a)' BY <2>5, <2>10 DEF Failed
      <3>3. RetryAllowed(a[1], n + 1)'
        BY <3>1, <3>2, TimeAssumption DEF RetryAllowed
      <3> HIDE DEF n, slot
      <3>4. \A j \in Job : job'[j] # None => job[j] # None \/ j = next
        BY <2>10 DEF Inv, TypeOK
      <3>5. next[1] = a[1] /\ next[2] = n + 1 OBVIOUS
      <3>6. JobsFollow BY <3>3, <3>4, <3>5 DEF JobsFollow
      <3>. QED BY <2>6, <2>7, <3>6, RetryKept
    <2>. QED BY <1>2, <2>8, <2>9, <2>10
  <1>. QED BY <1>1, <1>2 DEF ApplyEvent, ScheduleRetry

LEMMA RequestRetry ==
  ASSUME Inv, Handled, RetryInv, NEW w \in Worker,
         CronStep(w) \/ Crash(w), ~ \E a \in Attempt, e \in Event : ApplyEvent(w, a, e)
  PROVE  RetryInv'
  <1>1. ASSUME JobsFollow, FailedStays, AttemptsFollow PROVE RetryInv'
    BY <1>1, RetryKept
  <1>2. UNCHANGED job => JobsFollow BY DEF JobsFollow
  <1>3. CASE \/ ReadExpired(w) \/ ReadDue(w) \/ StopClaiming(w) \/ EndRequest(w) \/ Crash(w)
             \/ Recheck(w) \/ RecheckAgain(w) \/ ReadCase(w) \/ Send(w)
    <2>1. UNCHANGED <<job, attempt>>
      BY <1>3 DEF ReadExpired, ReadDue, StopClaiming, EndRequest, Crash, Recheck, RecheckAgain,
             ReadCase, Send, sending
    <2>. QED BY <1>1, <1>2, <2>1, AttemptsUnchanged
  <1>4. ASSUME NEW j \in Job, ReleaseExpired(w, j) PROVE RetryInv'
    <2>1. job[j] # None /\ UNCHANGED attempt
      BY <1>4 DEF ReleaseExpired, Inv, RowsExist, RequestOK
    <2>2. \/ job' = Put(j, "UNKNOWN") \/ job' = [job EXCEPT ![j] = Unclaimed] \/ UNCHANGED job
      BY <1>4 DEF ReleaseExpired
    <2>3. JobsFollow
      BY <2>1, <2>2, PutFollows DEF JobsFollow, Inv, TypeOK
    <2>. QED BY <1>1, <2>1, <2>3, AttemptsUnchanged
  <1>5. ASSUME NEW j \in Job, Claim(w, j) PROVE RetryInv'
    <2>1. JobsFollow /\ UNCHANGED attempt
      BY <1>5 DEF Claim, JobIn, JobsFollow, Inv, TypeOK
    <2>. QED BY <1>1, <2>1, AttemptsUnchanged
  <1>6. ASSUME NEW t \in Target, SettleDeadline(w, t) PROVE RetryInv'
    <2>1. JobsFollow /\ UNCHANGED attempt
      BY <1>6, CancelFollows DEF SettleDeadline
    <2>. QED BY <1>1, <2>1, AttemptsUnchanged
  <1>7. wk[w].pc \in Handling => wk[w].job \in Job /\ job[wk[w].job] # None
    BY DEF Inv, RowsExist, RequestOK
  <1>8. CASE Refuse(w)
    <2>1. JobsFollow
      BY <1>2, <1>7, <1>8, PutFollows DEF Refuse, Handling
    <2>. QED BY <1>1, <1>8, <2>1, AttemptsUnchanged DEF Refuse
  <1>9. CASE Prepare(w)
    <2> DEFINE a == AttemptOf(wk[w].job)
    <2>1. JobsFollow BY <1>2, <1>9 DEF Prepare
    <2>2. wk[w].job \in Job /\ job[wk[w].job] # None BY <1>7, <1>9 DEF Prepare, Handling
    <2>3. UNCHANGED attempt \/ (attempt[a] = None /\ \A b \in Attempt : b # a => attempt'[b] = attempt[b])
      BY <1>9 DEF Prepare, Inv, TypeOK
    <2>4. AttemptsFollow BY <2>2, <2>3 DEF AttemptsFollow
    <2>5. FailedStays BY <2>3 DEF FailedStays, Failed
    <2>. QED BY <1>1, <2>1, <2>4, <2>5
  <1>10. CASE RecordReply(w)
    <2>1. wk[w].pc \in Prepared /\ wk[w].pc \in Handling BY <1>10 DEF RecordReply, Prepared, Handling
    <2>2. JobsFollow BY <1>2, <1>7, <1>10, <2>1, PutFollows DEF RecordReply, sending
    <2>3. \/ UNCHANGED attempt
          \/ \E row : attempt' = [attempt EXCEPT ![AttemptOf(wk[w].job)] = row]
      BY <1>10 DEF RecordReply, sending
    <2>. QED BY <1>1, <2>1, <2>2, <2>3, HolderWrites, AttemptsUnchanged
  <1>11. CASE SaveCase(w)
    <2>1. CASE UNCHANGED sending
      BY <1>1, <1>2, <2>1, AttemptsUnchanged DEF sending
    <2>2. CASE /\ wk[w].pc = "saveUnknown" /\ job' = Put(wk[w].job, "UNKNOWN")
               /\ attempt' = [attempt EXCEPT ![AttemptOf(wk[w].job)].call = "UNKNOWN"]
      <3>1. wk[w].pc \in Prepared /\ wk[w].pc \in Handling BY <2>2 DEF Prepared, Handling
      <3>2. JobsFollow BY <1>7, <2>2, <3>1, PutFollows
      <3>3. \E row : attempt' = [attempt EXCEPT ![AttemptOf(wk[w].job)] = row]
        BY <2>2
      <3>. QED BY <1>1, <3>1, <3>2, <3>3, HolderWrites
    <2>. QED BY <1>11, <2>1, <2>2 DEF SaveCase
  <1>. QED
    BY <1>3, <1>4, <1>5, <1>6, <1>8, <1>9, <1>10, <1>11 DEF CronStep

LEMMA RetryNext ==
  ASSUME Inv, Handled, RetryInv, [Next]_vars
  PROVE  RetryInv'
  <1>1. ASSUME JobsFollow, UNCHANGED attempt PROVE RetryInv'
    BY <1>1, AttemptsUnchanged, RetryKept
  <1>2. UNCHANGED job => JobsFollow BY DEF JobsFollow
  <1>3. CASE QueueWorkflowRun
    <2> DEFINE slot == NextDueSlot(clock)
    <2>1. \A j \in Job : job'[j] # None => job[j] # None \/ j[2] = 1
      BY <1>3 DEF QueueWorkflowRun
    <2>2. JobsFollow BY <2>1 DEF JobsFollow, RetryAllowed
    <2>. QED BY <1>1, <1>3, <2>2 DEF QueueWorkflowRun
  <1>4. CASE SaveWorkflow
    BY <1>1, <1>4, CancelFollows DEF SaveWorkflow
  <1>5. CASE Tick \/ UNCHANGED vars
    BY <1>1, <1>2, <1>5 DEF Tick, vars, sending
  <1>6. ASSUME NEW t \in Target, NEW to \in StaffStatus, NEW v \in BOOLEAN,
               UpdateMunicipalCase(t, to, v)
        PROVE  RetryInv'
    BY <1>1, <1>2, <1>6, CancelFollows DEF UpdateMunicipalCase
  <1>7. ASSUME NEW a \in Attempt, NEW e \in Event, AcceptProviderEvent(a, e) PROVE RetryInv'
    BY <1>1, <1>2, <1>7 DEF AcceptProviderEvent, sending
  <1>8. ASSUME NEW d \in Delivery, NEW a \in Attempt, CheckReceipt(d, a) PROVE RetryInv'
    BY <1>1, <1>2, <1>8 DEF CheckReceipt, sending
  <1>9. ASSUME NEW d \in Delivery, StoreReceipt(d) PROVE RetryInv'
    <2>1. UNCHANGED attempt /\ (UNCHANGED job \/ \E T : job' = Cancel(T))
      BY <1>9 DEF StoreReceipt
    <2>. QED BY <1>1, <1>2, <2>1, CancelFollows
  <1>10. ASSUME NEW w \in Worker, CronStep(w) \/ Crash(w) PROVE RetryInv'
    BY <1>10, ApplyEventRetry, RequestRetry
  <1>. QED BY <1>3, <1>4, <1>5, <1>6, <1>7, <1>8, <1>9, <1>10 DEF Next

\* Whatever overlaps, dies or is recorded late, a citizen is called again only when the
\* call before is known to have failed, and no more often than the setting says.
THEOREM RetriesFollowFailures == Spec => []RetryFollowsFailedCall
  <1>1. Inv /\ AnswerInv /\ [Next]_vars => AnswerInv' BY AnswerNext
  <1>2. Inv /\ AnswerInv /\ RetryInv /\ [Next]_vars => RetryInv'
    BY RetryNext DEF AnswerInv
  <1>3. Init => RetryInv BY DEF Init, RetryInv, Job, Attempt
  <1>4. RetryInv => RetryFollowsFailedCall
    BY DEF RetryInv, RetryFollowsFailedCall, RetryAllowed, Failed
  <1>. QED BY <1>1, <1>2, <1>3, <1>4, AnswerInit, InvInit, InvNext, PTL DEF Spec

-----------------------------------------------------------------------------
(* The round as the citizens see it: the refinement of CallRounds.  The    *)
(* provider reports about calls it placed, and receipts are about those.   *)

Closed == Unreached \cup {"ANSWERED"}

EngagedCalled ==
  \A a \in Attempt : attempt[a] # None /\ attempt[a].engaged = TRUE => dialled[a] > 0
ClosedEngaged ==
  \A a \in Attempt : attempt[a] # None /\ attempt[a].call \in Closed => attempt[a].engaged = TRUE
ReceiptEngaged ==
  \A d \in Delivery : delivery[d].pc = "store" => attempt[delivery[d].attempt].engaged = TRUE
Engaged == EngagedCalled /\ ClosedEngaged /\ ReceiptEngaged

\* What may happen to a call's row and to the telephone in one step.
CallOK(a) ==
  /\ dialled'[a] > 0 \/ dialled'[a] = dialled[a]
  /\ attempt[a] # None /\ attempt[a].engaged = TRUE =>
       attempt'[a] # None /\ attempt'[a].engaged = TRUE
  /\ attempt'[a] # None /\ attempt'[a].engaged = TRUE =>
       dialled[a] > 0 \/ (attempt[a] # None /\ attempt[a].engaged = TRUE)
  /\ attempt'[a] # None /\ attempt'[a].call \in Closed => attempt'[a].engaged = TRUE
ReceiptsOK ==
  \A d \in Delivery : delivery'[d].pc = "store" =>
    \/ delivery[d].pc = "store" /\ delivery'[d].attempt = delivery[d].attempt
    \/ /\ delivery'[d].attempt \in Attempt /\ attempt[delivery'[d].attempt] # None
       /\ attempt[delivery'[d].attempt].engaged = TRUE

LEMMA EngagedKept ==
  ASSUME Inv, Engaged, \A a \in Attempt : CallOK(a), ReceiptsOK
  PROVE  Engaged'
  <1>1. EngagedCalled' BY DEF Engaged, EngagedCalled, CallOK
  <1>2. ClosedEngaged' BY DEF ClosedEngaged, CallOK
  <1>3. ASSUME NEW d \in Delivery, delivery'[d].pc = "store"
        PROVE  attempt'[delivery'[d].attempt].engaged = TRUE
    <2>1. CASE delivery[d].pc = "store" /\ delivery'[d].attempt = delivery[d].attempt
      <3>1. /\ delivery[d].attempt \in Attempt /\ attempt[delivery[d].attempt] # None
            /\ attempt[delivery[d].attempt].engaged = TRUE
        BY <2>1 DEF Engaged, ReceiptEngaged, Inv, RowsExist, DeliveryOK
      <3>. QED BY <2>1, <3>1 DEF CallOK
    <2>. QED BY <1>3, <2>1 DEF ReceiptsOK, CallOK
  <1>. QED BY <1>1, <1>2, <1>3 DEF Engaged, ReceiptEngaged

LEMMA CallSame ==
  ASSUME Engaged, NEW a \in Attempt, attempt'[a] = attempt[a], dialled'[a] = dialled[a]
  PROVE  CallOK(a)
  BY DEF Engaged, EngagedCalled, ClosedEngaged, CallOK

LEMMA ReceiptsSame == UNCHANGED delivery => ReceiptsOK
  BY DEF ReceiptsOK

LEMMA NothingCalled ==
  ASSUME Inv, Engaged, UNCHANGED <<attempt, dialled>>, ReceiptsOK
  PROVE  Engaged'
  BY CallSame, EngagedKept

-----------------------------------------------------------------------------
(* The parts of the round's state.                                         *)

LEMMA RoundAttempts == Round!Attempt = Attempt
  BY DEF Round!Attempt, Attempt

LEMMA FateSame ==
  ASSUME NEW a \in Attempt, attempt'[a] = attempt[a], dialled'[a] = dialled[a]
  PROVE  fate'[a] = fate[a]
  BY DEF fate, FateOf

LEMMA FateIs ==
  ASSUME NEW a \in Attempt
  PROVE  /\ attempt[a] = None => fate[a] = "none"
         /\ attempt[a] # None /\ attempt[a].call = "ANSWERED" <=> fate[a] = "answered"
         /\ attempt[a] # None /\ attempt[a].call \in Unreached => fate[a] = "failed"
         /\ attempt[a] # None /\ attempt[a].call \notin Closed =>
              fate[a] = IF dialled[a] = 0 THEN "recorded" ELSE "placed"
  BY DEF fate, FateOf, Closed, Unreached

LEMMA FateBecomes ==
  ASSUME NEW a \in Attempt
  PROVE  /\ attempt'[a] # None /\ attempt'[a].call = "ANSWERED" => fate'[a] = "answered"
         /\ attempt'[a] # None /\ attempt'[a].call \in Unreached => fate'[a] = "failed"
         /\ attempt'[a] # None /\ attempt'[a].call \notin Closed =>
              fate'[a] = IF dialled'[a] = 0 THEN "recorded" ELSE "placed"
  BY DEF fate, FateOf, Closed, Unreached

LEMMA FateIsFunction == fate = [a \in Attempt |-> fate[a]] /\ fate' = [a \in Attempt |-> fate'[a]]
  BY DEF fate, FateOf

LEMMA FatesSame ==
  ASSUME \A a \in Attempt : fate'[a] = fate[a]
  PROVE  UNCHANGED fate
  BY FateIsFunction

LEMMA FateMoves ==
  ASSUME NEW a \in Attempt, NEW f, fate'[a] = f,
         \A b \in Attempt : b # a => fate'[b] = fate[b]
  PROVE  fate' = [fate EXCEPT ![a] = f]
  BY FateIsFunction

LEMMA LatestAnswer ==
  ASSUME Inv, NEW a \in Attempt, responses[a] # <<>>
  PROVE  Latest(responses[a]).class \in AnswerClass
  <1>1. responses[a] \in Seq(Response) BY DEF Inv, TypeOK
  <1>2. Latest(responses[a]) \in Response BY <1>1 DEF Latest
  <1>. QED BY <1>2 DEF Response

LEMMA HeardSame == UNCHANGED responses => UNCHANGED heard
  BY DEF heard, Latest

LEMMA StaffSame ==
  ASSUME \A t \in Target : cases'[t] = None <=> cases[t] = None
  PROVE  UNCHANGED staff
  BY DEF staff

LEMMA StaffMeets ==
  ASSUME Inv, NEW t \in Target, NEW row, row # None, cases' = [cases EXCEPT ![t] = row]
  PROVE  Round!Escalated(t)
  <1>1. /\ cases'[t] # None
        /\ \A u \in Target : u # t => cases'[u] = cases[u]
    BY DEF Inv, TypeOK
  <1>. QED BY <1>1 DEF staff, Round!Escalated

LEMMA CaseEnsured ==
  ASSUME Inv, NEW t \in Target, NEW rs \in SUBSET Reason, cases' = EnsureCase(t, rs)
  PROVE  Round!Escalated(t)
  <1>1. cases[t] \in CaseRow \cup {None} BY DEF Inv, TypeOK
  <1>2. Reasoned(cases[t], rs) # None BY <1>1, ReasonedType
  <1>. QED BY <1>2, StaffMeets DEF EnsureCase

LEMMA EscalationStep ==
  ASSUME NEW t \in Target, Round!Escalated(t), UNCHANGED <<fate, heard, state>>
  PROVE  Round!RoundNext
  BY DEF Round!Escalate, Round!RoundNext

\* An answer is applied as the round says.
LEMMA OutcomeDecides ==
  ASSUME Inv, NEW t \in Target, NEW answer, ApplyOutcome(t, answer)
  PROVE  Round!Decides(t, answer)
  <1>1. {"ANSWER"} \in SUBSET Reason BY DEF Reason
  <1>2. IF answer \in {"concern", "unclear", "unacknowledged"}
          THEN Round!Escalated(t) ELSE UNCHANGED staff
    BY <1>1, CaseEnsured, StaffSame DEF ApplyOutcome, NeedsStaff
  <1>. QED BY <1>2 DEF ApplyOutcome, Round!Decides

-----------------------------------------------------------------------------
(* The steps of the round.                                                 *)

\* A step that leaves calls, answers and targets alone.
LEMMA OutsideTheRound ==
  ASSUME Inv, Engaged, UNCHANGED <<attempt, dialled, responses, state>>, ReceiptsOK,
         \A t \in Target : cases'[t] = None <=> cases[t] = None
  PROVE  Engaged' /\ UNCHANGED Round!round
  <1>1. UNCHANGED fate BY FateSame, FatesSame
  <1>. QED BY <1>1, HeardSame, StaffSame, NothingCalled DEF Round!round

LEMMA UpdateCaseRound ==
  ASSUME Inv, Engaged, NEW t \in Target, NEW to \in StaffStatus, NEW v \in BOOLEAN,
         UpdateMunicipalCase(t, to, v)
  PROVE  Engaged' /\ UNCHANGED Round!round
  <1> DEFINE row == [cases[t] EXCEPT !.status = to]
  <1>1. row \in CaseRow
    BY StaffAssumption DEF UpdateMunicipalCase, Inv, TypeOK, CaseRow
  <1>2. row # None BY <1>1, NoneAssumption
  <1>3. cases' = [cases EXCEPT ![t] = row] /\ cases[t] # None BY DEF UpdateMunicipalCase
  <1> HIDE DEF row
  <1>4. \A u \in Target : cases'[u] = None <=> cases[u] = None
    BY <1>2, <1>3 DEF Inv, TypeOK
  <1>. QED BY <1>4, ReceiptsSame, OutsideTheRound DEF UpdateMunicipalCase

LEMMA CheckReceiptRound ==
  ASSUME Inv, Engaged, NEW d \in Delivery, NEW a \in Attempt, CheckReceipt(d, a)
  PROVE  Engaged' /\ UNCHANGED Round!round
  <1>1. attempt[a] # None /\ attempt[a].engaged = TRUE
    BY DEF CheckReceipt, Inv, TypeOK, AttemptRow
  <1>2. /\ \A c \in Delivery : c # d => delivery'[c] = delivery[c]
        /\ delivery'[d].attempt = a
    BY DEF CheckReceipt, Inv, TypeOK
  <1>3. ReceiptsOK BY <1>1, <1>2 DEF ReceiptsOK
  <1>. QED BY <1>3, OutsideTheRound DEF CheckReceipt, sending, outcome

LEMMA StoreReceiptRound ==
  ASSUME Inv, Engaged, NEW d \in Delivery, StoreReceipt(d)
  PROVE  Engaged' /\ [Round!RoundNext]_(Round!round)
  <1> DEFINE a == delivery[d].attempt
             answer == delivery[d].answer
             response == [receipt |-> ReceiptOf[d], class |-> answer]
             log == Append(responses[a], response)
             evidence == Evidence(attempt[a].call, log)
  <1>1. /\ a \in Attempt /\ a[1] \in Target /\ attempt[a] # None /\ attempt[a].engaged = TRUE
        /\ answer \in AnswerClass
        /\ UNCHANGED <<attempt, dialled>>
    BY DEF StoreReceipt, Inv, RowsExist, DeliveryOK, Attempt, Engaged, ReceiptEngaged
  <1>2. \A c \in Delivery : delivery'[c].pc = "store" =>
          delivery[c].pc = "store" /\ delivery'[c].attempt = delivery[c].attempt
    <2>1. \E pc \in {"stored", "duplicate", "conflict"} :
            delivery' = [delivery EXCEPT ![d].pc = pc]
      BY DEF StoreReceipt
    <2>. QED BY <2>1 DEF Inv, TypeOK
  <1>3. ReceiptsOK BY <1>2 DEF ReceiptsOK
  <1>4. CASE UNCHANGED <<responses, outcome>>
    BY <1>1, <1>3, <1>4, OutsideTheRound DEF outcome
  <1>5. CASE responses' = [responses EXCEPT ![a] = log] /\ ApplyOutcome(a[1], evidence)
    <2>1. response \in Response /\ response.class = answer /\ answer \in AnswerClass
      BY <1>1 DEF Response
    <2>2. log # <<>> /\ Latest(log) = response
      <3>1. responses[a] \in Seq(Response) BY <1>1 DEF Inv, TypeOK
      <3> HIDE DEF response, a
      <3>. QED BY <2>1, <3>1 DEF Latest
    <2>3. evidence = IF fate[a] = "answered" THEN answer ELSE "none"
      <3>1. fate[a] = "answered" <=> attempt[a].call = "ANSWERED"
        BY <1>1, FateIs
      <3> HIDE DEF response, log, a, answer
      <3>. QED BY <2>1, <2>2, <3>1 DEF Evidence
    <2>4. Round!Decides(a[1], IF fate[a] = "answered" THEN answer ELSE "none")
      BY <1>1, <1>5, <2>3, OutcomeDecides
    <2>5. heard' = [heard EXCEPT ![a] = answer]
      <3> HIDE DEF response, log, a, answer
      <3>1. responses'[a] = log /\ \A b \in Attempt : b # a => responses'[b] = responses[b]
        BY <1>1, <1>5 DEF Inv, TypeOK
      <3>. QED BY <1>1, <2>1, <2>2, <3>1 DEF heard, Latest
    <2>6. fate[a] \in Round!Rung
      <3>1. dialled[a] > 0 BY <1>1 DEF Engaged, EngagedCalled
      <3>2. dialled[a] # 0 BY <1>1, <3>1 DEF Inv, TypeOK
      <3>. QED BY <1>1, <3>2 DEF fate, FateOf, Round!Rung, Round!Over
    <2>7. UNCHANGED fate BY <1>1, FateSame, FatesSame
    <2> HIDE DEF response, log, a, evidence, answer
    <2>8. Round!Hear(a, answer) BY <2>4, <2>5, <2>6, <2>7 DEF Round!Hear
    <2>9. Round!RoundNext
      BY <1>1, <2>1, <2>8, RoundAttempts DEF Round!RoundNext, AnswerClass
    <2>. QED BY <1>1, <1>3, <2>9, NothingCalled
  <1>. QED BY <1>4, <1>5 DEF StoreReceipt

\* An event of a call that is known to have ended, or to be answered.
LEMMA ApplyEventRound ==
  ASSUME Inv, Handled, Engaged, NEW w \in Worker, NEW a \in Attempt, NEW e \in Event,
         ApplyEvent(w, a, e)
  PROVE  Engaged' /\ [Round!RoundNext]_(Round!round)
  <1> DEFINE call == NextCallState(attempt[a].call, e)
             t == a[1]
  <1>0. t \in Target /\ UNCHANGED <<responses, dialled, delivery>> BY DEF ApplyEvent, Attempt
  <1>1. CASE UNCHANGED <<attempt, outcome>>
    BY <1>0, <1>1, ReceiptsSame, OutsideTheRound DEF outcome
  <1>2. CASE attempt[a].engaged /\ attempt' = [attempt EXCEPT ![a].call = call]
    <2>1. attempt[a] # None /\ attempt[a] \in AttemptRow /\ attempt[a].engaged = TRUE
      BY <1>2, NoneAssumption DEF ApplyEvent, Inv, RowsExist, InboxOK, TypeOK, InboxState, AttemptRow
    <2>2. dialled[a] > 0 /\ dialled[a] # 0
      BY <2>1 DEF Engaged, EngagedCalled, Inv, TypeOK
    <2>3. /\ call \in CallState /\ call \in Closed
          /\ call # "ANSWERED" => attempt[a].call \in {"QUEUED", "UNKNOWN"} \cup Unreached
          /\ attempt[a].call \in Unreached /\ call # "ANSWERED" => call = attempt[a].call
      BY <2>1, EventAssumption DEF NextCallState, AttemptRow, CallState, Closed, Unreached
    <2> DEFINE row == [attempt[a] EXCEPT !.call = call]
    <2>4. row \in AttemptRow /\ row # None /\ row.call = call /\ row.engaged = TRUE
      BY <2>1, <2>3, NoneAssumption DEF AttemptRow
    <2>5. attempt' = [attempt EXCEPT ![a] = row] BY <1>2
    <2> HIDE DEF row, call, t
    <2>6. attempt'[a] = row /\ \A b \in Attempt : b # a => attempt'[b] = attempt[b]
      BY <2>5 DEF Inv, TypeOK
    <2>7. Engaged'
      <3>1. CallOK(a) BY <1>0, <2>1, <2>2, <2>4, <2>6 DEF CallOK
      <3>. QED BY <1>0, <2>6, <3>1, CallSame, ReceiptsSame, EngagedKept
    <2>8. \A b \in Attempt : b # a => fate'[b] = fate[b]
      BY <1>0, <2>6, FateSame
    <2>9. fate[a] = IF attempt[a].call = "ANSWERED" THEN "answered"
                      ELSE IF attempt[a].call \in Unreached THEN "failed" ELSE "placed"
      BY <2>1, <2>2, FateIs DEF Closed
    <2>10. fate'[a] = IF call = "ANSWERED" THEN "answered" ELSE "failed"
      BY <2>3, <2>4, <2>6, FateBecomes DEF Closed
    <2>12. CASE call = "ANSWERED" /\ ApplyOutcome(t, Evidence(call, responses[a]))
      <3>1. Evidence(call, responses[a]) = heard[a]
        BY <2>12 DEF Evidence, heard
      <3>2. Round!Decides(t, heard[a]) BY <1>0, <2>12, <3>1, OutcomeDecides
      <3>3. fate' = [fate EXCEPT ![a] = "answered"]
        BY <2>8, <2>10, <2>12, FateMoves
      <3>4. fate[a] \in Round!Rung BY <2>9 DEF Round!Rung, Round!Over
      <3>5. Round!Connect(a)
        BY <1>0, <3>2, <3>3, <3>4, HeardSame DEF Round!Connect, t
      <3>. QED BY <2>7, <3>5, RoundAttempts DEF Round!RoundNext
    <2>13. CASE call # "ANSWERED" /\ ScheduleRetry(a, call) /\ UNCHANGED state
      <3>1. /\ Round!Escalated(t) \/ UNCHANGED staff
            /\ heard[a] \notin {"none", "unacknowledged"} => UNCHANGED staff
            /\ a[2] > MaxRetries /\ heard[a] \in {"none", "unacknowledged"} =>
                 Round!Escalated(t)
        <4>0. heard[a] \in {"none", "unacknowledged"} <=> ~Acknowledged(a)
          BY LatestAnswer DEF Acknowledged, AckState, heard, AnswerClass
        <4>1. {"RETRY_LIMIT_REACHED"} \in SUBSET Reason BY DEF Reason
        <4>2. CASE cases' = EnsureCase(t, {"RETRY_LIMIT_REACHED"}) /\ ~Acknowledged(a)
          BY <1>0, <4>0, <4>1, <4>2, CaseEnsured
        <4>3. CASE UNCHANGED cases
          <5>1. UNCHANGED staff BY <4>3, StaffSame
          <5>2. ASSUME a[2] > MaxRetries, heard[a] \in {"none", "unacknowledged"}
                PROVE  cases[t] # None
            <6>1. ~Acknowledged(a) BY <4>0, <5>2
            <6>2. call \in Unreached BY <2>3, <2>13 DEF Closed
            <6>3. ~MayRetry(a[2]) BY <5>2, TimeAssumption DEF MayRetry, Attempt, AttemptNo
            <6>4. cases[t] = None => cases' = EnsureCase(t, {"RETRY_LIMIT_REACHED"})
              BY <2>13, <6>1, <6>2, <6>3 DEF ScheduleRetry, t
            <6>5. EnsureCase(t, {"RETRY_LIMIT_REACHED"})[t] # None
              BY <1>0, <4>1, ReasonedExists
            <6>. QED BY <4>3, <6>4, <6>5
          <5>3. cases[t] # None => Round!Escalated(t)
            BY <1>0, <5>1 DEF staff, Round!Escalated
          <5>. QED BY <5>1, <5>2, <5>3
        <4>. QED BY <2>13, <4>2, <4>3 DEF ScheduleRetry, t
      <3>2. CASE attempt[a].call \in Unreached
        <4>1. fate'[a] = fate[a] BY <2>9, <2>10, <2>13, <3>2 DEF Unreached
        <4>2. UNCHANGED fate BY <2>8, <4>1, FatesSame
        <4>3. UNCHANGED heard BY <1>0, HeardSame
        <4>. QED BY <1>0, <2>7, <2>13, <3>1, <4>2, <4>3, EscalationStep DEF Round!round
      <3>3. CASE attempt[a].call \notin Unreached
        <4>1. fate[a] = "placed"
          BY <2>3, <2>9, <2>13, <3>3 DEF Unreached
        <4>2. fate' = [fate EXCEPT ![a] = "failed"] BY <2>8, <2>10, <2>13, FateMoves
        <4>3. Round!Fail(a)
          BY <1>0, <2>13, <3>1, <4>1, <4>2, HeardSame DEF Round!Fail, t
        <4>. QED BY <2>7, <4>3, RoundAttempts DEF Round!RoundNext
      <3>. QED BY <3>2, <3>3
    <2>. QED BY <1>1, <1>2, <2>12, <2>13 DEF ApplyEvent, call, t
  <1>. QED BY <1>1, <1>2 DEF ApplyEvent

LEMMA PrepareRound ==
  ASSUME Inv, RetryInv, Engaged, NEW w \in Worker, Prepare(w)
  PROVE  Engaged' /\ [Round!RoundNext]_(Round!round)
  <1> DEFINE j == wk[w].job
             a == AttemptOf(j)
             row == [call |-> "QUEUED", engaged |-> FALSE]
  <1>0. /\ j \in Job /\ job[j] # None /\ a \in Attempt
        /\ UNCHANGED <<dialled, responses, state, cases, delivery>>
    BY AttemptOfJob DEF Prepare, outcome, Inv, RowsExist, RequestOK, Handling
  <1>1. CASE UNCHANGED attempt
    BY <1>0, <1>1, ReceiptsSame, OutsideTheRound
  <1>2. CASE attempt[a] = None /\ attempt' = [attempt EXCEPT ![a] = row]
    <2>1. row \in AttemptRow /\ row # None /\ row.call = "QUEUED" /\ row.engaged = FALSE
      <3>1. row \in AttemptRow BY DEF AttemptRow, CallState
      <3>. QED BY <3>1, NoneAssumption
    <2>2. dialled[a] = 0 BY <1>0, <1>2 DEF Inv, CallsRecorded, TypeOK
    <2> HIDE DEF row
    <2>3. attempt'[a] = row /\ \A b \in Attempt : b # a => attempt'[b] = attempt[b]
      BY <1>0, <1>2 DEF Inv, TypeOK
    <2>4. CallOK(a) BY <1>0, <1>2, <2>1, <2>3 DEF CallOK, Closed, Unreached
    <2>5. Engaged' BY <1>0, <2>3, <2>4, CallSame, ReceiptsSame, EngagedKept
    <2>6. fate[a] = "none" BY <1>0, <1>2, FateIs
    <2>7. fate'[a] = "recorded" 
      BY <1>0, <2>1, <2>2, <2>3, FateBecomes DEF Closed, Unreached
    <2>8. fate' = [fate EXCEPT ![a] = "recorded"]
      <3>1. \A b \in Attempt : b # a => fate'[b] = fate[b] BY <1>0, <2>3, FateSame
      <3> HIDE DEF a
      <3>. QED BY <1>0, <2>7, <3>1, FateMoves
    <2>9. a = <<j[1], j[2]>> /\ j[1] \in Target /\ j[2] \in AttemptNo
      BY <1>0 DEF AttemptOf, Job
    <2>10. j[2] > 1 => j[2] <= MaxRetries + 1 /\ fate[<<j[1], j[2] - 1>>] \in Round!Over
      <3> SUFFICES ASSUME j[2] > 1
                   PROVE  j[2] <= MaxRetries + 1 /\ fate[<<j[1], j[2] - 1>>] \in Round!Over
        OBVIOUS
      <3>1. j[2] <= MaxRetries + 1 /\ Failed(<<j[1], j[2] - 1>>)
        BY <1>0 DEF RetryInv, RetryAllowed
      <3>2. <<j[1], j[2] - 1>> \in Attempt BY <2>9, TimeAssumption DEF Attempt, AttemptNo
      <3> DEFINE b == <<j[1], j[2] - 1>>
      <3> HIDE DEF b
      <3>3. b \in Attempt /\ Failed(b) => fate[b] \in {"failed", "answered"}
        BY DEF Failed, fate, FateOf
      <3>. QED BY <3>1, <3>2, <3>3 DEF b, Round!Over
    <2>11. UNCHANGED <<heard, staff>> BY <1>0, HeardSame, StaffSame
    <2> HIDE DEF j
    <2>12. Round!Record(j[1], j[2])
      BY <1>0, <2>6, <2>8, <2>9, <2>10, <2>11 DEF Round!Record
    <2>. QED BY <2>5, <2>9, <2>12 DEF Round!RoundNext
  <1>. QED BY <1>1, <1>2 DEF Prepare

LEMMA SendRound ==
  ASSUME Inv, Handled, Engaged, NEW w \in Worker, Send(w)
  PROVE  Engaged' /\ [Round!RoundNext]_(Round!round)
  <1> DEFINE a == AttemptOf(wk[w].job)
  <1>0. wk[w].pc \in Sending /\ wk[w].pc \in Prepared BY DEF Send, Sending, Prepared
  <1>1. /\ a \in Attempt /\ attempt[a] # None /\ dialled[a] = 0
        /\ UNCHANGED <<attempt, responses, state, cases, delivery>>
    BY <1>0, HandlerFacts DEF Send, sending, outcome, Inv, NotYetCalled
  <1>2. CASE UNCHANGED dialled
    BY <1>1, <1>2, ReceiptsSame, OutsideTheRound
  <1>3. CASE dialled' = [dialled EXCEPT ![a] = dialled[a] + 1]
    <2> HIDE DEF a
    <2>1. dialled'[a] = 1 /\ \A b \in Attempt : b # a => dialled'[b] = dialled[b]
      BY <1>1, <1>3 DEF Inv, TypeOK
    <2>2. attempt[a].engaged # TRUE
      <3>1. ~(dialled[a] > 0) BY <1>1
      <3>. QED BY <1>1, <3>1 DEF Engaged, EngagedCalled
    <2>3. attempt[a].call \notin Closed BY <1>1, <2>2 DEF Engaged, ClosedEngaged
    <2>4. CallOK(a) BY <1>1, <2>1, <2>2, <2>3 DEF CallOK
    <2>5. Engaged' BY <1>1, <2>1, <2>4, CallSame, ReceiptsSame, EngagedKept
    <2>6. fate[a] = "recorded" /\ fate'[a] = "placed"
      BY <1>1, <2>1, <2>3, FateIs, FateBecomes
    <2>7. fate' = [fate EXCEPT ![a] = "placed"]
      <3>1. \A b \in Attempt : b # a => fate'[b] = fate[b] BY <1>1, <2>1, FateSame
      <3>. QED BY <1>1, <2>6, <3>1, FateMoves
    <2>8. Round!Place(a) BY <1>1, <2>6, <2>7, HeardSame, StaffSame DEF Round!Place
    <2>. QED BY <1>1, <2>5, <2>8, RoundAttempts DEF Round!RoundNext
  <1>4. UNCHANGED dialled \/ dialled' = [dialled EXCEPT ![a] = dialled[a] + 1]
    BY <1>1 DEF Send, Inv, TypeOK
  <1>. QED BY <1>2, <1>3, <1>4

\* The request that holds a call writes what it knows of it: no more than that it was sent.
LEMMA HolderRound ==
  ASSUME Inv, Handled, Engaged, NEW w \in Worker, wk[w].pc \in Prepared,
         NEW row \in AttemptRow, row.call \in {"QUEUED", "UNKNOWN"},
         row.engaged = TRUE => dialled[AttemptOf(wk[w].job)] > 0,
         attempt' = [attempt EXCEPT ![AttemptOf(wk[w].job)] = row], UNCHANGED <<dialled, delivery>>
  PROVE  Engaged' /\ UNCHANGED fate
  <1> DEFINE a == AttemptOf(wk[w].job)
  <1>1. a \in Attempt /\ attempt[a] # None BY HandlerFacts
  <1>2. attempt[a].engaged = FALSE BY DEF Handled, Unengaged
  <1>3. attempt[a].call \notin Closed
    BY <1>1, <1>2 DEF Engaged, ClosedEngaged
  <1>4. row # None BY NoneAssumption
  <1> HIDE DEF a
  <1>5. attempt'[a] = row /\ \A b \in Attempt : b # a => attempt'[b] = attempt[b]
    BY <1>1 DEF a, Inv, TypeOK
  <1>6. CallOK(a) BY <1>1, <1>2, <1>5 DEF CallOK, Closed, Unreached, a
  <1>7. Engaged' BY <1>1, <1>5, <1>6, CallSame, ReceiptsSame, EngagedKept
  <1>8. fate'[a] = fate[a]
    <2>1. row.call \notin Closed BY DEF Closed, Unreached
    <2>. QED BY <1>1, <1>3, <1>4, <1>5, <2>1, FateIs, FateBecomes
  <1>9. UNCHANGED fate
    <2>1. \A b \in Attempt : b # a => fate'[b] = fate[b] BY <1>5, FateSame
    <2>. QED BY <1>8, <2>1, FatesSame
  <1>. QED BY <1>7, <1>9

LEMMA RecordReplyRound ==
  ASSUME Inv, Handled, Engaged, NEW w \in Worker, RecordReply(w)
  PROVE  Engaged' /\ UNCHANGED Round!round
  <1>1. wk[w].pc \in Prepared /\ UNCHANGED <<dialled, delivery, responses, state, cases>>
    BY DEF RecordReply, Prepared, outcome
  <1>2. CASE UNCHANGED sending
    BY <1>1, <1>2, ReceiptsSame, OutsideTheRound DEF sending
  <1>3. ASSUME NEW call \in {"QUEUED", "UNKNOWN"}, NEW known \in BOOLEAN,
               known => dialled[AttemptOf(wk[w].job)] > 0,
               attempt' = [attempt EXCEPT ![AttemptOf(wk[w].job)] = [call |-> call, engaged |-> known]]
        PROVE  Engaged' /\ UNCHANGED Round!round
    <2> DEFINE row == [call |-> call, engaged |-> known]
    <2>1. row \in AttemptRow /\ row.call = call /\ row.engaged = known
      BY DEF AttemptRow, CallState
    <2>2. row.engaged = TRUE => dialled[AttemptOf(wk[w].job)] > 0 BY <1>3, <2>1
    <2> HIDE DEF row
    <2>3. Engaged' /\ UNCHANGED fate
      BY <1>1, <1>3, <2>1, <2>2, HolderRound DEF row
    <2>. QED BY <1>1, <2>3, HeardSame, StaffSame DEF Round!round
  <1>. QED BY <1>2, <1>3 DEF RecordReply

LEMMA SaveCaseRound ==
  ASSUME Inv, Handled, Engaged, NEW w \in Worker, SaveCase(w)
  PROVE  Engaged' /\ [Round!RoundNext]_(Round!round)
  <1> DEFINE t == TargetOf(wk[w].job)
             seen == wk[w].seen
             a == AttemptOf(wk[w].job)
  <1>1. UNCHANGED <<dialled, delivery, responses, state>> BY DEF SaveCase
  <1>2. wk[w].pc \in Saving /\ wk[w].pc \in Handling /\ wk[w].job \in Job /\ t \in Target
    BY AttemptOfJob DEF SaveCase, Saving, Prepared, Handling, Inv, RowsExist, RequestOK
  <1>3. Engaged' /\ UNCHANGED fate
    <2>1. CASE UNCHANGED attempt
      BY <1>1, <2>1, ReceiptsSame, NothingCalled, FateSame, FatesSame
    <2>2. CASE wk[w].pc = "saveUnknown" /\ attempt' = [attempt EXCEPT ![a].call = "UNKNOWN"]
      <3>1. wk[w].pc \in Prepared BY <2>2 DEF Prepared
      <3>2. a \in Attempt /\ attempt[a] \in AttemptRow /\ attempt[a].engaged = FALSE
        BY <3>1, HandlerFacts DEF Handled, Unengaged, Inv, TypeOK
      <3> DEFINE row == [attempt[a] EXCEPT !.call = "UNKNOWN"]
      <3>3. row \in AttemptRow /\ row.call = "UNKNOWN" /\ row.engaged = FALSE
        BY <3>2 DEF AttemptRow, CallState
      <3>4. attempt' = [attempt EXCEPT ![a] = row] BY <2>2
      <3> HIDE DEF row
      <3>. QED BY <1>1, <3>1, <3>3, <3>4, HolderRound
    <2>. QED BY <2>1, <2>2 DEF SaveCase, sending
  <1>4. Round!Escalated(t) \/ UNCHANGED staff
    <2>1. CASE UNCHANGED cases BY <2>1, StaffSame
    <2>2. ASSUME NEW rs \in SUBSET Reason, WriteCase(t, seen, rs)
          PROVE  Round!Escalated(t)
      <3> DEFINE row == IF seen = None THEN Reasoned(None, rs)
                        ELSE [cases[t] EXCEPT !.reasons = Reasoned(seen, rs).reasons]
      <3>1. cases' = [cases EXCEPT ![t] = row] BY <2>2 DEF WriteCase
      <3>2. seen \in CaseRow \cup {None} /\ (seen # None => cases[t] # None)
        <4>1. wk[w] \in RequestRow BY DEF Inv, TypeOK, RequestRow
        <4>. QED BY <1>2, <4>1 DEF RequestRow, Inv, RowsExist, RequestOK
      <3>3. row # None
        <4>1. CASE seen = None BY <3>2, <4>1, ReasonedType
        <4>2. CASE seen # None
          <5>1. Reasoned(seen, rs) \in CaseRow BY <3>2, <4>2, ReasonedType
          <5>2. cases[t] \in CaseRow BY <1>2, <3>2, <4>2 DEF Inv, TypeOK
          <5>3. [cases[t] EXCEPT !.reasons = Reasoned(seen, rs).reasons] \in CaseRow
            BY <5>1, <5>2 DEF CaseRow
          <5>. QED BY <4>2, <5>3, NoneAssumption
        <4>. QED BY <4>1, <4>2
      <3> HIDE DEF row, t
      <3>. QED BY <1>2, <3>1, <3>3, StaffMeets
    <2>3. {"SEND_RESULT_UNKNOWN"} \in SUBSET Reason /\ {"RECHECK_FAILED"} \in SUBSET Reason
      BY DEF Reason
    <2> HIDE DEF t, seen
    <2>4. UNCHANGED cases \/ \E rs \in SUBSET Reason : WriteCase(t, seen, rs)
      BY <2>3 DEF SaveCase, t, seen
    <2>. QED BY <2>1, <2>2, <2>4
  <1>. QED BY <1>1, <1>2, <1>3, <1>4, HeardSame, EscalationStep DEF Round!round

LEMMA SettleRound ==
  ASSUME Inv, Engaged, NEW w \in Worker, NEW t \in Target, SettleDeadline(w, t)
  PROVE  Engaged' /\ [Round!RoundNext]_(Round!round)
  <1>1. {"DEADLINE_REACHED"} \in SUBSET Reason BY DEF Reason
  <1>2. Round!Escalated(t) BY <1>1, CaseEnsured DEF SettleDeadline
  <1>3. UNCHANGED <<attempt, dialled, responses, state, delivery>> BY DEF SettleDeadline
  <1>4. Engaged' BY <1>3, ReceiptsSame, NothingCalled
  <1>5. UNCHANGED <<fate, heard>> BY <1>3, FateSame, FatesSame, HeardSame
  <1>. QED BY <1>2, <1>3, <1>4, <1>5, EscalationStep

LEMMA RoundStep ==
  ASSUME Inv, Handled, RetryInv, Engaged, [Next]_vars
  PROVE  Engaged' /\ [Round!RoundNext]_(Round!round)
  <1>1. CASE QueueWorkflowRun \/ SaveWorkflow \/ Tick
    <2>1. UNCHANGED <<attempt, dialled, responses, state, cases, delivery>>
      BY <1>1 DEF QueueWorkflowRun, SaveWorkflow, Tick, sending, outcome
    <2>. QED BY <2>1, ReceiptsSame, OutsideTheRound
  <1>2. ASSUME NEW t \in Target, NEW to \in StaffStatus, NEW v \in BOOLEAN,
               UpdateMunicipalCase(t, to, v)
        PROVE  Engaged' /\ [Round!RoundNext]_(Round!round)
    BY <1>2, UpdateCaseRound
  <1>3. ASSUME NEW a \in Attempt, NEW e \in Event, AcceptProviderEvent(a, e)
        PROVE  Engaged' /\ [Round!RoundNext]_(Round!round)
    <2>1. UNCHANGED <<attempt, dialled, responses, state, cases, delivery>>
      BY <1>3 DEF AcceptProviderEvent, sending, outcome
    <2>. QED BY <2>1, ReceiptsSame, OutsideTheRound
  <1>4. ASSUME NEW d \in Delivery, NEW a \in Attempt, CheckReceipt(d, a)
        PROVE  Engaged' /\ [Round!RoundNext]_(Round!round)
    BY <1>4, CheckReceiptRound
  <1>5. ASSUME NEW d \in Delivery, StoreReceipt(d)
        PROVE  Engaged' /\ [Round!RoundNext]_(Round!round)
    BY <1>5, StoreReceiptRound
  <1>6. ASSUME NEW w \in Worker, NEW a \in Attempt, NEW e \in Event, ApplyEvent(w, a, e)
        PROVE  Engaged' /\ [Round!RoundNext]_(Round!round)
    BY <1>6, ApplyEventRound
  <1>7. ASSUME NEW w \in Worker,
               \/ ReadExpired(w) \/ ReadDue(w) \/ StopClaiming(w) \/ EndRequest(w) \/ Crash(w)
               \/ Recheck(w) \/ RecheckAgain(w) \/ Refuse(w) \/ ReadCase(w)
               \/ \E j \in Job : ReleaseExpired(w, j) \/ Claim(w, j)
        PROVE  Engaged' /\ [Round!RoundNext]_(Round!round)
    <2>1. UNCHANGED <<attempt, dialled, responses, state, cases, delivery>>
      BY <1>7 DEF ReadExpired, ReadDue, StopClaiming, EndRequest, Crash, Recheck, RecheckAgain,
             Refuse, ReadCase, ReleaseExpired, Claim, sending, outcome
    <2>. QED BY <2>1, ReceiptsSame, OutsideTheRound
  <1>8. ASSUME NEW w \in Worker, Prepare(w) \/ Send(w) \/ RecordReply(w) \/ SaveCase(w)
        PROVE  Engaged' /\ [Round!RoundNext]_(Round!round)
    BY <1>8, PrepareRound, SendRound, RecordReplyRound, SaveCaseRound
  <1>9. ASSUME NEW w \in Worker, NEW t \in Target, SettleDeadline(w, t)
        PROVE  Engaged' /\ [Round!RoundNext]_(Round!round)
    BY <1>9, SettleRound
  <1>10. CASE UNCHANGED vars
    <2>1. UNCHANGED <<attempt, dialled, responses, state, cases, delivery>> BY <1>10 DEF vars
    <2>. QED BY <2>1, ReceiptsSame, OutsideTheRound
  <1>. QED
    BY <1>1, <1>2, <1>3, <1>4, <1>5, <1>6, <1>7, <1>8, <1>9, <1>10 DEF Next, CronStep

\* Overlapping and dying requests, expired claims, late and repeated events, receipts that
\* contradict each other: what the citizens and the staff see is a round of calls.
THEOREM ImplementsRound == Spec => RoundSpec
  <1>1. Inv /\ AnswerInv /\ [Next]_vars => AnswerInv' BY AnswerNext
  <1>2. Inv /\ AnswerInv /\ RetryInv /\ [Next]_vars => RetryInv'
    BY RetryNext DEF AnswerInv
  <1>3. Init => RetryInv BY DEF Init, RetryInv, Job, Attempt
  <1>4. Init => Engaged /\ Round!RoundInit
    BY RoundAttempts DEF Init, Engaged, EngagedCalled, ClosedEngaged, ReceiptEngaged,
       Round!RoundInit, fate, FateOf, heard, staff
  <1>5. Inv /\ AnswerInv /\ RetryInv /\ Engaged /\ [Next]_vars =>
          Engaged' /\ [Round!RoundNext]_(Round!round)
    BY RoundStep DEF AnswerInv
  <1>. QED BY <1>1, <1>2, <1>3, <1>4, <1>5, AnswerInit, InvInit, InvNext, PTL
           DEF Spec, RoundSpec, Round!RoundSpec

\* What every round implies: a call begins once all earlier ones are over.
LEMMA CallsKeepTurn ==
  ASSUME Round!CallsInTurn, Round!RoundNext, fate = [a \in Attempt |-> fate[a]]
  PROVE  Round!CallsInTurn'
  <1>0. AttemptNo \subseteq Nat /\ \A t \in Target, n \in AttemptNo : <<t, n>> \in Attempt
    BY TimeAssumption DEF AttemptNo, Attempt
  <1>1. ASSUME NEW t \in Target, NEW n \in AttemptNo, Round!Record(t, n) PROVE Round!CallsInTurn'
    <2> SUFFICES ASSUME NEW u \in Target, NEW k \in AttemptNo, NEW m \in AttemptNo, k < m,
                        fate'[<<u, m>>] # "none"
                 PROVE  fate'[<<u, k>>] \in Round!Over
      BY DEF Round!CallsInTurn, Round!Over
    <2>1. fate' = [fate EXCEPT ![<<t, n>>] = "recorded"] /\ fate[<<t, n>>] = "none"
      BY <1>1 DEF Round!Record
    <2>2. CASE <<u, m>> = <<t, n>>
      <3>1. n > 1 /\ n - 1 \in AttemptNo /\ fate[<<t, n - 1>>] \in Round!Over
        BY <1>0, <1>1, <2>2, TimeAssumption DEF Round!Record, AttemptNo
      <3>2. fate[<<t, k>>] \in Round!Over
        <4>1. CASE k = n - 1 BY <3>1, <4>1
        <4>2. CASE k < n - 1
          <5>1. fate[<<t, n - 1>>] # "none" BY <3>1 DEF Round!Over
          <5>. QED BY <3>1, <4>2, <5>1 DEF Round!CallsInTurn
        <4>. QED BY <1>0, <2>2, <3>1, <4>1, <4>2
      <3>3. fate'[<<t, k>>] = fate[<<t, k>>]
        BY <1>0, <2>1, <2>2
      <3>. QED BY <2>2, <3>2, <3>3
    <2>3. CASE <<u, m>> # <<t, n>>
      <3>1. fate[<<u, k>>] \in Round!Over
        <4>1. fate[<<u, m>>] # "none" BY <1>0, <2>1, <2>3
        <4>. QED BY <4>1 DEF Round!CallsInTurn
      <3>2. <<u, k>> # <<t, n>>
        BY <2>1, <3>1 DEF Round!Over
      <3>. QED BY <1>0, <2>1, <3>1, <3>2
    <2>. QED BY <2>2, <2>3
  <1>2. ASSUME NEW a \in Attempt, NEW f, fate' = [fate EXCEPT ![a] = f], fate[a] # "none",
               fate[a] \in Round!Over => f \in Round!Over
        PROVE  Round!CallsInTurn'
    <2> SUFFICES ASSUME NEW u \in Target, NEW k \in AttemptNo, NEW m \in AttemptNo, k < m,
                        fate'[<<u, m>>] # "none"
                 PROVE  fate'[<<u, k>>] \in Round!Over
      BY DEF Round!CallsInTurn, Round!Over
    <2>1. fate[<<u, m>>] # "none" BY <1>0, <1>2
    <2>2. fate[<<u, k>>] \in Round!Over BY <2>1 DEF Round!CallsInTurn
    <2>. QED BY <1>0, <1>2, <2>2
  <1>3. ASSUME UNCHANGED fate PROVE Round!CallsInTurn'
    BY <1>3 DEF Round!CallsInTurn, Round!Over
  <1>4. ASSUME NEW a \in Attempt, Round!Place(a) \/ Round!Fail(a) \/ Round!Connect(a)
        PROVE  Round!CallsInTurn'
    <2>1. CASE Round!Place(a) BY <1>2, <2>1 DEF Round!Place, Round!Over
    <2>2. CASE Round!Fail(a) BY <1>2, <2>2 DEF Round!Fail, Round!Over
    <2>3. CASE Round!Connect(a) BY <1>2, <2>3 DEF Round!Connect, Round!Rung, Round!Over
    <2>. QED BY <1>4, <2>1, <2>2, <2>3
  <1>5. ASSUME NEW a \in Attempt, NEW answer, Round!Hear(a, answer) PROVE Round!CallsInTurn'
    BY <1>3, <1>5 DEF Round!Hear
  <1>6. ASSUME NEW t \in Target, Round!Escalate(t) PROVE Round!CallsInTurn'
    BY <1>3, <1>6 DEF Round!Escalate
  <1>. QED BY <1>1, <1>4, <1>5, <1>6, RoundAttempts DEF Round!RoundNext

\* No citizen is called while an earlier call to the same citizen may still be under way, however
\* many cron requests overlap, expire or die (municipalTick, scheduleMunicipalRetry).
THEOREM CitizensCalledInTurn == Spec => []Round!CallsInTurn
  <1>1. Round!RoundInit => Round!CallsInTurn
    BY RoundAttempts DEF Round!RoundInit, Round!CallsInTurn, Attempt
  <1>2. fate = [a \in Attempt |-> fate[a]]
    BY FateIsFunction
  <1>3. Round!CallsInTurn /\ [Round!RoundNext]_(Round!round) => Round!CallsInTurn'
    <2>1. CASE UNCHANGED Round!round
      BY <2>1 DEF Round!round, Round!CallsInTurn, Round!Over
    <2>. QED BY <1>2, <2>1, CallsKeepTurn
  <1>. QED BY <1>1, <1>3, ImplementsRound, PTL DEF RoundSpec, Round!RoundSpec
=============================================================================
