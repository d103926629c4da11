------------------------------ MODULE ToolsProofs ------------------------------
(***************************************************************************)
(* Proofs about the tools of the repository, which share no state.         *)
(* Deployment: which migrations reach production, and that no deployment   *)
(* lacks its schema, for any pipelines, commits, gated migrations, and any *)
(* interleaving of pipelines, operators and writes.  PortAllocation: who   *)
(* has which slot, for any checkouts, slots and processes.                 *)
(***************************************************************************)
EXTENDS Deployment, PortAllocation, WellFoundedInduction, TLAPS

-----------------------------------------------------------------------------
(* Deployment: the inductive invariant.                                    *)

\* Up to the rehearsal, and from the approval to the end of the application.
BeforeRehearsal == {"idle", "validate", "approve", "migrate", "clone", "rehearse"}
Preparing == BeforeRehearsal \cup {"cleanup", "recheck", "apply"}
Approved == {"migrate", "clone", "rehearse", "cleanup", "recheck", "apply", "applying"}

\* A rehearsal has passed, on what the plan describes.
RehearsedOK(p) ==
  /\ PlanOn(p, pipeline[p].rehearsed) = pipeline[p].plan
  /\ pipeline[p].rehearsed.data = pipeline[p].source

\* A plan is of the commit, and production never falls behind it.
PlanOK(p) ==
  /\ pipeline[p].plan.chain = ChainOf[pipeline[p].commit]
  /\ pipeline[p].plan.applied <= production.applied

PipelineOK(p) ==
  LET st == pipeline[p] IN
  /\ st.pc # "idle" => st.commit \in Commit
  /\ st.pc \in BeforeRehearsal => st.rehearsed = NoOne
  /\ st.pc = "rehearse" => clone[p] \in Database
  /\ st.rehearsed # NoOne => RehearsedOK(p)
  /\ st.pc = "approve" => PlanOK(p)
  /\ st.pc \in Approved => st.approved /\ PlanOK(p)
  /\ st.pc \in {"recheck", "apply", "applying"} /\ NeedsClone(p) =>
       st.rehearsed # NoOne /\ clone[p] = NoOne
  /\ st.pc = "deploy" => production.applied >= ChainOf[st.commit]
  /\ made[p] # "none" => st.pc # "idle"

\* Who has applied a migration is past the application or in it.
AppliersOK ==
  \A m \in Migration : applier[m] # NoOne => pipeline[applier[m]].pc \notin Preparing

Inv ==
  /\ DeployTypeOK
  /\ MigrationsVouchedFor
  /\ SchemaBeforeCode
  /\ \A p \in Pipeline : PipelineOK(p)
  /\ AppliersOK

\* All the others' state is as it was.
Alone(p) ==
  \A q \in Pipeline : q # p => pipeline'[q] = pipeline[q] /\ clone'[q] = clone[q]

-----------------------------------------------------------------------------
(* The constants, and what a step may be.                                  *)

LEMMA Constants ==
  /\ Chain \in Nat /\ ChainOf \in [Commit -> 0..Chain] /\ Gated \subseteq Migration
  /\ MaxActs \in Nat
  /\ NoOne \notin Database /\ NoOne \notin Pipeline /\ NoOne \notin Commit
BY ChainAssumption, DeployBoundsAssumption, NoOneAssumption

\* What a pipeline keeps is replaced, and the others keep theirs.
LEMMA Becomes ==
  ASSUME DeployTypeOK, NEW p \in Pipeline, NEW s \in PipelineState, BecomePipeline(p, s)
  PROVE  /\ pipeline' \in [Pipeline -> PipelineState]
         /\ pipeline'[p] = s
         /\ \A q \in Pipeline : q # p => pipeline'[q] = pipeline[q]
BY DEF DeployTypeOK, BecomePipeline

PCs == {"idle", "validate", "approve", "migrate", "clone", "rehearse", "cleanup", "recheck",
        "apply", "applying", "verify", "release", "deploy", "await", "smoke", "smoking",
        "succeeded", "failed"}

\* A pipeline goes on, and keeps all but its program counter.
LEMMA Proceeds ==
  ASSUME DeployTypeOK, NEW p \in Pipeline, NEW c \in PCs, Proceed(p, c)
  PROVE  /\ pipeline' \in [Pipeline -> PipelineState]
         /\ pipeline'[p] = [pipeline[p] EXCEPT !.pc = c]
         /\ pipeline'[p].pc = c
         /\ pipeline'[p].reviewed = pipeline[p].reviewed
         /\ pipeline'[p].commit = pipeline[p].commit
         /\ pipeline'[p].plan = pipeline[p].plan
         /\ pipeline'[p].approved = pipeline[p].approved
         /\ pipeline'[p].source = pipeline[p].source
         /\ pipeline'[p].rehearsed = pipeline[p].rehearsed
         /\ \A q \in Pipeline : q # p => pipeline'[q] = pipeline[q]
<1>1. pipeline[p] \in PipelineState
  BY DEF DeployTypeOK
<1>2. [pipeline[p] EXCEPT !.pc = c] \in PipelineState
  BY <1>1 DEF PipelineState, PCs
<1>3. BecomePipeline(p, [pipeline[p] EXCEPT !.pc = c])
  BY DEF Proceed
<1>4. pipeline'[p] = [pipeline[p] EXCEPT !.pc = c]
  BY <1>2, <1>3, Becomes
<1> QED
  BY <1>1, <1>2, <1>3, <1>4, Becomes DEF PipelineState

\* Nobody loses what is promised when another pipeline moves and migrations are only added.
LEMMA OthersKeep ==
  ASSUME Inv, DeployTypeOK', NEW q \in Pipeline,
         pipeline'[q] = pipeline[q], clone'[q] = clone[q],
         production'.applied >= production.applied,
         made'[q] # "none" => made[q] # "none"
  PROVE  PipelineOK(q)'
<1>1. PipelineOK(q) /\ pipeline[q] \in PipelineState
  BY DEF Inv, DeployTypeOK
<1>2. production.applied \in Nat /\ production'.applied \in Nat
  BY DEF Inv, DeployTypeOK, Database
<1>3. /\ RehearsedOK(q)' <=> RehearsedOK(q)
      /\ NeedsClone(q)' <=> NeedsClone(q)
  BY DEF RehearsedOK, PlanOn, NeedsClone, Pending
<1>4. pipeline[q].plan.applied \in Nat
  BY <1>1 DEF PipelineState, Plan
<1>5. PlanOK(q) => PlanOK(q)'
  BY <1>2, <1>4 DEF PlanOK
<1>6. pipeline[q].pc = "deploy" => ChainOf[pipeline[q].commit] \in Nat
  BY <1>1, Constants DEF PipelineOK
<1>7. pipeline[q].pc = "deploy" => production'.applied >= ChainOf[pipeline[q].commit]
  BY <1>1, <1>2, <1>6 DEF PipelineOK
<1> QED
  BY <1>1, <1>3, <1>5, <1>7 DEF PipelineOK

\* A step of a pipeline that has applied nothing so far.
LEMMA PreparingStep ==
  ASSUME Inv, DeployTypeOK', NEW p \in Pipeline, Alone(p),
         pipeline[p].pc \in Preparing,
         UNCHANGED <<production, applier, made>>,
         pipeline'[p].commit = pipeline[p].commit \/ pipeline[p].pc = "idle",
         PipelineOK(p)'
  PROVE  Inv'
<1>1. \A q \in Pipeline : PipelineOK(q)'
  <2> SUFFICES ASSUME NEW q \in Pipeline, q # p PROVE PipelineOK(q)'
    OBVIOUS
  <2>1. production.applied \in Nat
    BY DEF Inv, DeployTypeOK, Database
  <2> QED
    BY <2>1, OthersKeep DEF Alone
<1>2. \A m \in Migration : applier[m] # NoOne => applier[m] \in Pipeline /\ applier[m] # p
  BY DEF Inv, AppliersOK, DeployTypeOK
<1>3. MigrationsVouchedFor'
  <2> SUFFICES ASSUME NEW m \in Migration, applier[m] # NoOne PROVE VouchedFor(applier[m], m)'
    BY DEF MigrationsVouchedFor
  <2>1. VouchedFor(applier[m], m)
    BY DEF Inv, MigrationsVouchedFor
  <2>2. pipeline'[applier[m]] = pipeline[applier[m]] /\ clone'[applier[m]] = clone[applier[m]]
    BY <1>2 DEF Alone
  <2> QED
    BY <2>1, <2>2 DEF VouchedFor, PlanOn, Pending
<1>4. SchemaBeforeCode'
  <2> SUFFICES ASSUME NEW q \in Pipeline, made[q] # "none"
               PROVE  production.applied >= ChainOf[pipeline'[q].commit]
    BY DEF SchemaBeforeCode
  <2>1. production.applied >= ChainOf[pipeline[q].commit] /\ PipelineOK(q)
    BY DEF Inv, SchemaBeforeCode
  <2>2. pipeline'[q].commit = pipeline[q].commit
    BY <2>1 DEF PipelineOK, Alone
  <2> QED
    BY <2>1, <2>2
<1>5. AppliersOK'
  BY <1>2 DEF Inv, AppliersOK, Alone
<1> QED
  BY <1>1, <1>3, <1>4, <1>5 DEF Inv

\* A later step of a pipeline, which keeps what it was vouched for with.
LEMMA LaterStep ==
  ASSUME Inv, DeployTypeOK', NEW p \in Pipeline, NEW c \in PCs, Proceed(p, c),
         c \notin Preparing, UNCHANGED <<clone, applier>>,
         production'.applied = production.applied,
         \A q \in Pipeline : made'[q] # "none" =>
           \/ made[q] # "none"
           \/ q = p /\ production.applied >= ChainOf[pipeline[p].commit],
         PipelineOK(p)'
  PROVE  Inv'
<1>0. Alone(p)
  BY Proceeds DEF Alone, Inv
<1>1. \A q \in Pipeline : PipelineOK(q)'
  <2> SUFFICES ASSUME NEW q \in Pipeline, q # p PROVE PipelineOK(q)'
    OBVIOUS
  <2>1. production.applied \in Nat
    BY DEF Inv, DeployTypeOK, Database
  <2> QED
    BY <1>0, <2>1, OthersKeep DEF Alone
<1>2. \A m \in Migration : applier[m] # NoOne => applier[m] \in Pipeline
  BY DEF Inv, DeployTypeOK
<1>3. \A q \in Pipeline : /\ pipeline'[q].plan = pipeline[q].plan
                          /\ pipeline'[q].commit = pipeline[q].commit
                          /\ pipeline'[q].approved = pipeline[q].approved
                          /\ pipeline'[q].source = pipeline[q].source
                          /\ pipeline'[q].rehearsed = pipeline[q].rehearsed
                          /\ pipeline'[q].pc \in {pipeline[q].pc, c}
  <2> SUFFICES ASSUME NEW q \in Pipeline, q = p
               PROVE  /\ pipeline'[q].plan = pipeline[q].plan
                      /\ pipeline'[q].commit = pipeline[q].commit
                      /\ pipeline'[q].approved = pipeline[q].approved
                      /\ pipeline'[q].source = pipeline[q].source
                      /\ pipeline'[q].rehearsed = pipeline[q].rehearsed
                      /\ pipeline'[q].pc \in {pipeline[q].pc, c}
    BY <1>0 DEF Alone
  <2> QED
    BY Proceeds DEF Inv
<1>4. MigrationsVouchedFor'
  <2> SUFFICES ASSUME NEW m \in Migration, applier[m] # NoOne PROVE VouchedFor(applier[m], m)'
    BY DEF MigrationsVouchedFor
  <2>1. VouchedFor(applier[m], m) /\ applier[m] \in Pipeline
    BY <1>2 DEF Inv, MigrationsVouchedFor
  <2> QED
    BY <1>3, <2>1 DEF VouchedFor, PlanOn, Pending
<1>5. SchemaBeforeCode'
  BY <1>3 DEF Inv, SchemaBeforeCode
<1>6. AppliersOK'
  BY <1>2, <1>3 DEF Inv, AppliersOK
<1> QED
  BY <1>1, <1>4, <1>5, <1>6 DEF Inv

\* A step outside the pipelines.
LEMMA OutsideStep ==
  ASSUME Inv, DeployTypeOK', UNCHANGED <<pipeline, clone, applier>>,
         production'.applied = production.applied,
         \A q \in Pipeline : made'[q] # "none" => made[q] # "none"
  PROVE  Inv'
<1>1. production.applied \in Nat
  BY DEF Inv, DeployTypeOK, Database
<1>2. \A q \in Pipeline : PipelineOK(q)'
  BY <1>1, OthersKeep
<1>3. MigrationsVouchedFor'
  BY DEF Inv, MigrationsVouchedFor, VouchedFor, PlanOn, Pending
<1>4. SchemaBeforeCode' /\ AppliersOK'
  BY DEF Inv, SchemaBeforeCode, AppliersOK
<1> QED
  BY <1>2, <1>3, <1>4 DEF Inv

-----------------------------------------------------------------------------
(* The initial state, and the steps up to the application.                 *)

LEMMA NoPlanType == NoPlan \in Plan
BY Constants DEF NoPlan, Plan

LEMMA NotStartedType == NotStarted \in PipelineState
BY NoPlanType DEF NotStarted, PipelineState

LEMMA PlanType ==
  ASSUME NEW p \in Pipeline, NEW db \in Database, pipeline[p].commit \in Commit
  PROVE  PlanOn(p, db) \in Plan
BY Constants DEF PlanOn, Plan, Database

LEMMA InitInv == DeployInit => Inv
<1> SUFFICES ASSUME DeployInit PROVE Inv
  OBVIOUS
<1>1. DeployTypeOK
  <2>1. production \in Database
    BY Constants DEF DeployInit, Database, Migration, NoPlan
  <2> QED
    BY <2>1, Constants, NotStartedType DEF DeployInit, DeployTypeOK
<1>2. \A p \in Pipeline : PipelineOK(p)
  BY DEF DeployInit, PipelineOK, NotStarted, BeforeRehearsal, Approved
<1>3. MigrationsVouchedFor /\ SchemaBeforeCode /\ AppliersOK
  BY DEF DeployInit, MigrationsVouchedFor, SchemaBeforeCode, AppliersOK
<1> QED
  BY <1>1, <1>2, <1>3 DEF Inv

LEMMA StartKeeps ==
  ASSUME Inv, NEW p \in Pipeline, NEW v \in Commit, NEW reviewed \in BOOLEAN,
         StartPipeline(p, v, reviewed)
  PROVE  Inv'
<1> DEFINE new == [NotStarted EXCEPT !.pc = "validate", !.commit = v, !.reviewed = reviewed]
<1>1. new \in PipelineState
  BY NotStartedType DEF PipelineState
<1>2. pipeline' \in [Pipeline -> PipelineState] /\ pipeline'[p] = new
      /\ \A q \in Pipeline : q # p => pipeline'[q] = pipeline[q]
  BY <1>1, Becomes DEF StartPipeline, Inv
<1>3. DeployTypeOK'
  BY <1>2 DEF Inv, DeployTypeOK, StartPipeline, stores, outside
<1>4. new.pc = "validate" /\ new.commit = v /\ new.rehearsed = NoOne
  BY DEF NotStarted
<1>5. PipelineOK(p)'
  BY <1>2, <1>4 DEF PipelineOK, BeforeRehearsal, Approved
<1> QED
  BY <1>2, <1>3, <1>5, PreparingStep
     DEF StartPipeline, stores, outside, Alone, Preparing, BeforeRehearsal

\* Whatever fails keeps what is promised.
LEMMA FailureOK ==
  ASSUME Inv, NEW p \in Pipeline, pipeline[p].pc # "idle", Proceed(p, "failed"),
         UNCHANGED made
  PROVE  PipelineOK(p)'
<1>1. PipelineOK(p) /\ DeployTypeOK
  BY DEF Inv
<1>2. /\ pipeline'[p].pc = "failed"
      /\ pipeline'[p].commit = pipeline[p].commit
      /\ pipeline'[p].plan = pipeline[p].plan
      /\ pipeline'[p].source = pipeline[p].source
      /\ pipeline'[p].rehearsed = pipeline[p].rehearsed
  BY <1>1, Proceeds DEF PCs
<1>3. RehearsedOK(p)' <=> RehearsedOK(p)
  BY <1>2 DEF RehearsedOK, PlanOn
<1> QED
  BY <1>1, <1>2, <1>3 DEF PipelineOK, BeforeRehearsal, Approved

\* A pipeline that fails before it has applied anything, whatever it leaves of its clone.
LEMMA EarlyFailureKeeps ==
  ASSUME Inv, NEW p \in Pipeline, pipeline[p].pc \in Preparing \ {"idle"},
         Proceed(p, "failed"), UNCHANGED <<production, applier, outside>>,
         clone' \in [Pipeline -> Database \cup {NoOne}],
         \A q \in Pipeline : q # p => clone'[q] = clone[q]
  PROVE  Inv'
<1>1. DeployTypeOK
  BY DEF Inv
<1>2. pipeline' \in [Pipeline -> PipelineState] /\ pipeline'[p].commit = pipeline[p].commit
      /\ \A q \in Pipeline : q # p => pipeline'[q] = pipeline[q]
  BY <1>1, Proceeds DEF PCs
<1>3. DeployTypeOK'
  BY <1>1, <1>2 DEF DeployTypeOK, outside
<1>4. PipelineOK(p)'
  BY FailureOK DEF outside
<1> QED
  BY <1>2, <1>3, <1>4, PreparingStep DEF Alone, outside

LEMMA SameStores ==
  ASSUME Inv, UNCHANGED stores
  PROVE  /\ UNCHANGED <<production, applier, clone>>
         /\ clone' \in [Pipeline -> Database \cup {NoOne}]
BY DEF Inv, DeployTypeOK, stores

LEMMA ValidateKeeps ==
  ASSUME Inv, NEW p \in Pipeline, ValidatePhase(p)
  PROVE  Inv'
<1>1. /\ pipeline[p].pc = "validate" /\ DeployTypeOK /\ PipelineOK(p)
      /\ UNCHANGED <<stores, outside>>
  BY DEF ValidatePhase, Inv
<1>2. pipeline[p] \in PipelineState /\ production \in Database /\ pipeline[p].commit \in Commit
  BY <1>1 DEF DeployTypeOK, PipelineOK
<1>3. CASE Proceed(p, "failed")
  BY <1>1, <1>3, SameStores, EarlyFailureKeeps DEF Preparing, BeforeRehearsal
<1>4. CASE ~Proceed(p, "failed")
  <2> DEFINE plan == PlanOn(p, production)
             new == [pipeline[p] EXCEPT
                       !.pc = IF Pending(plan) = {} THEN "release" ELSE "approve",
                       !.plan = plan,
                       !.served = IF pipeline[p].reviewed THEN canonical ELSE @,
                       !.source = IF pipeline[p].reviewed THEN production.data ELSE @]
  <2>1. BecomePipeline(p, new)
    BY <1>4 DEF ValidatePhase
  <2>2. plan \in Plan
    BY <1>2, PlanType
  <2>3. canonical \in Pipeline \cup {NoOne} /\ production.data \in Nat
    BY <1>1, <1>2 DEF DeployTypeOK, Database
  <2>4. new \in PipelineState
    BY <1>2, <2>2, <2>3 DEF PipelineState
  <2>5. pipeline' \in [Pipeline -> PipelineState] /\ pipeline'[p] = new
        /\ \A q \in Pipeline : q # p => pipeline'[q] = pipeline[q]
    BY <1>1, <2>1, <2>4, Becomes
  <2>6. /\ new.pc \in {"release", "approve"} /\ new.plan = plan
        /\ new.commit = pipeline[p].commit /\ new.rehearsed = pipeline[p].rehearsed
    BY <1>2 DEF PipelineState
  <2>7. pipeline[p].rehearsed = NoOne
    BY <1>1 DEF PipelineOK, BeforeRehearsal
  <2>8. DeployTypeOK'
    BY <1>1, <2>5 DEF DeployTypeOK, stores, outside
  <2>9. PlanOK(p)'
    <3>1. production.applied \in Nat /\ production' = production
      BY <1>1, <1>2 DEF Database, stores
    <3> QED
      BY <2>5, <2>6, <3>1 DEF PlanOK, PlanOn
  <2>10. PipelineOK(p)'
    BY <1>2, <2>5, <2>6, <2>7, <2>9 DEF PipelineOK, BeforeRehearsal, Approved
  <2> QED
    BY <1>1, <2>5, <2>6, <2>8, <2>10, PreparingStep
       DEF stores, outside, Alone, Preparing, BeforeRehearsal
<1> QED
  BY <1>3, <1>4

LEMMA ApproveKeeps ==
  ASSUME Inv, NEW p \in Pipeline, Approve(p)
  PROVE  Inv'
<1>1. /\ pipeline[p].pc = "approve" /\ DeployTypeOK /\ PipelineOK(p)
      /\ UNCHANGED <<stores, outside>>
  BY DEF Approve, Inv
<1>2. pipeline[p] \in PipelineState
  BY <1>1 DEF DeployTypeOK
<1>3. CASE Proceed(p, "failed")
  BY <1>1, <1>3, SameStores, EarlyFailureKeeps DEF Preparing, BeforeRehearsal
<1>4. CASE ~Proceed(p, "failed")
  <2> DEFINE new == [pipeline[p] EXCEPT !.pc = "migrate", !.approved = TRUE]
  <2>1. BecomePipeline(p, new) /\ new \in PipelineState
    BY <1>2, <1>4 DEF Approve, PipelineState
  <2>2. pipeline' \in [Pipeline -> PipelineState] /\ pipeline'[p] = new
        /\ \A q \in Pipeline : q # p => pipeline'[q] = pipeline[q]
    BY <1>1, <2>1, Becomes
  <2>3. /\ new.pc = "migrate" /\ new.approved /\ new.plan = pipeline[p].plan
        /\ new.commit = pipeline[p].commit /\ new.rehearsed = pipeline[p].rehearsed
    BY <1>2 DEF PipelineState
  <2>4. DeployTypeOK'
    BY <1>1, <2>2 DEF DeployTypeOK, stores, outside
  <2>5. pipeline[p].rehearsed = NoOne /\ PlanOK(p) /\ pipeline[p].commit \in Commit
    BY <1>1 DEF PipelineOK, BeforeRehearsal
  <2>6. PlanOK(p)'
    BY <1>1, <2>2, <2>3, <2>5 DEF PlanOK, stores
  <2>7. PipelineOK(p)'
    BY <2>2, <2>3, <2>5, <2>6 DEF PipelineOK, BeforeRehearsal, Approved
  <2> QED
    BY <1>1, <2>2, <2>3, <2>4, <2>7, PreparingStep
       DEF stores, outside, Alone, Preparing, BeforeRehearsal
<1> QED
  BY <1>3, <1>4

LEMMA MigrateKeeps ==
  ASSUME Inv, NEW p \in Pipeline, MigratePhase(p)
  PROVE  Inv'
<1>1. /\ pipeline[p].pc = "migrate" /\ DeployTypeOK /\ PipelineOK(p)
      /\ UNCHANGED <<stores, outside>>
  BY DEF MigratePhase, Inv
<1>2. pipeline[p] \in PipelineState /\ production \in Database
  BY <1>1 DEF DeployTypeOK
<1>3. CASE Proceed(p, "failed")
  BY <1>1, <1>3, SameStores, EarlyFailureKeeps DEF Preparing, BeforeRehearsal
<1>4. CASE ~Proceed(p, "failed")
  <2> DEFINE new == [pipeline[p] EXCEPT
                       !.pc = IF NeedsClone(p) THEN "clone" ELSE "apply",
                       !.source = production.data]
  <2>1. BecomePipeline(p, new)
    BY <1>4 DEF MigratePhase
  <2>2. new \in PipelineState
    BY <1>2 DEF PipelineState, Database
  <2>3. pipeline' \in [Pipeline -> PipelineState] /\ pipeline'[p] = new
        /\ \A q \in Pipeline : q # p => pipeline'[q] = pipeline[q]
    BY <1>1, <2>1, <2>2, Becomes
  <2>4. /\ new.pc = (IF NeedsClone(p) THEN "clone" ELSE "apply")
        /\ new.approved = pipeline[p].approved /\ new.plan = pipeline[p].plan
        /\ new.commit = pipeline[p].commit /\ new.rehearsed = pipeline[p].rehearsed
        /\ new.reviewed = pipeline[p].reviewed
    BY <1>2 DEF PipelineState
  <2>5. DeployTypeOK'
    BY <1>1, <2>3 DEF DeployTypeOK, stores, outside
  <2>6. /\ pipeline[p].rehearsed = NoOne /\ PlanOK(p) /\ pipeline[p].commit \in Commit
        /\ pipeline[p].approved
    BY <1>1 DEF PipelineOK, BeforeRehearsal, Approved
  <2>7. PlanOK(p)'
    BY <1>1, <2>3, <2>4, <2>6 DEF PlanOK, stores
  <2>8. NeedsClone(p)' <=> NeedsClone(p)
    BY <2>3, <2>4 DEF NeedsClone
  <2>9. PipelineOK(p)'
    BY <2>3, <2>4, <2>6, <2>7, <2>8 DEF PipelineOK, BeforeRehearsal, Approved
  <2> QED
    BY <1>1, <2>3, <2>4, <2>5, <2>9, PreparingStep
       DEF stores, outside, Alone, Preparing, BeforeRehearsal
<1> QED
  BY <1>3, <1>4

\* A pipeline that goes on keeps what is promised if it has what its next place asks for.
LEMMA AdvanceOK ==
  ASSUME Inv, NEW p \in Pipeline, pipeline[p].pc # "idle",
         NEW c \in PCs \ BeforeRehearsal, Proceed(p, c), UNCHANGED production,
         c \in Approved => pipeline[p].approved /\ PlanOK(p),
         c \in {"recheck", "apply", "applying"} /\ NeedsClone(p) =>
           pipeline[p].rehearsed # NoOne /\ clone'[p] = NoOne,
         c = "deploy" => production.applied >= ChainOf[pipeline[p].commit]
  PROVE  PipelineOK(p)'
<1>1. PipelineOK(p) /\ DeployTypeOK
  BY DEF Inv
<1>2. /\ pipeline'[p].pc = c
      /\ pipeline'[p].reviewed = pipeline[p].reviewed
      /\ pipeline'[p].commit = pipeline[p].commit
      /\ pipeline'[p].plan = pipeline[p].plan
      /\ pipeline'[p].approved = pipeline[p].approved
      /\ pipeline'[p].source = pipeline[p].source
      /\ pipeline'[p].rehearsed = pipeline[p].rehearsed
  BY <1>1, Proceeds
<1>3. /\ RehearsedOK(p)' <=> RehearsedOK(p)
      /\ NeedsClone(p)' <=> NeedsClone(p)
      /\ PlanOK(p)' <=> PlanOK(p)
  BY <1>2 DEF RehearsedOK, PlanOn, NeedsClone, Pending, PlanOK
<1> QED
  BY <1>1, <1>2, <1>3 DEF PipelineOK, BeforeRehearsal

LEMMA CloneKeeps ==
  ASSUME Inv, NEW p \in Pipeline, CreateClone(p)
  PROVE  Inv'
<1>1. /\ pipeline[p].pc = "clone" /\ DeployTypeOK /\ PipelineOK(p)
      /\ UNCHANGED <<production, applier, outside>>
      /\ production \in Database
  BY DEF CreateClone, Inv, DeployTypeOK
<1>2. clone' \in {clone, [clone EXCEPT ![p] = production]}
  BY DEF CreateClone
<1>3. /\ clone' \in [Pipeline -> Database \cup {NoOne}]
      /\ \A q \in Pipeline : q # p => clone'[q] = clone[q]
  BY <1>1, <1>2 DEF DeployTypeOK
<1>4. CASE Proceed(p, "failed")
  BY <1>1, <1>3, <1>4, EarlyFailureKeeps DEF Preparing, BeforeRehearsal
<1>5. CASE ~Proceed(p, "failed")
  <2>1. Proceed(p, "rehearse") /\ clone'[p] = production
    BY <1>1, <1>5 DEF CreateClone, DeployTypeOK
  <2>2. /\ pipeline' \in [Pipeline -> PipelineState]
        /\ pipeline'[p].pc = "rehearse"
        /\ pipeline'[p].commit = pipeline[p].commit
        /\ pipeline'[p].plan = pipeline[p].plan
        /\ pipeline'[p].approved = pipeline[p].approved
        /\ pipeline'[p].rehearsed = pipeline[p].rehearsed
        /\ \A q \in Pipeline : q # p => pipeline'[q] = pipeline[q]
    BY <1>1, <2>1, Proceeds DEF PCs
  <2>3. DeployTypeOK'
    BY <1>1, <1>3, <2>2 DEF DeployTypeOK, outside
  <2>4. /\ pipeline[p].rehearsed = NoOne /\ PlanOK(p) /\ pipeline[p].approved
        /\ pipeline[p].commit \in Commit
    BY <1>1 DEF PipelineOK, BeforeRehearsal, Approved
  <2>5. PlanOK(p)'
    BY <1>1, <2>2, <2>4 DEF PlanOK
  <2>6. PipelineOK(p)'
    BY <1>1, <2>1, <2>2, <2>4, <2>5 DEF PipelineOK, BeforeRehearsal, Approved
  <2> QED
    BY <1>1, <1>3, <2>2, <2>3, <2>6, PreparingStep
       DEF outside, Alone, Preparing, BeforeRehearsal
<1> QED
  BY <1>4, <1>5

LEMMA RehearseKeeps ==
  ASSUME Inv, NEW p \in Pipeline, Rehearse(p)
  PROVE  Inv'
<1>1. /\ pipeline[p].pc = "rehearse" /\ DeployTypeOK /\ PipelineOK(p)
      /\ UNCHANGED <<production, applier, outside>>
  BY DEF Rehearse, Inv
<1>2. /\ pipeline[p] \in PipelineState /\ clone[p] \in Database
      /\ pipeline[p].commit \in Commit /\ pipeline[p].rehearsed = NoOne
      /\ PlanOK(p) /\ pipeline[p].approved
  BY <1>1 DEF DeployTypeOK, PipelineOK, BeforeRehearsal, Approved
<1>3. CASE Proceed(p, "cleanup") /\ UNCHANGED clone
  <2>1. PipelineOK(p)'
    BY <1>1, <1>2, <1>3, AdvanceOK DEF PCs, BeforeRehearsal
  <2>2. /\ pipeline' \in [Pipeline -> PipelineState]
        /\ pipeline'[p].commit = pipeline[p].commit
        /\ \A q \in Pipeline : q # p => pipeline'[q] = pipeline[q]
    BY <1>1, <1>3, Proceeds DEF PCs
  <2>3. DeployTypeOK'
    BY <1>1, <1>3, <2>2 DEF DeployTypeOK, outside
  <2> QED
    BY <1>1, <1>3, <2>1, <2>2, <2>3, PreparingStep
       DEF outside, Alone, Preparing, BeforeRehearsal
<1>4. CASE ~(Proceed(p, "cleanup") /\ UNCHANGED clone)
  <2> DEFINE new == [pipeline[p] EXCEPT !.pc = "cleanup", !.rehearsed = clone[p]]
  <2>1. /\ StillAsPlanned(p, clone[p]) /\ clone[p].data = pipeline[p].source
        /\ clone' = [clone EXCEPT ![p].applied = pipeline[p].plan.chain]
        /\ BecomePipeline(p, new)
    BY <1>4 DEF Rehearse
  <2>2. new \in PipelineState
    BY <1>2 DEF PipelineState
  <2>3. pipeline' \in [Pipeline -> PipelineState] /\ pipeline'[p] = new
        /\ \A q \in Pipeline : q # p => pipeline'[q] = pipeline[q]
    BY <1>1, <2>1, <2>2, Becomes
  <2>4. /\ new.pc = "cleanup" /\ new.approved = pipeline[p].approved
        /\ new.plan = pipeline[p].plan /\ new.commit = pipeline[p].commit
        /\ new.rehearsed = clone[p] /\ new.source = pipeline[p].source
    BY <1>2 DEF PipelineState
  <2>5. pipeline[p].plan.chain \in 0..Chain
    BY <1>2 DEF PipelineState, Plan
  <2>6. [clone[p] EXCEPT !.applied = pipeline[p].plan.chain] \in Database
    BY <1>2, <2>5 DEF Database
  <2>7. /\ clone' \in [Pipeline -> Database \cup {NoOne}]
        /\ \A q \in Pipeline : q # p => clone'[q] = clone[q]
    BY <1>1, <2>1, <2>6 DEF DeployTypeOK
  <2>8. DeployTypeOK'
    BY <1>1, <2>3, <2>7 DEF DeployTypeOK, outside
  <2>9. PlanOK(p)'
    BY <1>1, <1>2, <2>3, <2>4 DEF PlanOK
  <2>10. RehearsedOK(p)'
    BY <2>1, <2>3, <2>4 DEF RehearsedOK, StillAsPlanned, PlanOn
  <2>11. PipelineOK(p)'
    BY <1>2, <2>3, <2>4, <2>9, <2>10 DEF PipelineOK, BeforeRehearsal, Approved
  <2> QED
    BY <1>1, <2>3, <2>4, <2>7, <2>8, <2>11, PreparingStep
       DEF outside, Alone, Preparing, BeforeRehearsal
<1> QED
  BY <1>3, <1>4

LEMMA CleanupKeeps ==
  ASSUME Inv, NEW p \in Pipeline, Cleanup(p)
  PROVE  Inv'
<1>1. /\ pipeline[p].pc = "cleanup" /\ DeployTypeOK /\ PipelineOK(p)
      /\ UNCHANGED <<production, applier, outside>>
      /\ clone' = [clone EXCEPT ![p] = NoOne]
  BY DEF Cleanup, Inv
<1>2. /\ clone' \in [Pipeline -> Database \cup {NoOne}]
      /\ \A q \in Pipeline : q # p => clone'[q] = clone[q]
      /\ clone'[p] = NoOne
  BY <1>1 DEF DeployTypeOK
<1>3. CASE Proceed(p, "failed")
  BY <1>1, <1>2, <1>3, EarlyFailureKeeps DEF Preparing, BeforeRehearsal
<1>4. CASE Proceed(p, "recheck") /\ pipeline[p].rehearsed # NoOne
  <2>1. PlanOK(p) /\ pipeline[p].approved
    BY <1>1 DEF PipelineOK, Approved
  <2>2. PipelineOK(p)'
    BY <1>1, <1>2, <1>4, <2>1, AdvanceOK DEF PCs, BeforeRehearsal
  <2>3. /\ pipeline' \in [Pipeline -> PipelineState]
        /\ pipeline'[p].commit = pipeline[p].commit
        /\ \A q \in Pipeline : q # p => pipeline'[q] = pipeline[q]
    BY <1>1, <1>4, Proceeds DEF PCs
  <2>4. DeployTypeOK'
    BY <1>1, <1>2, <2>3 DEF DeployTypeOK, outside
  <2> QED
    BY <1>1, <1>2, <2>2, <2>3, <2>4, PreparingStep DEF outside, Alone, Preparing
<1> QED
  BY <1>3, <1>4 DEF Cleanup, ProceedIf

LEMMA CleanupFailsKeeps ==
  ASSUME Inv, NEW p \in Pipeline, CleanupFails(p)
  PROVE  Inv'
<1>1. /\ pipeline[p].pc = "cleanup" /\ DeployTypeOK /\ Proceed(p, "failed")
      /\ UNCHANGED <<production, applier, outside>>
      /\ clone' \in {clone, [clone EXCEPT ![p] = NoOne]}
  BY DEF CleanupFails, Inv
<1>2. /\ clone' \in [Pipeline -> Database \cup {NoOne}]
      /\ \A q \in Pipeline : q # p => clone'[q] = clone[q]
  BY <1>1 DEF DeployTypeOK
<1> QED
  BY <1>1, <1>2, EarlyFailureKeeps DEF Preparing, BeforeRehearsal

\* The steps from the recheck to the application, which leave the stores alone.
LEMMA PrepareOn ==
  ASSUME Inv, NEW p \in Pipeline, NEW c \in {"apply", "applying"}, Proceed(p, c),
         pipeline[p].pc \in {"recheck", "apply"}, UNCHANGED <<stores, outside>>
  PROVE  Inv'
<1>1. PipelineOK(p) /\ DeployTypeOK /\ c \in PCs \ BeforeRehearsal
  BY DEF Inv, PCs, BeforeRehearsal
<1>2. PlanOK(p) /\ pipeline[p].approved
      /\ (NeedsClone(p) => pipeline[p].rehearsed # NoOne /\ clone[p] = NoOne)
  BY <1>1 DEF PipelineOK, Approved
<1>3. PipelineOK(p)'
  BY <1>1, <1>2, AdvanceOK DEF stores
<1>4. /\ pipeline' \in [Pipeline -> PipelineState]
      /\ pipeline'[p].commit = pipeline[p].commit
      /\ \A q \in Pipeline : q # p => pipeline'[q] = pipeline[q]
  BY <1>1, Proceeds
<1>5. DeployTypeOK'
  BY <1>1, <1>4 DEF DeployTypeOK, outside, stores
<1> QED
  BY <1>3, <1>4, <1>5, PreparingStep DEF outside, stores, Alone, Preparing

LEMMA RecheckKeeps ==
  ASSUME Inv, NEW p \in Pipeline, Recheck(p)
  PROVE  Inv'
<1>1. /\ pipeline[p].pc = "recheck" /\ UNCHANGED <<stores, outside>>
      /\ Proceed(p, "apply") \/ Proceed(p, "failed")
  BY DEF Recheck, ProceedIf
<1>2. CASE Proceed(p, "apply")
  BY <1>1, <1>2, PrepareOn
<1>3. CASE Proceed(p, "failed")
  BY <1>1, <1>3, SameStores, EarlyFailureKeeps DEF Preparing
<1> QED
  BY <1>1, <1>2, <1>3

LEMMA BeginApplyKeeps ==
  ASSUME Inv, NEW p \in Pipeline, BeginApply(p)
  PROVE  Inv'
<1>1. /\ pipeline[p].pc = "apply" /\ UNCHANGED <<stores, outside>>
      /\ Proceed(p, "applying") \/ Proceed(p, "failed")
  BY DEF BeginApply, ProceedIf
<1>2. CASE Proceed(p, "applying")
  BY <1>1, <1>2, PrepareOn
<1>3. CASE Proceed(p, "failed")
  BY <1>1, <1>3, SameStores, EarlyFailureKeeps DEF Preparing
<1> QED
  BY <1>1, <1>2, <1>3

-----------------------------------------------------------------------------
(* The application, the release and the smoke test.                        *)

LEMMA ApplyOneKeeps ==
  ASSUME Inv, NEW p \in Pipeline, ApplyOne(p)
  PROVE  Inv'
<1> DEFINE next == production.applied + 1
<1>1. /\ pipeline[p].pc = "applying" /\ DeployTypeOK /\ PipelineOK(p)
      /\ production.applied < ChainOf[pipeline[p].commit]
      /\ production' = [production EXCEPT !.applied = @ + 1]
      /\ applier' = [applier EXCEPT ![next] = p]
      /\ UNCHANGED <<clone, outside, pipeline>>
  BY DEF ApplyOne, Inv
<1>2. /\ pipeline[p] \in PipelineState /\ production \in Database
      /\ pipeline[p].commit \in Commit /\ PlanOK(p) /\ pipeline[p].approved
      /\ (NeedsClone(p) => pipeline[p].rehearsed # NoOne /\ clone[p] = NoOne)
      /\ (pipeline[p].rehearsed # NoOne => RehearsedOK(p))
  BY <1>1 DEF DeployTypeOK, PipelineOK, Approved
<1>3. ChainOf[pipeline[p].commit] \in 0..Chain /\ production.applied \in 0..Chain
      /\ Chain \in Nat
  BY <1>2, Constants DEF Database
<1>4. next \in Migration /\ next <= ChainOf[pipeline[p].commit]
  BY <1>1, <1>3 DEF Migration
<1>5. production' \in Database /\ production'.applied = next
  BY <1>1, <1>2, <1>3, <1>4 DEF Database, Migration
<1>6. DeployTypeOK'
  BY <1>1, <1>4, <1>5 DEF DeployTypeOK, outside
<1>7. production'.applied >= production.applied
  BY <1>3, <1>5
<1>8. \A q \in Pipeline : PipelineOK(q)'
  BY <1>1, <1>6, <1>7, OthersKeep DEF outside
<1>9. VouchedFor(p, next)
  <2>1. next \in Pending(pipeline[p].plan)
    <3>1. pipeline[p].plan.applied \in 0..Chain /\ pipeline[p].plan.chain \in 0..Chain
      BY <1>2 DEF PipelineState, Plan
    <3> QED
      BY <1>2, <1>3, <1>4, <3>1 DEF PlanOK, Pending
  <2>2. next \in Gated => NeedsClone(p)
    BY <2>1 DEF NeedsClone
  <2> QED
    BY <1>2, <2>1, <2>2 DEF VouchedFor, RehearsedOK
<1>10. \A m \in Migration : applier'[m] = IF m = next THEN p ELSE applier[m]
  BY <1>1 DEF DeployTypeOK
<1>11. MigrationsVouchedFor'
  <2>1. ASSUME NEW m \in Migration, applier'[m] # NoOne
        PROVE  VouchedFor(applier'[m], m)
    BY <1>9, <1>10, <2>1 DEF Inv, MigrationsVouchedFor
  <2>2. ASSUME NEW m \in Migration, NEW q, VouchedFor(q, m)
        PROVE  VouchedFor(q, m)'
    BY <1>1, <2>2 DEF VouchedFor, PlanOn, Pending
  <2>3. ASSUME NEW m \in Migration, NEW q, applier'[m] = q, q # NoOne
        PROVE  VouchedFor(q, m)'
    BY <2>1, <2>2, <2>3
  <2> QED
    BY <2>3 DEF MigrationsVouchedFor
<1>12. SchemaBeforeCode'
  <2> SUFFICES ASSUME NEW q \in Pipeline, made[q] # "none"
               PROVE  production'.applied >= ChainOf[pipeline[q].commit]
    BY <1>1 DEF SchemaBeforeCode, outside
  <2>1. PipelineOK(q) /\ production.applied >= ChainOf[pipeline[q].commit]
    BY DEF Inv, SchemaBeforeCode
  <2>2. ChainOf[pipeline[q].commit] \in Nat
    BY <2>1, Constants DEF PipelineOK
  <2> QED
    BY <1>3, <1>5, <2>1, <2>2
<1>13. AppliersOK'
  BY <1>1, <1>10 DEF Inv, AppliersOK, Preparing, BeforeRehearsal
<1> QED
  BY <1>6, <1>8, <1>11, <1>12, <1>13 DEF Inv

LEMMA ApplyFailsKeeps ==
  ASSUME Inv, NEW p \in Pipeline, ApplyFails(p)
  PROVE  Inv'
<1>1. /\ pipeline[p].pc = "applying" /\ DeployTypeOK
      /\ production' \in {production, [production EXCEPT !.failed = TRUE]}
      /\ Proceed(p, "failed") /\ UNCHANGED <<clone, applier, outside>>
  BY DEF ApplyFails, Inv
<1>2. production' \in Database /\ production'.applied = production.applied
  BY <1>1 DEF DeployTypeOK, Database
<1>3. pipeline' \in [Pipeline -> PipelineState]
  BY <1>1, Proceeds DEF PCs
<1>4. DeployTypeOK'
  BY <1>1, <1>2, <1>3 DEF DeployTypeOK, outside
<1>5. PipelineOK(p)'
  BY <1>1, FailureOK DEF outside
<1> QED
  BY <1>1, <1>2, <1>4, <1>5, LaterStep DEF PCs, Preparing, BeforeRehearsal, outside

\* The steps from the end of the application on, which leave the database alone.
LEMMA GoesOn ==
  ASSUME Inv, NEW p \in Pipeline,
         NEW c \in {"verify", "release", "deploy", "await", "smoke", "smoking", "succeeded",
                    "failed"},
         Proceed(p, c), pipeline[p].pc # "idle", UNCHANGED <<stores, canonical, maintenance, acts>>,
         \/ UNCHANGED made
         \/ pipeline[p].pc = "deploy" /\ made' = [made EXCEPT ![p] = "ready"],
         c = "deploy" => production.applied >= ChainOf[pipeline[p].commit]
  PROVE  Inv'
<1>1. PipelineOK(p) /\ DeployTypeOK
      /\ c \in PCs \ BeforeRehearsal /\ c \notin Approved /\ c \notin Preparing
  BY DEF Inv, PCs, BeforeRehearsal, Approved, Preparing
<1>2. PipelineOK(p)'
  BY <1>1, AdvanceOK DEF stores
<1>3. pipeline' \in [Pipeline -> PipelineState]
  BY <1>1, Proceeds
<1>4. DeployTypeOK'
  BY <1>1, <1>3 DEF DeployTypeOK, stores
<1>5. \A q \in Pipeline : made'[q] # "none" =>
        \/ made[q] # "none"
        \/ q = p /\ production.applied >= ChainOf[pipeline[p].commit]
  BY <1>1 DEF DeployTypeOK, PipelineOK
<1> QED
  BY <1>1, <1>2, <1>4, <1>5, LaterStep DEF stores

\* An empty rest of the plan: the database has the whole chain of the commit.
LEMMA NothingPending ==
  ASSUME Inv, NEW p \in Pipeline, pipeline[p].pc # "idle",
         Pending(PlanOn(p, production)) = {}
  PROVE  production.applied >= ChainOf[pipeline[p].commit]
<1>1. production.applied \in Nat /\ ChainOf[pipeline[p].commit] \in Nat
  BY Constants DEF Inv, DeployTypeOK, Database, PipelineOK
<1>2. (production.applied + 1)..ChainOf[pipeline[p].commit] = {}
  BY DEF Pending, PlanOn
<1> QED
  BY <1>1, <1>2

LEMMA ReleaseKeeps ==
  ASSUME Inv, NEW p \in Pipeline, ReleasePhase(p)
  PROVE  Inv'
<1>1. CASE Pending(PlanOn(p, production)) = {}
  BY <1>1, NothingPending, GoesOn DEF ReleasePhase, ProceedIf, stores, outside
<1>2. CASE Pending(PlanOn(p, production)) # {}
  BY <1>2, GoesOn DEF ReleasePhase, ProceedIf, stores, outside
<1> QED
  BY <1>1, <1>2

LEMMA DeployKeeps ==
  ASSUME Inv, NEW p \in Pipeline, Deploy(p)
  PROVE  Inv'
<1>1. CASE made' = [made EXCEPT ![p] = "ready"] /\ Proceed(p, "await")
  BY <1>1, GoesOn DEF Deploy
<1>2. CASE made' = [made EXCEPT ![p] = "ready"] /\ Proceed(p, "failed")
  BY <1>2, GoesOn DEF Deploy
<1>3. CASE UNCHANGED made /\ Proceed(p, "failed")
  BY <1>3, GoesOn DEF Deploy
<1> QED
  BY <1>1, <1>2, <1>3 DEF Deploy

\* The other steps after the application only look.
LEMMA LookingKeeps ==
  ASSUME Inv, NEW p \in Pipeline,
         EndApply(p) \/ Verify(p) \/ AwaitCanonical(p) \/ SmokePhase(p) \/ SmokeEnds(p)
  PROVE  Inv'
<1>1. CASE EndApply(p)
  BY <1>1, GoesOn DEF EndApply, stores, outside
<1>2. CASE Verify(p)
  BY <1>2, GoesOn DEF Verify, ProceedIf, stores, outside
<1>3. CASE AwaitCanonical(p)
  BY <1>3, GoesOn DEF AwaitCanonical, stores, outside
<1>4. CASE SmokePhase(p)
  BY <1>4, GoesOn DEF SmokePhase, ProceedIf, stores, outside
<1>5. CASE SmokeEnds(p)
  BY <1>5, GoesOn DEF SmokeEnds, stores, outside
<1> QED
  BY <1>1, <1>2, <1>3, <1>4, <1>5

-----------------------------------------------------------------------------
(* Vercel, the operators and the business.                                 *)

LEMMA PromoteKeeps ==
  ASSUME Inv, NEW p \in Pipeline, Promote(p)
  PROVE  Inv'
<1>1. DeployTypeOK'
  BY DEF Inv, DeployTypeOK, Promote, stores
<1>2. \A q \in Pipeline : made'[q] # "none" => made[q] # "none"
  BY DEF Promote, Inv, DeployTypeOK
<1> QED
  BY <1>1, <1>2, OutsideStep DEF Promote, stores

LEMMA OperatorsKeep ==
  ASSUME Inv, Rollback \/ SwitchMaintenance
  PROVE  Inv'
<1>1. Act => acts' \in 0..MaxActs
  BY Constants DEF Inv, DeployTypeOK, Act
<1>2. DeployTypeOK'
  <2>1. CASE Rollback
    BY <1>1, <2>1 DEF Rollback, stores, Inv, DeployTypeOK
  <2>2. CASE SwitchMaintenance
    BY <1>1, <2>2 DEF SwitchMaintenance, stores, Inv, DeployTypeOK
  <2> QED
    BY <2>1, <2>2
<1> QED
  BY <1>2, OutsideStep DEF Rollback, SwitchMaintenance, stores

LEMMA ResolveKeeps ==
  ASSUME Inv, ResolveFailed
  PROVE  Inv'
<1>1. acts' \in 0..MaxActs
  BY Constants DEF Inv, DeployTypeOK, ResolveFailed, Act
<1>2. production' \in Database /\ production'.applied = production.applied
  <2> DEFINE m == production.applied + 1
  <2>1. /\ production \in Database
        /\ production' = [production EXCEPT !.failed = FALSE, !.resolved[m] = @ + 1]
    BY DEF Inv, DeployTypeOK, ResolveFailed
  <2>2. [production.resolved EXCEPT ![m] = @ + 1] \in [Migration -> Nat]
    <3>1. production.resolved \in [Migration -> Nat]
      BY <2>1 DEF Database
    <3>2. CASE m \in Migration
      BY <3>1, <3>2
    <3>3. CASE m \notin Migration
      BY <3>1, <3>3
    <3> QED
      BY <3>2, <3>3
  <2> QED
    BY <2>1, <2>2 DEF Database
<1>3. DeployTypeOK'
  BY <1>1, <1>2 DEF Inv, DeployTypeOK, ResolveFailed
<1> QED
  BY <1>2, <1>3, OutsideStep DEF ResolveFailed

LEMMA WriteKeeps ==
  ASSUME Inv, Write
  PROVE  Inv'
<1>1. production' \in Database /\ production'.applied = production.applied
  BY DEF Inv, DeployTypeOK, Write, Database
<1>2. DeployTypeOK'
  BY <1>1 DEF Inv, DeployTypeOK, Write, outside
<1> QED
  BY <1>1, <1>2, OutsideStep DEF Write, outside

-----------------------------------------------------------------------------
(* The theorems.                                                           *)

LEMMA StutterKeeps ==
  ASSUME Inv, UNCHANGED deployVars
  PROVE  Inv'
<1>1. DeployTypeOK'
  BY DEF Inv, DeployTypeOK, deployVars
<1> QED
  BY <1>1, OutsideStep DEF deployVars

LEMMA NextKeeps == Inv /\ [DeployNext]_deployVars => Inv'
<1> SUFFICES ASSUME Inv, [DeployNext]_deployVars PROVE Inv'
  OBVIOUS
<1>1. ASSUME NEW p \in Pipeline, PipelineStep(p) PROVE Inv'
  <2>1. CASE \E v \in Commit, reviewed \in BOOLEAN : StartPipeline(p, v, reviewed)
    BY <2>1, StartKeeps
  <2>2. CASE ValidatePhase(p) \/ Approve(p) \/ MigratePhase(p)
    BY <2>2, ValidateKeeps, ApproveKeeps, MigrateKeeps
  <2>3. CASE CreateClone(p) \/ Rehearse(p) \/ Cleanup(p) \/ CleanupFails(p) \/ Recheck(p)
    BY <2>3, CloneKeeps, RehearseKeeps, CleanupKeeps, CleanupFailsKeeps, RecheckKeeps
  <2>4. CASE BeginApply(p) \/ ApplyOne(p) \/ ApplyFails(p)
    BY <2>4, BeginApplyKeeps, ApplyOneKeeps, ApplyFailsKeeps
  <2>5. CASE ReleasePhase(p) \/ Deploy(p) \/ Promote(p)
    BY <2>5, ReleaseKeeps, DeployKeeps, PromoteKeeps
  <2>6. CASE EndApply(p) \/ Verify(p) \/ AwaitCanonical(p) \/ SmokePhase(p) \/ SmokeEnds(p)
    BY <2>6, LookingKeeps
  <2> QED
    BY <1>1, <2>1, <2>2, <2>3, <2>4, <2>5, <2>6 DEF PipelineStep
<1>2. CASE Rollback \/ SwitchMaintenance
  BY <1>2, OperatorsKeep
<1>3. CASE ResolveFailed
  BY <1>3, ResolveKeeps
<1>4. CASE Write
  BY <1>4, WriteKeeps
<1>5. CASE UNCHANGED deployVars
  BY <1>5, StutterKeeps
<1> QED
  BY <1>1, <1>2, <1>3, <1>4, <1>5 DEF DeployNext

\* The invariant of the deployment tools: what a pipeline relies on at each of its phases
\* (main.ts, reviewed-migration-workflow.ts), and who has applied what.
THEOREM Invariance == DeploySpec => []Inv
<1> QED
  BY InitInv, NextKeeps, PTL DEF DeploySpec

\* No migration reaches production that was not in an approved plan, and no gated one that
\* was not rehearsed on a clone that is gone (runReviewedMigrationApplication, applyTenantUpgrade).
THEOREM OnlyVouchedMigrations == DeploySpec => []MigrationsVouchedFor
<1>1. Inv => MigrationsVouchedFor
  BY DEF Inv
<1> QED
  BY <1>1, Invariance, PTL

\* No deployment exists whose migrations are not all applied (runDeploymentWorkflow).
THEOREM NoCodeBeforeItsSchema == DeploySpec => []SchemaBeforeCode
<1>1. Inv => SchemaBeforeCode
  BY DEF Inv
<1> QED
  BY <1>1, Invariance, PTL

-----------------------------------------------------------------------------
(* Port allocation: the inductive invariant.                               *)

\* The process of an identity is there, and is not a later one of its number.
Serves(artifact) == artifact # Nobody /\ Lives(artifact)

\* What every process keeps to.
Keeps(p, me) ==
  /\ me.pc # "ended" => me.checkout # Nobody /\ starts[p] # 0
  /\ me.pc = "ended" => me.stage = "over"
  /\ me.stage = "registered" /\ me.pc # "ready" => me.job = "clear"

\* Who holds the lock has its name in it.
Inside == {"inside", "write", "leave"}
HoldsLock(p, me) == me.pc \in Inside => lock.made /\ lock.name = Me(p)

\* A file about to be written is the first lease of a checkout that has none, ...
Creates(me) ==
  /\ SlotsOf(me.checkout) = {} /\ leases[me.slot] = NoLease
  /\ me.to.owner = me.checkout /\ me.to.id # 0 /\ me.to.artifact = Nobody
  /\ me.held = Holding(me.slot, me.to) /\ me.then # "registered"

\* ... or the lease the process was shown, with its name in it, ...
Registers(p, me) ==
  /\ leases[me.slot].owner = me.checkout
  /\ me.to = [leases[me.slot] EXCEPT !.artifact = Me(p)]
  /\ me.held.lease.id = leases[me.slot].id /\ ~Serves(leases[me.slot].artifact)
  /\ me.then = "registered"

\* ... or no lease, or no name in one, of nobody who lives, or one without its own name.
Clears(p, me) ==
  /\ leases[me.slot] # NoLease /\ me.then # "registered"
  /\ me.to \in {NoLease, [leases[me.slot] EXCEPT !.artifact = Nobody]}
  /\ \/ ~Serves(leases[me.slot].artifact)
     \/ /\ me.job = "clear" /\ leases[me.slot].artifact = Me(p)
        /\ me.to = [leases[me.slot] EXCEPT !.artifact = Nobody]

WriteFits(p, me) ==
  me.pc = "write" => me.slot # 0 /\ (Creates(me) \/ Registers(p, me) \/ Clears(p, me))

\* A server that has registered, or is about to see that it has, is named by its lease.
ServesItsLease(p, me) ==
  Registered(me) =>
    me.held.slot # 0 /\ leases[me.held.slot] = [me.held.lease EXCEPT !.artifact = Me(p)]

Fits(p, me) == Keeps(p, me) /\ HoldsLock(p, me) /\ WriteFits(p, me) /\ ServesItsLease(p, me)

\* A lease belongs to a checkout and names a process that was started.
LeaseFits(s) ==
  /\ leases[s] = NoLease \/ (leases[s].owner \in Checkout /\ leases[s].id # 0)
  /\ leases[s].artifact # Nobody => leases[s].artifact[2] <= starts[leases[s].artifact[1]]

\* A checkout has one slot.
OneSlot ==
  \A s, t \in Slot : leases[s].owner = leases[t].owner /\ leases[s] # NoLease => s = t

\* The leases in the files, and those that processes hold.
Shown == {Holding(s, leases[s]) : s \in Slot} \cup {process[p].held : p \in Process}

\* Two leases of one number are of one checkout and one slot.
SameLease(h, k) ==
  h.lease.id = k.lease.id /\ h.lease.id # 0 =>
    h.slot = k.slot /\ h.lease.owner = k.lease.owner

IdsName ==
  /\ \A h \in Shown : h.lease.id <= allocations
  /\ \A h, k \in Shown : SameLease(h, k)

PortsInv ==
  /\ PortsTypeOK
  /\ \A p \in Process : Fits(p, process[p])
  /\ \A s \in Slot : LeaseFits(s)
  /\ OneSlot /\ IdsName

-----------------------------------------------------------------------------
(* Port allocation: types and identities.                                  *)

LEMMA Identities ==
  ASSUME PortsTypeOK, NEW p \in Process
  PROVE  /\ starts[p] \in Nat /\ Me(p) # Nobody /\ Me(p) \notin Checkout \cap {Nobody}
         /\ \A q \in Process : Me(p) = Me(q) => p = q
         /\ starts[p] # 0 => Me(p) \in Identity
  BY PortsAssumption DEF PortsTypeOK, Me, Identity

LEMMA NoLeaseType ==
  /\ NoLease \in Lease /\ NoLease.owner = Nobody /\ NoLease.id = 0 /\ NoLease.artifact = Nobody
  /\ NothingHeld \in Held /\ NothingHeld.slot = 0 /\ NothingHeld.lease = NoLease
  BY PortsAssumption DEF NoLease, Lease, NothingHeld, Holding, Held

LEMMA EndedType ==
  /\ Ended \in ProcessState /\ Ended.pc = "ended" /\ Ended.stage = "over" /\ Ended.then = "over"
  /\ Ended.held = NothingHeld
  BY NoLeaseType DEF Ended, ProcessState, Job, Stage

LEMMA HoldingType ==
  ASSUME NEW s \in Slot, NEW l \in Lease
  PROVE  Holding(s, l) \in Held /\ Holding(s, l).slot = s /\ Holding(s, l).lease = l
  BY DEF Holding, Held

\* The lowest slot of some.
LEMMA LowestSlot ==
  ASSUME NEW S, S \subseteq Slot, S # {}
  PROVE  Min(S) \in S
  <1>1. PICK x \in S : \A y \in S : ~(<<y, x>> \in OpToRel(<, Nat))
    BY NatLessThanWellFounded, WFMin, PortsAssumption
  <1>2. ASSUME NEW y \in S PROVE x <= y
    <2>1. x \in Nat /\ y \in Nat
      BY PortsAssumption
    <2>2. y < x => <<y, x>> \in {ss \in Nat \X Nat : ss[1] < ss[2]}
      BY <2>1
    <2>. QED BY <1>1, <2>1, <2>2 DEF OpToRel
  <1>. QED BY <1>2 DEF Min

LEMMA SlotType == Slot \subseteq Nat /\ 0 \notin Slot
  BY PortsAssumption

\* A lease of a checkout, as the invariant has it.
LEMMA OwnLease ==
  ASSUME PortsInv, NEW c \in Checkout, NEW s \in SlotsOf(c)
  PROVE  s \in Slot /\ leases[s] \in Lease /\ leases[s].owner = c /\ leases[s].id # 0
         /\ leases[s] # NoLease /\ Holding(s, leases[s]) \in Shown
  BY NoLeaseType, PortsAssumption
  DEF SlotsOf, PortsInv, PortsTypeOK, LeaseFits, Shown

LEMMA Mine ==
  ASSUME PortsInv, NEW p \in Process, process[p].pc # "ended"
  PROVE  /\ process[p] \in ProcessState /\ Fits(p, process[p]) /\ process[p].checkout \in Checkout
         /\ Me(p) \in Identity /\ process[p].held \in Shown
  BY Identities DEF PortsInv, PortsTypeOK, Fits, Keeps, ProcessState, Shown

LEMMA InitPorts == PortsInit => PortsInv
  <1> SUFFICES ASSUME PortsInit PROVE PortsInv
    OBVIOUS
  <1>1. PortsTypeOK
    BY EndedType, NoLeaseType, PortsAssumption DEF PortsInit, PortsTypeOK
  <1>2. \A p \in Process : process[p] = Ended
    BY DEF PortsInit
  <1>3. ASSUME NEW p \in Process PROVE Fits(p, Ended)
    BY EndedType DEF Fits, Keeps, HoldsLock, Inside, WriteFits, ServesItsLease, Registered
  <1>4. \A s \in Slot : LeaseFits(s)
    BY NoLeaseType DEF PortsInit, LeaseFits
  <1>5. OneSlot
    BY DEF PortsInit, OneSlot
  <1>6. \A h \in Shown : h.lease = NoLease
    BY EndedType, NoLeaseType, HoldingType DEF PortsInit, Shown
  <1>7. IdsName
    BY <1>6, NoLeaseType DEF PortsInit, IdsName, SameLease
  <1>. QED BY <1>1, <1>2, <1>3, <1>4, <1>5, <1>7 DEF PortsInv

-----------------------------------------------------------------------------
(* Port allocation: steps of a process that write no file.                 *)

\* A lease of a number that is known already, or of none, or of a new number.
Agrees(held, count) ==
  \/ held \in Shown
  \/ held.lease.id = 0
  \/ held.lease.id = allocations + 1 /\ count = allocations + 1

LEMMA IdsKept ==
  ASSUME PortsInv, NEW p \in Process, NEW new \in ProcessState, Become(p, new),
         allocations' \in {allocations, allocations + 1}, UNCHANGED leases,
         Agrees(new.held, allocations')
  PROVE  IdsName'
  <1>1. \A q \in Process : process'[q] = IF q = p THEN new ELSE process[q]
    BY DEF PortsInv, PortsTypeOK, Become
  <1>2. Shown' \subseteq Shown \cup {new.held}
    BY <1>1 DEF Shown
  <1>3. \A h \in Shown \cup {new.held} : h.lease.id \in Nat
    <2>1. \A h \in Shown \cup {new.held} : h.lease \in Lease
      BY HoldingType DEF Shown, PortsInv, PortsTypeOK, ProcessState, Held
    <2>. QED BY <2>1, PortsAssumption DEF Lease
  <1>4. allocations \in Nat
    BY PortsAssumption DEF PortsInv, PortsTypeOK
  <1>5. \A h \in Shown : h.lease.id <= allocations
    BY DEF PortsInv, IdsName
  <1>6. \A h \in Shown' : h.lease.id <= allocations'
    BY <1>2, <1>3, <1>4, <1>5 DEF Agrees
  <1>7. ASSUME NEW h \in Shown', NEW k \in Shown' PROVE SameLease(h, k)
    <2>1. CASE h \in Shown /\ k \in Shown
      BY <2>1 DEF PortsInv, IdsName
    <2>2. CASE new.held \in Shown
      BY <1>2, <2>2 DEF PortsInv, IdsName
    <2>3. CASE new.held \notin Shown
      <3>1. \A g \in Shown : g.lease.id = new.held.lease.id => g.lease.id = 0
        BY <1>3, <1>4, <1>5, <2>3 DEF Agrees
      <3>. QED BY <1>2, <2>1, <2>3, <3>1 DEF SameLease
    <2>. QED BY <2>1, <2>2, <2>3
  <1>. QED BY <1>6, <1>7 DEF IdsName, SameLease

\* Nobody comes to serve a lease by a step of a process that is there.
LEMMA NobodyNew ==
  ASSUME PortsInv, NEW p \in Process, NEW new, Become(p, new), UNCHANGED starts,
         new.pc # "ended" => Running(p), NEW x \in Identity \cup {Nobody}, Serves(x)'
  PROVE  Serves(x)
  <1>1. x \in Process \X (1..MaxStarts) /\ x # Nobody
    BY DEF Serves, Identity
  <1>2. \A q \in Process : process'[q] = IF q = p THEN new ELSE process[q]
    BY DEF PortsInv, PortsTypeOK, Become
  <1>. QED BY <1>1, <1>2 DEF Serves, Lives, Running

\* The lock is given only by who has it, and taken only where nobody has it.
LEMMA ProcessMoves ==
  ASSUME PortsInv, NEW p \in Process, NEW new \in ProcessState, Become(p, new),
         new.pc # "ended" => Running(p), UNCHANGED <<leases, starts>>,
         allocations' \in 0..MaxAllocations, allocations' \in {allocations, allocations + 1},
         Agrees(new.held, allocations'),
         lock' \in [made : BOOLEAN, name : Identity \cup {Nobody}],
         \A q \in Process : q # p /\ process[q].pc \in Inside => lock'.made /\ lock'.name = Me(q),
         new.pc \in Inside => lock'.made /\ lock'.name = Me(p),
         Keeps(p, new), WriteFits(p, new), ServesItsLease(p, new)
  PROVE  PortsInv'
  <1>1. process' \in [Process -> ProcessState]
        /\ \A q \in Process : process'[q] = IF q = p THEN new ELSE process[q]
    BY DEF PortsInv, PortsTypeOK, Become
  <1>2. PortsTypeOK'
    BY <1>1 DEF PortsInv, PortsTypeOK
  <1>3. IdsName'
    BY IdsKept
  <1>4. \A s \in Slot : LeaseFits(s)'
    BY DEF PortsInv, LeaseFits
  <1>5. OneSlot'
    BY DEF PortsInv, OneSlot
  <1>6. \A x \in Identity \cup {Nobody} : Serves(x)' => Serves(x)
    BY NobodyNew
  <1>7. \A q \in Process : Me(q)' = Me(q)
    BY DEF Me
  <1>8. ASSUME NEW me \in ProcessState, NEW q \in Process, WriteFits(q, me)
        PROVE  WriteFits(q, me)'
    <2>1. CASE me.pc = "write"
      <3>1. me.slot \in Slot /\ leases[me.slot].artifact \in Identity \cup {Nobody}
        BY <1>8, <2>1 DEF WriteFits, ProcessState, PortsInv, PortsTypeOK, Lease
      <3>2. Creates(me) => Creates(me)'
        BY DEF Creates, SlotsOf
      <3>3. Registers(q, me) => Registers(q, me)'
        BY <1>6, <1>7, <3>1 DEF Registers, Serves
      <3>4. Clears(q, me) => Clears(q, me)'
        BY <1>6, <1>7, <3>1 DEF Clears, Serves
      <3>. QED BY <1>8, <3>2, <3>3, <3>4 DEF WriteFits
    <2>2. CASE me.pc # "write"
      BY <2>2 DEF WriteFits
    <2>. QED BY <2>1, <2>2
  <1>9. ASSUME NEW q \in Process PROVE Fits(q, process[q])'
    <2>1. PICK me \in ProcessState : me = process'[q]
      BY <1>1
    <2>2. Keeps(q, me) /\ WriteFits(q, me) /\ ServesItsLease(q, me)
      BY <1>1, <2>1 DEF PortsInv, Fits
    <2>3. Keeps(q, me)' /\ ServesItsLease(q, me)'
      BY <1>7, <2>2 DEF Keeps, ServesItsLease, Registered
    <2>4. HoldsLock(q, me)'
      BY <1>1, <1>7, <2>1 DEF HoldsLock
    <2>5. Fits(q, me)'
      BY <1>8, <2>2, <2>3, <2>4 DEF Fits
    <2>. QED BY <2>1, <2>5 DEF Fits, Keeps, HoldsLock, WriteFits, Creates, Registers, Clears,
                               ServesItsLease, Registered
  <1>. QED BY <1>2, <1>3, <1>4, <1>5, <1>9 DEF PortsInv

\* A step that leaves the lock alone.
LEMMA LockStays ==
  ASSUME PortsInv, NEW p \in Process, NEW new \in ProcessState, Become(p, new),
         new.pc # "ended" => Running(p), UNCHANGED <<leases, lock, starts>>,
         allocations' \in 0..MaxAllocations, allocations' \in {allocations, allocations + 1},
         Agrees(new.held, allocations'),
         new.pc \in Inside => process[p].pc \in Inside,
         Keeps(p, new), WriteFits(p, new), ServesItsLease(p, new)
  PROVE  PortsInv'
  <1>1. \A q \in Process : process[q].pc \in Inside => lock'.made /\ lock'.name = Me(q)
    BY DEF PortsInv, Fits, HoldsLock
  <1>2. lock' \in [made : BOOLEAN, name : Identity \cup {Nobody}]
    BY DEF PortsInv, PortsTypeOK
  <1>. QED BY <1>1, <1>2, ProcessMoves

LEMMA Counting ==
  PortsInv /\ UNCHANGED allocations =>
    allocations' \in 0..MaxAllocations /\ allocations' \in {allocations, allocations + 1}
  BY DEF PortsInv, PortsTypeOK

LEMMA EndProcessKept ==
  ASSUME PortsInv, NEW p \in Process, EndProcess(p)
  PROVE  PortsInv'
  <1>1. Keeps(p, Ended) /\ WriteFits(p, Ended) /\ ServesItsLease(p, Ended)
    BY EndedType DEF Keeps, WriteFits, ServesItsLease, Registered
  <1>2. Agrees(Ended.held, allocations')
    BY EndedType, NoLeaseType DEF Agrees
  <1>. QED BY <1>1, <1>2, EndedType, Counting, LockStays DEF EndProcess, Inside

LEMMA ListenKept ==
  ASSUME PortsInv, NEW p \in Process, Listen(p)
  PROVE  PortsInv'
  <1> DEFINE new == [process[p] EXCEPT !.listening = TRUE]
  <1>0. process[p].pc = "ready"
    BY DEF Listen
  <1>1. /\ new \in ProcessState /\ new.pc = "ready" /\ new.held = process[p].held
        /\ new.stage = process[p].stage /\ new.job = process[p].job
        /\ new.checkout = process[p].checkout
    BY <1>0, Mine DEF ProcessState
  <1>2. Keeps(p, new) /\ WriteFits(p, new) /\ ServesItsLease(p, new)
    BY <1>0, <1>1, Mine DEF Fits, Keeps, WriteFits, ServesItsLease, Registered
  <1>3. Agrees(new.held, allocations')
    BY <1>0, <1>1, Mine DEF Agrees
  <1>4. Become(p, new) /\ UNCHANGED <<leases, lock, starts, allocations>>
    BY DEF Listen
  <1>. HIDE DEF new
  <1>. QED BY <1>0, <1>1, <1>2, <1>3, <1>4, Counting, LockStays DEF Running, Inside

\* What a process may set out to do.
LEMMA JobsType ==
  ASSUME NEW state, NEW job \in NextJobs(state)
  PROVE  job \in Job /\ (state.stage = "registered" => job = "clear")
  BY DEF NextJobs, Job

LEMMA FailedType == \A job : Failed(job) \in {"cleared", "over"}
  BY DEF Failed

LEMMA MakeLockKept ==
  ASSUME PortsInv, NEW p \in Process, NEW job, MakeLock(p, job)
  PROVE  PortsInv'
  <1>0. process[p].pc = "ready" /\ job \in NextJobs(process[p]) /\ ~lock.made
    BY DEF MakeLock
  <1>1. PICK closed \in BOOLEAN :
          Become(p, [process[p] EXCEPT !.pc = "name", !.job = job,
                                       !.listening = @ /\ ~(job = "clear" /\ closed)])
    BY DEF MakeLock
  <1> DEFINE new == [process[p] EXCEPT !.pc = "name", !.job = job,
                                       !.listening = @ /\ ~(job = "clear" /\ closed)]
  <1>2. /\ new \in ProcessState /\ new.pc = "name" /\ new.held = process[p].held
        /\ new.stage = process[p].stage /\ new.job = job
        /\ new.checkout = process[p].checkout
    BY <1>0, JobsType, Mine DEF ProcessState
  <1>3. Keeps(p, new) /\ WriteFits(p, new) /\ ServesItsLease(p, new)
    BY <1>0, <1>2, JobsType, Mine DEF Fits, Keeps, WriteFits, ServesItsLease, Registered
  <1>4. Agrees(new.held, allocations')
    BY <1>0, <1>2, Mine DEF Agrees
  <1>5. \A q \in Process : process[q].pc \notin Inside
    BY <1>0 DEF PortsInv, Fits, HoldsLock
  <1>6. lock' \in [made : BOOLEAN, name : Identity \cup {Nobody}]
    BY DEF MakeLock
  <1>7. Become(p, new) /\ UNCHANGED <<leases, starts, allocations>>
    BY <1>1 DEF MakeLock
  <1>. HIDE DEF new
  <1>. QED BY <1>0, <1>2, <1>3, <1>4, <1>5, <1>6, <1>7, Counting, ProcessMoves DEF Running, Inside

\* A process that goes back to work at another stage, or not.
LEMMA ReadyKept ==
  ASSUME PortsInv, NEW p \in Process, NEW stage \in Stage, Running(p),
         Become(p, [process[p] EXCEPT !.pc = "ready", !.stage = stage]),
         stage = "registered" => Registered(process[p]),
         UNCHANGED <<leases, starts, allocations>>,
         lock' \in [made : BOOLEAN, name : Identity \cup {Nobody}],
         \A q \in Process : q # p /\ process[q].pc \in Inside => lock'.made /\ lock'.name = Me(q)
  PROVE  PortsInv'
  <1> DEFINE new == [process[p] EXCEPT !.pc = "ready", !.stage = stage]
  <1>0. process[p].pc # "ended"
    BY DEF Running
  <1>1. /\ new \in ProcessState /\ new.pc = "ready" /\ new.held = process[p].held
        /\ new.stage = stage /\ new.job = process[p].job
        /\ new.checkout = process[p].checkout
    BY <1>0, Mine, ZenonT(40) DEF ProcessState
  <1>2. Keeps(p, new) /\ WriteFits(p, new) /\ ServesItsLease(p, new)
    BY <1>0, <1>1, Mine DEF Fits, Keeps, WriteFits, ServesItsLease, Registered
  <1>3. Agrees(new.held, allocations')
    BY <1>0, <1>1, Mine DEF Agrees
  <1>. HIDE DEF new
  <1>4. Become(p, new)
    BY DEF new
  <1>. QED BY <1>1, <1>2, <1>3, <1>4, Counting, ProcessMoves DEF Inside

LEMMA StageType == Stage = {"new", "held", "registered", "cleared", "seen", "over"}
  BY DEF Stage

\* The lock as it is left to the others.
LEMMA LockOfOthers ==
  ASSUME PortsInv, UNCHANGED lock
  PROVE  /\ lock' \in [made : BOOLEAN, name : Identity \cup {Nobody}]
         /\ \A q \in Process : process[q].pc \in Inside => lock'.made /\ lock'.name = Me(q)
  BY DEF PortsInv, PortsTypeOK, Fits, HoldsLock

LEMMA NameLockKept ==
  ASSUME PortsInv, NEW p \in Process, NameLock(p)
  PROVE  PortsInv'
  <1>0. process[p].pc = "name" /\ UNCHANGED <<leases, starts, allocations>> /\ Running(p)
    BY DEF NameLock, Running
  <1>1. CASE /\ lock.made /\ lock.name = Nobody
             /\ lock' = [lock EXCEPT !.name = Me(p)]
             /\ Become(p, [process[p] EXCEPT !.pc = "inside"])
    <2> DEFINE new == [process[p] EXCEPT !.pc = "inside"]
    <2>1. /\ new \in ProcessState /\ new.pc = "inside" /\ new.held = process[p].held
          /\ new.stage = process[p].stage /\ new.job = process[p].job
          /\ new.checkout = process[p].checkout
      BY <1>0, Mine DEF ProcessState
    <2>2. Keeps(p, new) /\ WriteFits(p, new) /\ ServesItsLease(p, new)
      BY <1>0, <2>1, Mine DEF Fits, Keeps, WriteFits, ServesItsLease, Registered
    <2>3. Agrees(new.held, allocations')
      BY <1>0, <2>1, Mine DEF Agrees
    <2>4. \A q \in Process : process[q].pc \notin Inside
      BY <1>1, Identities DEF PortsInv, Fits, HoldsLock
    <2>5. /\ lock' \in [made : BOOLEAN, name : Identity \cup {Nobody}]
          /\ lock'.made /\ lock'.name = Me(p)
      BY <1>0, <1>1, Mine DEF PortsInv, PortsTypeOK
    <2>6. Become(p, new)
      BY <1>1
    <2>. HIDE DEF new
    <2>. QED BY <1>0, <2>1, <2>2, <2>3, <2>4, <2>5, <2>6, Counting, ProcessMoves
  <1>2. CASE /\ Become(p, [process[p] EXCEPT !.pc = "ready", !.stage = Failed(process[p].job)])
             /\ UNCHANGED lock
    <2>1. Failed(process[p].job) \in Stage /\ Failed(process[p].job) # "registered"
      BY FailedType DEF Stage
    <2>. QED BY <1>0, <1>2, <2>1, LockOfOthers, ReadyKept
  <1>. QED BY <1>1, <1>2 DEF NameLock

LEMMA RemoveNameKept ==
  ASSUME PortsInv, NEW p \in Process, RemoveName(p)
  PROVE  PortsInv'
  <1>0. /\ process[p].pc = "leave" /\ UNCHANGED <<leases, starts, allocations>> /\ Running(p)
        /\ process[p].pc \in Inside
    BY DEF RemoveName, Running, Inside
  <1>1. lock.made /\ lock.name = Me(p)
    BY <1>0, Mine DEF Fits, HoldsLock
  <1> DEFINE new == [process[p] EXCEPT !.pc = "rmdir"]
  <1>2. /\ new \in ProcessState /\ new.pc = "rmdir" /\ new.held = process[p].held
        /\ new.stage = process[p].stage /\ new.job = process[p].job /\ new.then = process[p].then
        /\ new.checkout = process[p].checkout
    BY <1>0, Mine DEF ProcessState
  <1>3. Keeps(p, new) /\ WriteFits(p, new) /\ ServesItsLease(p, new)
    BY <1>0, <1>2, Mine DEF Fits, Keeps, WriteFits, ServesItsLease, Registered
  <1>4. Agrees(new.held, allocations')
    BY <1>0, <1>2, Mine DEF Agrees
  <1>5. \A q \in Process : q # p => process[q].pc \notin Inside
    BY <1>1, Identities DEF PortsInv, Fits, HoldsLock
  <1>6. /\ lock' \in [made : BOOLEAN, name : Identity \cup {Nobody}] /\ Become(p, new)
    BY <1>1 DEF RemoveName, PortsInv, PortsTypeOK
  <1>. HIDE DEF new
  <1>. QED BY <1>0, <1>2, <1>3, <1>4, <1>5, <1>6, Counting, ProcessMoves DEF Inside

LEMMA RemoveDirectoryKept ==
  ASSUME PortsInv, NEW p \in Process, RemoveDirectory(p)
  PROVE  PortsInv'
  <1>0. process[p].pc = "rmdir" /\ UNCHANGED <<leases, starts, allocations>> /\ Running(p)
        /\ process[p].then \in Stage
    BY Mine DEF RemoveDirectory, Running, ProcessState
  <1>1. CASE /\ lock.made /\ lock.name = Nobody
             /\ lock' = [lock EXCEPT !.made = FALSE]
             /\ Become(p, [process[p] EXCEPT !.pc = "ready", !.stage = process[p].then])
    <2>1. \A q \in Process : process[q].pc \notin Inside
      BY <1>1, Identities DEF PortsInv, Fits, HoldsLock
    <2>2. lock' \in [made : BOOLEAN, name : Identity \cup {Nobody}]
      BY <1>1 DEF PortsInv, PortsTypeOK
    <2>3. process[p].then = "registered" => Registered(process[p])
      BY <1>0 DEF Registered
    <2>. QED BY <1>0, <1>1, <2>1, <2>2, <2>3, ReadyKept
  <1>2. CASE /\ Become(p, [process[p] EXCEPT !.pc = "ready", !.stage = Failed(process[p].job)])
             /\ UNCHANGED lock
    <2>1. Failed(process[p].job) \in Stage /\ Failed(process[p].job) # "registered"
      BY FailedType DEF Stage
    <2>. QED BY <1>0, <1>2, <2>1, LockOfOthers, ReadyKept
  <1>. QED BY <1>1, <1>2 DEF RemoveDirectory

-----------------------------------------------------------------------------
(* Port allocation: the jobs.                                              *)

\* A process that has the lock decides what to write, or to write nothing.
LEMMA JobDecides ==
  ASSUME PortsInv, NEW p \in Process, process[p].pc = "inside",
         NEW new \in ProcessState, Become(p, new), new.pc \in {"write", "leave"},
         new.stage = process[p].stage, new.job = process[p].job,
         new.checkout = process[p].checkout,
         new.pc = "leave" => new.then # "registered",
         WriteFits(p, new), UNCHANGED <<leases, lock, starts>>,
         allocations' \in 0..MaxAllocations, allocations' \in {allocations, allocations + 1},
         Agrees(new.held, allocations')
  PROVE  PortsInv'
  <1>1. Keeps(p, new) /\ ServesItsLease(p, new)
    BY Mine DEF Fits, Keeps, ServesItsLease, Registered
  <1>. QED BY <1>1, LockStays DEF Running, Inside

LEMMA ReturnsKept ==
  ASSUME PortsInv, NEW p \in Process, process[p].pc = "inside",
         NEW stage \in Stage, stage # "registered", Returns(p, stage),
         UNCHANGED <<leases, lock, starts, allocations>>
  PROVE  PortsInv'
  <1> DEFINE new == [process[p] EXCEPT !.pc = "leave", !.then = stage]
  <1>1. /\ new \in ProcessState /\ new.pc = "leave" /\ new.held = process[p].held
        /\ new.stage = process[p].stage /\ new.job = process[p].job /\ new.then = stage
        /\ new.checkout = process[p].checkout
    BY Mine DEF ProcessState
  <1>2. Agrees(new.held, allocations') /\ WriteFits(p, new)
    BY <1>1, Mine DEF Agrees, WriteFits
  <1>3. Become(p, new)
    BY DEF Returns
  <1>. HIDE DEF new
  <1>. QED BY <1>1, <1>2, <1>3, Counting, JobDecides

LEMMA RefusesKept ==
  ASSUME PortsInv, NEW p \in Process, process[p].pc = "inside", Refuses(p),
         UNCHANGED <<leases, lock, starts, allocations>>
  PROVE  PortsInv'
  <1>1. Failed(process[p].job) \in Stage /\ Failed(process[p].job) # "registered"
    BY FailedType DEF Stage
  <1>. QED BY <1>1, ReturnsKept DEF Refuses

\* A process is shown the lease of its checkout.
LEMMA ShowKept ==
  ASSUME PortsInv, NEW p \in Process, process[p].pc = "inside",
         NEW stage \in Stage, stage # "registered", NEW s \in SlotsOf(process[p].checkout),
         Become(p, [process[p] EXCEPT !.pc = "leave", !.then = stage, !.held = Holding(s, leases[s])]),
         UNCHANGED <<leases, lock, starts, allocations>>
  PROVE  PortsInv'
  <1> DEFINE new == [process[p] EXCEPT !.pc = "leave", !.then = stage, !.held = Holding(s, leases[s])]
  <1>1. Holding(s, leases[s]) \in Held /\ Holding(s, leases[s]) \in Shown
    BY Mine, OwnLease, HoldingType
  <1>2. /\ new \in ProcessState /\ new.pc = "leave" /\ new.held = Holding(s, leases[s])
        /\ new.stage = process[p].stage /\ new.job = process[p].job /\ new.then = stage
        /\ new.checkout = process[p].checkout
    BY <1>1, Mine DEF ProcessState
  <1>3. Agrees(new.held, allocations') /\ WriteFits(p, new)
    BY <1>1, <1>2 DEF Agrees, WriteFits
  <1>4. Become(p, new)
    OBVIOUS
  <1>. HIDE DEF new
  <1>. QED BY <1>2, <1>3, <1>4, Counting, JobDecides

\* A process decides what to write over the lease of its checkout.
LEMMA WritesKept ==
  ASSUME PortsInv, NEW p \in Process, process[p].pc = "inside",
         NEW s \in SlotsOf(process[p].checkout), NEW lease \in Lease, NEW stage \in Stage,
         WritesFile(p, s, lease, stage),
         \/ /\ lease = [leases[s] EXCEPT !.artifact = Me(p)]
            /\ process[p].held.lease.id = leases[s].id /\ ~Serves(leases[s].artifact)
            /\ stage = "registered"
         \/ /\ lease \in {NoLease, [leases[s] EXCEPT !.artifact = Nobody]}
            /\ \/ ~Serves(leases[s].artifact)
               \/ /\ process[p].job = "clear" /\ leases[s].artifact = Me(p)
                  /\ lease = [leases[s] EXCEPT !.artifact = Nobody]
            /\ stage # "registered",
         UNCHANGED <<leases, lock, starts, allocations>>
  PROVE  PortsInv'
  <1> DEFINE new == [process[p] EXCEPT !.pc = "write", !.slot = s, !.to = lease, !.then = stage]
  <1>1. s \in Slot /\ s # 0 /\ leases[s] # NoLease /\ leases[s].owner = process[p].checkout
    BY Mine, OwnLease, SlotType
  <1>2. /\ new \in ProcessState /\ new.pc = "write" /\ new.held = process[p].held
        /\ new.stage = process[p].stage /\ new.job = process[p].job /\ new.then = stage
        /\ new.checkout = process[p].checkout /\ new.slot = s /\ new.to = lease
    BY <1>1, Mine DEF ProcessState
  <1>3. Agrees(new.held, allocations')
    BY <1>2, Mine DEF Agrees
  <1>4. Become(p, new)
    BY DEF WritesFile
  <1>. HIDE DEF new
  <1>5. WriteFits(p, new)
    BY <1>1, <1>2 DEF WriteFits, Registers, Clears
  <1>. QED BY <1>2, <1>3, <1>4, <1>5, Counting, JobDecides

LEMMA AllocateKept ==
  ASSUME PortsInv, NEW p \in Process, NEW others, Allocate(p, others)
  PROVE  PortsInv'
  <1> DEFINE c == process[p].checkout
             open == {s \in Slot : leases[s] = NoLease /\ (Free(s, others) \/ Owned(s, c, others))}
             lease == [owner |-> c, id |-> allocations', artifact |-> Nobody]
             held == Holding(Min(open), lease)
             new == [process[p] EXCEPT !.pc = "write", !.slot = Min(open), !.to = lease,
                                       !.then = "held", !.held = held, !.created = TRUE]
  <1>0. process[p].pc = "inside" /\ UNCHANGED <<leases, lock, starts>>
    BY DEF Allocate
  <1>1. CASE /\ UNCHANGED allocations
             /\ \E s \in SlotsOf(c) :
                  IF Free(s, others) \/ Owned(s, c, others)
                  THEN Become(p, [process[p] EXCEPT !.pc = "leave", !.then = "held",
                                                    !.held = Holding(s, leases[s])])
                  ELSE Refuses(p)
    <2>1. PICK s \in SlotsOf(c) :
            \/ Become(p, [process[p] EXCEPT !.pc = "leave", !.then = "held",
                                            !.held = Holding(s, leases[s])])
            \/ Refuses(p)
      BY <1>1
    <2>. QED BY <1>0, <1>1, <2>1, StageType, RefusesKept, ShowKept
  <1>2. CASE Refuses(p) /\ UNCHANGED allocations
    BY <1>0, <1>2, RefusesKept
  <1>3. CASE /\ SlotsOf(c) = {} /\ open # {} /\ allocations < MaxAllocations
             /\ allocations' = allocations + 1 /\ Become(p, new)
    <2>1. Min(open) \in open /\ Min(open) \in Slot /\ leases[Min(open)] = NoLease /\ Min(open) # 0
      <3>1. open \subseteq Slot
        OBVIOUS
      <3>2. Min(open) \in open
        BY <1>3, <3>1, LowestSlot
      <3>. QED BY <3>2, SlotType
    <2>2. allocations \in Nat /\ allocations' \in 0..MaxAllocations /\ allocations' # 0
      BY <1>3, PortsAssumption DEF PortsInv, PortsTypeOK
    <2>3. c \in Checkout
      BY <1>0, Mine
    <2>4. lease \in Lease /\ lease.owner = c /\ lease.id = allocations' /\ lease.artifact = Nobody
      BY <2>2, <2>3 DEF Lease
    <2>. HIDE DEF lease
    <2>5. held \in Held /\ held.slot = Min(open) /\ held.lease = lease
      BY <2>1, <2>4, HoldingType
    <2>6. /\ new \in ProcessState /\ new.pc = "write" /\ new.held = held
          /\ new.stage = process[p].stage /\ new.job = process[p].job /\ new.then = "held"
          /\ new.checkout = c /\ new.slot = Min(open) /\ new.to = lease
      BY <1>0, <2>1, <2>4, <2>5, StageType, Mine, ZenonT(40) DEF ProcessState
    <2>7. Agrees(new.held, allocations')
      BY <1>3, <2>4, <2>5, <2>6 DEF Agrees
    <2>8. Creates(new)
      BY <1>3, <2>1, <2>2, <2>4, <2>6 DEF Creates
    <2>9. WriteFits(p, new)
      BY <2>1, <2>6, <2>8 DEF WriteFits
    <2>. HIDE DEF new, open, held
    <2>. QED BY <1>0, <1>3, <2>2, <2>6, <2>7, <2>9, JobDecides
  <1>4. \/ /\ UNCHANGED allocations
           /\ \E s \in SlotsOf(c) :
                IF Free(s, others) \/ Owned(s, c, others)
                THEN Become(p, [process[p] EXCEPT !.pc = "leave", !.then = "held",
                                                  !.held = Holding(s, leases[s])])
                ELSE Refuses(p)
        \/ Refuses(p) /\ UNCHANGED allocations
        \/ /\ SlotsOf(c) = {} /\ open # {} /\ allocations < MaxAllocations
           /\ allocations' = allocations + 1 /\ Become(p, new)
    BY DEF Allocate
  <1>. QED BY <1>1, <1>2, <1>3, <1>4

\* Who serves a lease occupies it.
LEMMA ServesOccupies == \A lease : Serves(lease.artifact) => Occupied(lease)
  BY DEF Serves, Occupied, Lives

\* A lease with another name in it, or with none.
LEMMA RenamedType ==
  ASSUME NEW lease \in Lease, NEW x \in Identity \cup {Nobody}
  PROVE  /\ [lease EXCEPT !.artifact = x] \in Lease
         /\ [lease EXCEPT !.artifact = x].artifact = x
         /\ [lease EXCEPT !.artifact = x].owner = lease.owner
         /\ [lease EXCEPT !.artifact = x].id = lease.id
  BY DEF Lease

LEMMA RegisterKept ==
  ASSUME PortsInv, NEW p \in Process, Register(p)
  PROVE  PortsInv'
  <1>0. process[p].pc = "inside" /\ UNCHANGED <<leases, lock, starts, allocations>>
    BY DEF Register
  <1>1. CASE Refuses(p)
    BY <1>0, <1>1, RefusesKept
  <1>2. ASSUME NEW s \in SlotsOf(process[p].checkout),
               leases[s].id = process[p].held.lease.id, ~Occupied(leases[s]),
               WritesFile(p, s, [leases[s] EXCEPT !.artifact = Me(p)], "registered")
        PROVE  PortsInv'
    <2>1. [leases[s] EXCEPT !.artifact = Me(p)] \in Lease
      BY <1>0, Mine, OwnLease, RenamedType
    <2>. QED BY <1>0, <1>2, <2>1, StageType, ServesOccupies, WritesKept
  <1>. QED BY <1>1, <1>2 DEF Register

LEMMA ClearKept ==
  ASSUME PortsInv, NEW p \in Process, Clear(p)
  PROVE  PortsInv'
  <1>0. process[p].pc = "inside" /\ UNCHANGED <<leases, lock, starts, allocations>>
        /\ process[p].job = "clear"
    BY DEF Clear
  <1>1. CASE Returns(p, "cleared")
    BY <1>0, <1>1, StageType, ReturnsKept
  <1>2. ASSUME NEW s \in SlotsOf(process[p].checkout), leases[s].artifact = Me(p),
               WritesFile(p, s, [leases[s] EXCEPT !.artifact = Nobody], "cleared")
        PROVE  PortsInv'
    <2>1. [leases[s] EXCEPT !.artifact = Nobody] \in Lease
      BY <1>0, Mine, OwnLease, RenamedType
    <2>. QED BY <1>0, <1>2, <2>1, StageType, WritesKept
  <1>. QED BY <1>1, <1>2 DEF Clear

LEMMA ReleaseKept ==
  ASSUME PortsInv, NEW p \in Process, NEW others, Release(p, others)
  PROVE  PortsInv'
  <1>0. process[p].pc = "inside" /\ UNCHANGED <<leases, lock, starts, allocations>>
    BY DEF Release
  <1>1. CASE Returns(p, "over")
    BY <1>0, <1>1, StageType, ReturnsKept
  <1>2. ASSUME NEW s \in SlotsOf(process[p].checkout), ~Occupied(leases[s]),
               WritesFile(p, s, NoLease, "over")
        PROVE  PortsInv'
    BY <1>0, <1>2, NoLeaseType, StageType, ServesOccupies, WritesKept
  <1>. QED BY <1>1, <1>2 DEF Release

LEMMA ReclaimKept ==
  ASSUME PortsInv, NEW p \in Process, NEW others, Reclaim(p, others)
  PROVE  PortsInv'
  <1>0. process[p].pc = "inside" /\ UNCHANGED <<leases, lock, starts, allocations>>
    BY DEF Reclaim
  <1>1. CASE Returns(p, "over")
    BY <1>0, <1>1, StageType, ReturnsKept
  <1>2. ASSUME NEW s \in SlotsOf(process[p].checkout), ~Lives(leases[s].artifact),
               WritesFile(p, s, [leases[s] EXCEPT !.artifact = Nobody], "over")
        PROVE  PortsInv'
    <2>1. [leases[s] EXCEPT !.artifact = Nobody] \in Lease
      BY <1>0, Mine, OwnLease, RenamedType
    <2>. QED BY <1>0, <1>2, <2>1, StageType, WritesKept DEF Serves
  <1>. QED BY <1>1, <1>2 DEF Reclaim

LEMMA ShowLeaseKept ==
  ASSUME PortsInv, NEW p \in Process, ShowLease(p)
  PROVE  PortsInv'
  <1>0. process[p].pc = "inside" /\ UNCHANGED <<leases, lock, starts, allocations>>
    BY DEF ShowLease
  <1>. QED BY <1>0, StageType, ReturnsKept, ShowKept DEF ShowLease

-----------------------------------------------------------------------------
(* Port allocation: the file is written.                                   *)

\* Only who is about to write has the lock.
LEMMA WriterAlone ==
  ASSUME PortsInv, NEW p \in Process, process[p].pc \in Inside,
         NEW q \in Process, process[q].pc \in Inside
  PROVE  p = q
  BY Identities DEF PortsInv, Fits, HoldsLock

\* A server that is named by its lease is there.
LEMMA RegisteredServes ==
  ASSUME PortsInv, NEW q \in Process, Registered(process[q])
  PROVE  /\ process[q].held.slot \in Slot /\ process[q].held.lease \in Lease
         /\ process[q].pc # "ended" /\ Serves(Me(q))
         /\ leases[process[q].held.slot] = [process[q].held.lease EXCEPT !.artifact = Me(q)]
         /\ leases[process[q].held.slot].artifact = Me(q)
  <1>1. process[q] \in ProcessState /\ Fits(q, process[q])
    BY DEF PortsInv, PortsTypeOK
  <1>2. process[q].held.slot \in Slot /\ process[q].held.lease \in Lease
        /\ leases[process[q].held.slot] = [process[q].held.lease EXCEPT !.artifact = Me(q)]
    BY <1>1 DEF Fits, ServesItsLease, ProcessState, Held
  <1>3. process[q].pc # "ended"
    BY <1>1 DEF Registered, Fits, Keeps
  <1>4. Serves(Me(q))
    BY <1>3, Identities DEF Serves, Lives, Running, Me, PortsInv
  <1>5. leases[process[q].held.slot].artifact = Me(q)
    BY <1>2 DEF Lease
  <1>. QED BY <1>2, <1>3, <1>4, <1>5

\* What the file is replaced by: no lease of a living server, except by the server itself
\* when it leaves.
LEMMA WriteSpares ==
  ASSUME PortsInv, NEW p \in Process, process[p].pc = "write",
         NEW q \in Process, Registered(process[q])
  PROVE  process[q].held.slot # process[p].slot
  <1> SUFFICES ASSUME process[q].held.slot = process[p].slot PROVE FALSE
    OBVIOUS
  <1>1. leases[process[p].slot].artifact = Me(q) /\ Serves(Me(q))
    BY RegisteredServes
  <1>2. WriteFits(p, process[p])
    BY DEF PortsInv, Fits
  <1>3. ~Creates(process[p])
    BY <1>1, NoLeaseType, Identities DEF Creates, PortsInv
  <1>4. ~Registers(p, process[p])
    BY <1>1 DEF Registers
  <1>5. ASSUME Clears(p, process[p]) PROVE FALSE
    <2>1. process[p].job = "clear" /\ Me(q) = Me(p)
      BY <1>1, <1>5 DEF Clears
    <2>2. p = q
      BY <2>1, Identities DEF PortsInv
    <2>. QED BY <2>1, <2>2 DEF Registered
  <1>. QED BY <1>2, <1>3, <1>4, <1>5 DEF WriteFits

\* The lease that is written, beside the one it replaces.
LEMMA Written ==
  ASSUME PortsInv, NEW p \in Process, process[p].pc = "write"
  PROVE  LET s == process[p].slot  old == leases[s]  to == process[p].to IN
         /\ s \in Slot /\ old \in Lease /\ to \in Lease /\ Me(p) \in Identity
         /\ \/ Creates(process[p]) /\ to.owner \in Checkout
            \/ to = NoLease
            \/ /\ to.id = old.id /\ to.owner = old.owner /\ old.id # 0 /\ old.owner \in Checkout
               /\ to.artifact \in {Nobody, Me(p)}
  <1> DEFINE s == process[p].slot
             old == leases[s]
             to == process[p].to
  <1>1. /\ s \in Slot /\ old \in Lease /\ to \in Lease /\ Me(p) \in Identity
        /\ process[p].checkout \in Checkout /\ LeaseFits(s)
        /\ Creates(process[p]) \/ Registers(p, process[p]) \/ Clears(p, process[p])
    BY Mine DEF Fits, WriteFits, ProcessState, PortsInv, PortsTypeOK
  <1>2. CASE Creates(process[p])
    BY <1>1, <1>2 DEF Creates
  <1>3. CASE Registers(p, process[p])
    <2>1. old # NoLease
      BY <1>1, <1>3, NoLeaseType, PortsAssumption DEF Registers
    <2>2. to = [old EXCEPT !.artifact = Me(p)]
      BY <1>3 DEF Registers
    <2>3. to.id = old.id /\ to.owner = old.owner /\ to.artifact = Me(p)
      BY <1>1, <2>2, RenamedType
    <2>. QED BY <1>1, <2>1, <2>3 DEF LeaseFits
  <1>4. CASE Clears(p, process[p])
    <2>1. old # NoLease
      BY <1>4 DEF Clears
    <2>2. CASE to = NoLease
      BY <1>1, <2>2
    <2>3. CASE to = [old EXCEPT !.artifact = Nobody]
      <3>1. to.id = old.id /\ to.owner = old.owner /\ to.artifact = Nobody
        BY <1>1, <2>3, RenamedType
      <3>. QED BY <1>1, <2>1, <3>1 DEF LeaseFits
    <2>. QED BY <1>4, <2>2, <2>3 DEF Clears
  <1>. QED BY <1>1, <1>2, <1>3, <1>4

LEMMA WriteLeaseKept ==
  ASSUME PortsInv, NEW p \in Process, WriteLease(p)
  PROVE  PortsInv'
  <1>. PICK me \in ProcessState : me = process[p]
    BY DEF PortsInv, PortsTypeOK
  <1>. PICK s \in Slot : s = me.slot
    BY Written DEF WriteLease
  <1> DEFINE new == [me EXCEPT !.pc = "leave", !.slot = 0, !.to = NoLease]
  <1>0. /\ me.pc = "write" /\ UNCHANGED <<lock, starts, allocations>>
        /\ me.pc \in Inside /\ me.pc # "ended"
    BY DEF WriteLease, Inside
  <1>1. /\ leases[s] \in Lease /\ me.to \in Lease /\ Me(p) \in Identity
        /\ \/ Creates(me) /\ me.to.owner \in Checkout
           \/ me.to = NoLease
           \/ /\ me.to.id = leases[s].id /\ me.to.owner = leases[s].owner
              /\ leases[s].id # 0 /\ leases[s].owner \in Checkout
              /\ me.to.artifact \in {Nobody, Me(p)}
    BY <1>0, Written
  <1>2. leases' \in [Slot -> Lease] /\ \A t \in Slot : leases'[t] = IF t = s THEN me.to ELSE leases[t]
    BY <1>1 DEF WriteLease, PortsInv, PortsTypeOK
  <1>3. /\ new \in ProcessState /\ new.pc = "leave" /\ new.held = me.held
        /\ new.stage = me.stage /\ new.job = me.job /\ new.then = me.then
        /\ new.checkout = me.checkout
    BY NoLeaseType DEF ProcessState
  <1>4. process' \in [Process -> ProcessState]
        /\ \A q \in Process : process'[q] = IF q = p THEN new ELSE process[q]
    BY <1>3 DEF WriteLease, Become, PortsInv, PortsTypeOK
  <1>. HIDE DEF new
  <1>5. PortsTypeOK'
    BY <1>0, <1>2, <1>4 DEF PortsInv, PortsTypeOK
  <1>6. ASSUME NEW t \in Slot PROVE LeaseFits(t)'
    <2>1. CASE t # s
      BY <1>0, <1>2, <2>1 DEF PortsInv, LeaseFits
    <2>2. CASE t = s
      <3>1. me.to = NoLease \/ (me.to.owner \in Checkout /\ me.to.id # 0)
        BY <1>1 DEF Creates
      <3>2. me.to.artifact \in {Nobody, Me(p)}
        BY <1>1, NoLeaseType DEF Creates
      <3>3. Me(p)[1] = p /\ Me(p)[2] = starts[p] /\ starts[p] \in Nat
        BY Identities DEF Me, PortsInv
      <3>. QED BY <1>0, <1>2, <2>2, <3>1, <3>2, <3>3 DEF LeaseFits
    <2>. QED BY <2>1, <2>2
  <1>7. OneSlot'
    <2> SUFFICES ASSUME NEW t \in Slot, NEW u \in Slot, t # u,
                        leases'[t].owner = leases'[u].owner, leases'[t] # NoLease
                 PROVE  FALSE
      BY DEF OneSlot
    <2>1. \A v \in Slot : leases[v] = NoLease \/ leases[v].owner \in Checkout
      BY DEF PortsInv, LeaseFits
    <2>2. CASE t # s /\ u # s
      BY <1>2, <2>2 DEF PortsInv, OneSlot
    <2>3. CASE Creates(me)
      <3>1. \A v \in Slot : leases[v].owner # me.to.owner
        BY <2>3 DEF Creates, SlotsOf
      <3>. QED BY <1>2, <2>2, <3>1
    <2>4. CASE me.to = NoLease
      <3>1. t # s /\ u = s
        BY <1>2, <2>2, <2>4
      <3>2. leases[t].owner = Nobody /\ leases[t].owner \in Checkout
        BY <1>2, <2>1, <2>4, <3>1, NoLeaseType
      <3>. QED BY <3>2, PortsAssumption
    <2>5. CASE me.to.owner = leases[s].owner /\ leases[s].owner \in Checkout
      <3>1. leases[t].owner = leases[u].owner /\ leases[t] # NoLease
        BY <1>2, <2>5, NoLeaseType, PortsAssumption
      <3>. QED BY <3>1 DEF PortsInv, OneSlot
    <2>. QED BY <1>1, <2>3, <2>4, <2>5
  <1>8. IdsName'
    <2>1. me.held \in Shown /\ Holding(s, leases[s]) \in Shown
      BY DEF Shown
    <2>2. Shown' \subseteq Shown \cup {Holding(s, me.to)}
      BY <1>2, <1>3, <1>4, <2>1 DEF Shown
    <2>3. Holding(s, me.to).slot = s /\ Holding(s, me.to).lease = me.to
          /\ Holding(s, leases[s]).slot = s /\ Holding(s, leases[s]).lease = leases[s]
      BY <1>1, HoldingType
    <2>4. PICK h \in Shown : me.to.id = 0 \/ (h.lease.id = me.to.id /\ h.slot = s /\ h.lease.owner = me.to.owner)
      <3>1. CASE Creates(me)
        BY <2>1, <2>3, <3>1 DEF Creates
      <3>2. CASE me.to = NoLease
        BY <2>1, <3>2, NoLeaseType
      <3>3. CASE me.to.id = leases[s].id /\ me.to.owner = leases[s].owner
        BY <2>1, <2>3, <3>3
      <3>. QED BY <1>1, <3>1, <3>2, <3>3
    <2>5. allocations \in Nat /\ \A k \in Shown : k.lease.id <= allocations
      BY PortsAssumption DEF PortsInv, PortsTypeOK, IdsName
    <2>6. \A k \in Shown' : k.lease.id <= allocations'
      BY <1>0, <2>2, <2>3, <2>4, <2>5
    <2>7. \A k, l \in Shown : SameLease(k, l)
      BY DEF PortsInv, IdsName
    <2>8. \A k, l \in Shown' : SameLease(k, l)
      BY <2>2, <2>3, <2>4, <2>7 DEF SameLease
    <2>. QED BY <2>6, <2>8 DEF IdsName, SameLease
  <1>9. ASSUME NEW q \in Process PROVE Fits(q, process[q])'
    <2>. PICK it \in ProcessState : it = process'[q]
      BY <1>4
    <2>1. Me(q)' = Me(q)
      BY <1>0 DEF Me
    <2>2. Keeps(q, process[q]) /\ HoldsLock(q, process[q])
      BY DEF PortsInv, Fits
    <2>3. Keeps(q, it)' /\ HoldsLock(q, it)'
      BY <1>0, <1>3, <1>4, <2>1, <2>2 DEF Keeps, HoldsLock, Inside
    <2>4. WriteFits(q, it)'
      <3>1. it.pc # "write"
        <4>1. CASE q = p BY <1>3, <1>4, <4>1
        <4>2. CASE q # p BY <1>0, <1>4, <4>2, WriterAlone DEF Inside
        <4>. QED BY <4>1, <4>2
      <3>. QED BY <3>1 DEF WriteFits
    <2>5. ServesItsLease(q, it)'
      <3>1. CASE Registered(process[q])
        <4>1. process[q].held.slot # s /\ process[q].held.slot \in Slot
              /\ leases[process[q].held.slot] = [process[q].held.lease EXCEPT !.artifact = Me(q)]
          BY <1>0, <3>1, WriteSpares, RegisteredServes
        <4>2. it.held = process[q].held
          BY <1>3, <1>4
        <4>3. it.held.slot # 0 /\ leases'[it.held.slot] = [it.held.lease EXCEPT !.artifact = Me(q)]
          BY <1>2, <4>1, <4>2, SlotType
        <4>. QED BY <2>1, <4>3 DEF ServesItsLease
      <3>2. CASE ~Registered(process[q]) /\ Registered(it)
        <4>1. q = p
          BY <1>4, <3>2
        <4>2. it = new /\ me.then = "registered"
          BY <1>3, <1>4, <3>2, <4>1 DEF Registered
        <4>3. Registers(p, me)
          BY <1>0, <4>2 DEF PortsInv, Fits, WriteFits, Creates, Clears
        <4>4. /\ leases[s].owner = me.checkout /\ me.to = [leases[s] EXCEPT !.artifact = Me(p)]
              /\ me.held.lease.id = leases[s].id
          BY <4>3 DEF Registers
        <4>5. me.held \in Shown /\ Holding(s, leases[s]) \in Shown /\ me.held.lease \in Lease
          BY DEF Shown, ProcessState, Held
        <4>6. leases[s].id # 0
          BY <1>0, <4>4, Mine, NoLeaseType, PortsAssumption DEF PortsInv, LeaseFits
        <4>7. me.held.slot = s /\ me.held.lease.owner = leases[s].owner
          BY <1>1, <4>4, <4>5, <4>6, HoldingType DEF PortsInv, IdsName, SameLease
        <4>8. [me.held.lease EXCEPT !.artifact = Me(p)] = [leases[s] EXCEPT !.artifact = Me(p)]
          BY <1>1, <4>4, <4>5, <4>7 DEF Lease
        <4>9. it.held.slot # 0 /\ leases'[it.held.slot] = [it.held.lease EXCEPT !.artifact = Me(q)]
          BY <1>2, <1>3, <4>1, <4>2, <4>4, <4>7, <4>8, SlotType
        <4>. QED BY <2>1, <4>9 DEF ServesItsLease
      <3>3. CASE ~Registered(it)
        BY <3>3 DEF ServesItsLease, Registered
      <3>. QED BY <3>1, <3>2, <3>3
    <2>6. Fits(q, it)'
      BY <2>3, <2>4, <2>5 DEF Fits
    <2>. QED BY <2>6 DEF Fits, Keeps, HoldsLock, WriteFits, Creates, Registers, Clears,
                         ServesItsLease, Registered
  <1>. QED BY <1>5, <1>6, <1>7, <1>8, <1>9 DEF PortsInv

-----------------------------------------------------------------------------
(* Port allocation: processes that start, and locks a person removes.      *)

\* An identity that was over is not brought back by a later process of its number.
LEMMA StartProcessKept ==
  ASSUME PortsInv, NEW p \in Process, NEW c \in Checkout, StartProcess(p, c)
  PROVE  PortsInv'
  <1> DEFINE new == [Ended EXCEPT !.pc = "ready", !.checkout = c, !.stage = "new"]
  <1>0. ~Running(p) /\ process[p].pc = "ended" /\ UNCHANGED <<leases, lock, allocations>>
    BY DEF StartProcess, Running
  <1>1. /\ new \in ProcessState /\ new.pc = "ready" /\ new.held = NothingHeld
        /\ new.stage = "new" /\ new.checkout = c /\ new.then = "over"
    BY EndedType, StageType DEF ProcessState
  <1>2. process' \in [Process -> ProcessState]
        /\ \A q \in Process : process'[q] = IF q = p THEN new ELSE process[q]
    BY <1>1 DEF StartProcess, Become, PortsInv, PortsTypeOK
  <1>. HIDE DEF new
  <1>3. starts' \in [Process -> 0..MaxStarts] /\ starts[p] \in Nat
        /\ \A q \in Process : starts'[q] = IF q = p THEN starts[q] + 1 ELSE starts[q]
    BY PortsAssumption DEF StartProcess, PortsInv, PortsTypeOK
  <1>4. PortsTypeOK'
    BY <1>0, <1>2, <1>3 DEF PortsInv, PortsTypeOK
  <1>5. ASSUME NEW s \in Slot PROVE LeaseFits(s)'
    <2>1. PICK x \in Identity \cup {Nobody} : x = leases[s].artifact
      BY DEF PortsInv, PortsTypeOK, Lease
    <2>2. x # Nobody => x[1] \in Process /\ x[2] \in Nat /\ x[2] <= starts[x[1]] /\ starts[x[1]] \in Nat
      BY <2>1 DEF PortsInv, PortsTypeOK, LeaseFits, Identity
    <2>3. x # Nobody => x[2] <= starts'[x[1]]
      BY <1>3, <2>2
    <2>. QED BY <1>0, <2>1, <2>3 DEF PortsInv, LeaseFits
  <1>6. OneSlot'
    BY <1>0 DEF PortsInv, OneSlot
  <1>7. IdsName'
    <2>1. Shown' \subseteq Shown \cup {NothingHeld}
      BY <1>0, <1>1, <1>2 DEF Shown
    <2>2. \A h \in Shown' : h.lease.id <= allocations'
      BY <1>0, <2>1, NoLeaseType, PortsAssumption DEF PortsInv, PortsTypeOK, IdsName
    <2>3. \A h, k \in Shown' : SameLease(h, k)
      BY <2>1, NoLeaseType DEF PortsInv, IdsName, SameLease
    <2>. QED BY <2>2, <2>3 DEF IdsName, SameLease
  <1>8. ASSUME NEW s \in Slot, Serves(leases[s].artifact)' PROVE Serves(leases[s].artifact)
    <2>1. PICK x \in Identity \cup {Nobody} : x = leases[s].artifact
      BY DEF PortsInv, PortsTypeOK, Lease
    <2>2. x # Nobody /\ Lives(x)'
      BY <1>0, <1>8, <2>1 DEF Serves, Lives, Running
    <2>3. x[1] \in Process /\ x[2] \in Nat /\ x[2] <= starts[x[1]] /\ starts[x[1]] \in Nat
      BY <2>1, <2>2 DEF PortsInv, PortsTypeOK, LeaseFits, Identity
    <2>4. x[1] # p
      BY <1>3, <2>2, <2>3 DEF Lives
    <2>. QED BY <1>2, <1>3, <2>1, <2>2, <2>3, <2>4 DEF Serves, Lives, Running
  <1>9. ASSUME NEW q \in Process PROVE Fits(q, process[q])'
    <2>. PICK it \in ProcessState : it = process'[q]
      BY <1>2
    <2>1. CASE q = p
      <3>1. it = new /\ starts'[q] # 0 /\ c # Nobody
        BY <1>2, <1>3, <2>1, PortsAssumption
      <3>2. Fits(q, it)'
        BY <1>1, <3>1 DEF Fits, Keeps, HoldsLock, Inside, WriteFits, ServesItsLease, Registered
      <3>. QED BY <3>2 DEF Fits, Keeps, HoldsLock, WriteFits, Creates, Registers, Clears,
                           ServesItsLease, Registered
    <2>2. CASE q # p
      <3>1. it = process[q] /\ Me(q)' = Me(q) /\ starts'[q] = starts[q] /\ Fits(q, it)
        BY <1>2, <1>3, <2>2 DEF Me, PortsInv
      <3>2. Keeps(q, it)' /\ HoldsLock(q, it)' /\ ServesItsLease(q, it)'
        BY <1>0, <3>1 DEF Fits, Keeps, HoldsLock, ServesItsLease, Registered
      <3>3. WriteFits(q, it)'
        <4>1. CASE it.pc = "write"
          <5>1. it.slot \in Slot
            BY <3>1, <4>1 DEF Fits, WriteFits, ProcessState
          <5>2. Creates(it) => Creates(it)'
            BY <1>0 DEF Creates, SlotsOf
          <5>3. Registers(q, it) => Registers(q, it)'
            <6>1. ~Serves(leases[it.slot].artifact) => ~Serves(leases[it.slot].artifact)'
              BY <1>8, <5>1
            <6>. QED BY <1>0, <3>1, <6>1 DEF Registers
          <5>4. Clears(q, it) => Clears(q, it)'
            <6>1. ~Serves(leases[it.slot].artifact) => ~Serves(leases[it.slot].artifact)'
              BY <1>8, <5>1
            <6>. QED BY <1>0, <3>1, <6>1 DEF Clears
          <5>. QED BY <3>1, <5>2, <5>3, <5>4 DEF Fits, WriteFits
        <4>2. CASE it.pc # "write"
          BY <4>2 DEF WriteFits
        <4>. QED BY <4>1, <4>2
      <3>4. Fits(q, it)'
        BY <3>2, <3>3 DEF Fits
      <3>. QED BY <3>4 DEF Fits, Keeps, HoldsLock, WriteFits, Creates, Registers, Clears,
                           ServesItsLease, Registered
    <2>. QED BY <2>1, <2>2
  <1>. QED BY <1>4, <1>5, <1>6, <1>7, <1>9 DEF PortsInv

\* A step that touches no process and no file.
LEMMA ProcessesKept ==
  ASSUME PortsInv, UNCHANGED <<leases, starts, process, allocations>>,
         lock' \in [made : BOOLEAN, name : Identity \cup {Nobody}],
         \A q \in Process : process[q].pc \in Inside => lock'.made /\ lock'.name = Me(q)
  PROVE  PortsInv'
  <1>1. PortsTypeOK'
    BY DEF PortsInv, PortsTypeOK
  <1>2. \A s \in Slot : LeaseFits(s)'
    BY DEF PortsInv, LeaseFits
  <1>3. OneSlot' /\ IdsName'
    BY DEF PortsInv, OneSlot, IdsName, Shown, SameLease
  <1>4. ASSUME NEW q \in Process PROVE Fits(q, process[q])'
    <2>1. Fits(q, process[q])
      BY DEF PortsInv
    <2>2. Keeps(q, process[q])' /\ WriteFits(q, process[q])' /\ ServesItsLease(q, process[q])'
      BY <2>1 DEF Fits, Keeps, WriteFits, Creates, Registers, Clears, SlotsOf, Serves, Lives,
                  Running, Me, ServesItsLease, Registered
    <2>3. HoldsLock(q, process[q])'
      BY DEF HoldsLock, Me
    <2>. QED BY <2>2, <2>3 DEF Fits
  <1>. QED BY <1>1, <1>2, <1>3, <1>4 DEF PortsInv

\* The name in the lock of a process at work is that of one that lives.
LEMMA PersonRemovesLockKept ==
  ASSUME PortsInv, PersonRemovesLock
  PROVE  PortsInv'
  <1>1. ASSUME NEW q \in Process, process[q].pc \in Inside PROVE FALSE
    <2>1. lock.name = Me(q) /\ Me(q) # Nobody
      BY <1>1, Identities DEF PortsInv, Fits, HoldsLock
    <2>2. Lives(Me(q))
      BY <1>1 DEF Lives, Running, Me, Inside
    <2>. QED BY <2>1, <2>2 DEF PersonRemovesLock
  <1>2. lock' \in [made : BOOLEAN, name : Identity \cup {Nobody}]
        /\ UNCHANGED <<leases, starts, process, allocations>>
    BY DEF PersonRemovesLock
  <1>. QED BY <1>1, <1>2, ProcessesKept

-----------------------------------------------------------------------------
(* Port allocation: the theorems.                                          *)

LEMMA PortsStep ==
  ASSUME PortsInv, PortsNext
  PROVE  PortsInv'
  <1>1. ASSUME NEW p \in Process, \E c \in Checkout : StartProcess(p, c) PROVE PortsInv'
    BY <1>1, StartProcessKept
  <1>2. ASSUME NEW p \in Process, \E job \in Job : MakeLock(p, job) PROVE PortsInv'
    BY <1>2, MakeLockKept
  <1>3. ASSUME NEW p \in Process,
               \E others \in [Slot -> Listener] :
                 Allocate(p, others) \/ Release(p, others) \/ Reclaim(p, others)
        PROVE PortsInv'
    BY <1>3, AllocateKept, ReleaseKept, ReclaimKept
  <1>4. ASSUME NEW p \in Process,
               \/ Register(p) \/ Clear(p) \/ ShowLease(p) \/ Listen(p)
               \/ NameLock(p) \/ WriteLease(p) \/ RemoveName(p) \/ RemoveDirectory(p) \/ EndProcess(p)
        PROVE PortsInv'
    BY <1>4, RegisterKept, ClearKept, ShowLeaseKept, ListenKept, NameLockKept, WriteLeaseKept,
       RemoveNameKept, RemoveDirectoryKept, EndProcessKept
  <1>. QED BY <1>1, <1>2, <1>3, <1>4, PersonRemovesLockKept DEF PortsNext

LEMMA PortsStutter ==
  ASSUME PortsInv, UNCHANGED portVars
  PROVE  PortsInv'
  <1>1. UNCHANGED <<leases, lock, starts, process, allocations>>
    BY DEF portVars
  <1>2. lock' \in [made : BOOLEAN, name : Identity \cup {Nobody}]
        /\ \A q \in Process : process[q].pc \in Inside => lock'.made /\ lock'.name = Me(q)
    BY <1>1, LockOfOthers
  <1>. QED BY <1>1, <1>2, ProcessesKept

\* Whoever dies where, whichever number is used again and whenever a person removes a lock
\* without a living name (locked): one process at a time works on the files,
\* the file it is about to write still fits the others, and the number of an allocation names
\* one checkout and one slot wherever it is remembered.
THEOREM LocksAndLeases == PortsSpec => []PortsInv
  <1>1. PortsInv /\ [PortsNext]_portVars => PortsInv'
    BY PortsStep, PortsStutter
  <1>. QED BY InitPorts, <1>1, PTL DEF PortsSpec

\* Whatever is written into a lease, or read from one (validateLease), has the shape of a lease.
THEOREM PortsTyped == PortsSpec => []PortsTypeOK
  <1>1. PortsInv => PortsTypeOK
    BY DEF PortsInv
  <1>. QED BY LocksAndLeases, <1>1, PTL

\* A checkout has one slot at most, and a server that has registered is the one its
\* checkout's lease names until it clears itself (allocate,
\* updateArtifact, clearArtifact, release and reclaimStaleArtifact).
THEOREM LeasesAreHeld == PortsSpec => []LeasesHold
  <1>1. PortsInv => LeasesHold
    <2> SUFFICES ASSUME PortsInv PROVE LeasesHold
      OBVIOUS
    <2>1. \A p \in Process : process[p].stage = "registered" /\ process[p].job # "clear" =>
            leases[process[p].held.slot] = [process[p].held.lease EXCEPT !.artifact = Me(p)]
      BY DEF PortsInv, Fits, ServesItsLease, Registered
    <2>. QED BY <2>1 DEF PortsInv, OneSlot, LeasesHold
  <1>. QED BY LocksAndLeases, <1>1, PTL

-----------------------------------------------------------------------------
(* Port allocation: the leases as one register (LeaseLedger).              *)

LEMMA LeasesSame == UNCHANGED leases => UNCHANGED <<holder, server>>
  BY DEF holder, server

\* Who else lives and serves is not touched by what a process becomes.
LEMMA OthersStay ==
  ASSUME PortsInv, NEW p \in Process, NEW new, Become(p, new), UNCHANGED starts,
         NEW i \in Identity, i # Me(p)
  PROVE  home'[i] = home[i] /\ (i \in serving' <=> i \in serving)
  <1>1. i[1] \in Process /\ i = <<i[1], i[2]>>
    BY DEF Identity
  <1>2. \A q \in Process : process'[q] = IF q = p THEN new ELSE process[q]
    BY DEF PortsInv, PortsTypeOK, Become
  <1>3. CASE i[1] = p
    <2>1. starts[i[1]] # i[2]
      BY <1>1, <1>3 DEF Me
    <2>. QED BY <2>1 DEF home, serving, Lives
  <1>4. CASE i[1] # p
    <2>1. process'[i[1]] = process[i[1]]
      BY <1>1, <1>2, <1>4
    <2>. QED BY <2>1 DEF home, serving, Lives, Running, Registered
  <1>. QED BY <1>3, <1>4

LEMMA MineStays ==
  ASSUME PortsInv, NEW p \in Process, Me(p) \in Identity
  PROVE  /\ home[Me(p)] = IF Running(p) THEN process[p].checkout ELSE Nobody
         /\ Me(p) \in serving <=> Running(p) /\ Registered(process[p])
  <1>1. Me(p)[1] = p /\ Me(p)[2] = starts[p]
    BY DEF Me
  <1>. QED BY <1>1 DEF home, serving, Lives

LEMMA MineBecomes ==
  ASSUME PortsInv, NEW p \in Process, NEW new, Become(p, new), UNCHANGED starts, Me(p) \in Identity
  PROVE  /\ home'[Me(p)] = IF new.pc # "ended" THEN new.checkout ELSE Nobody
         /\ Me(p) \in serving' <=> new.pc # "ended" /\ Registered(new)
  <1>1. Me(p)[1] = p /\ Me(p)[2] = starts[p]
    BY DEF Me
  <1>2. process'[p] = new
    BY DEF PortsInv, PortsTypeOK, Become
  <1>. QED BY <1>1, <1>2 DEF home, serving, Lives, Running, Registered

LEMMA Homes ==
  /\ home = [i \in Identity |-> home[i]] /\ home' = [i \in Identity |-> home'[i]]
  /\ serving \subseteq Identity /\ serving' \subseteq Identity
  BY DEF home, serving, Lives, Running

\* A process that goes on is as much at home as it was.
LEMMA StaysAtHome ==
  ASSUME PortsInv, NEW p \in Process, Running(p), NEW new, Become(p, new), UNCHANGED starts,
         new.pc # "ended", new.checkout = process[p].checkout
  PROVE  /\ UNCHANGED home
         /\ Registered(new) => serving' = serving \cup {Me(p)}
         /\ ~Registered(new) => serving' = serving \ {Me(p)}
         /\ (Registered(new) <=> Registered(process[p])) => UNCHANGED serving
  <1>1. Me(p) \in Identity
    BY Mine DEF Running
  <1>2. home'[Me(p)] = home[Me(p)]
    BY <1>1, MineStays, MineBecomes
  <1>3. \A i \in Identity : home'[i] = home[i]
    BY <1>2, OthersStay
  <1>4. UNCHANGED home
    BY <1>3, Homes
  <1>5. Me(p) \in serving <=> Registered(process[p])
    BY <1>1, MineStays
  <1>6. Me(p) \in serving' <=> Registered(new)
    BY <1>1, MineBecomes
  <1>7. \A i \in Identity : i # Me(p) => (i \in serving' <=> i \in serving)
    BY OthersStay
  <1>. QED BY <1>1, <1>4, <1>5, <1>6, <1>7, Homes

\* A process that writes no file does nothing, or begins to leave.
LEMMA NoFileStep ==
  ASSUME PortsInv, NEW p \in Process, Running(p), NEW new, Become(p, new), UNCHANGED <<leases, starts>>,
         new.pc # "ended", new.checkout = process[p].checkout,
         Registered(new) => Registered(process[p])
  PROVE  [Ledger!RegisterNext]_(Ledger!register)
  <1>1. UNCHANGED <<holder, server, home>>
    BY LeasesSame, StaysAtHome
  <1>2. CASE Registered(new)
    BY <1>1, <1>2, StaysAtHome DEF Ledger!register
  <1>3. CASE ~Registered(new)
    <2>1. serving' = serving \ {Me(p)}
      BY <1>3, StaysAtHome
    <2>2. Ledger!Retire(Me(p)) /\ Me(p) \in Identity
      BY <1>1, <2>1, Mine DEF Ledger!Retire, Running
    <2>. QED BY <2>2 DEF Ledger!RegisterNext
  <1>. QED BY <1>2, <1>3

LEMMA EndStep ==
  ASSUME PortsInv, NEW p \in Process, EndProcess(p)
  PROVE  [Ledger!RegisterNext]_(Ledger!register)
  <1>1. Running(p) /\ Become(p, Ended) /\ UNCHANGED <<leases, starts>> /\ Me(p) \in Identity
    BY Mine DEF EndProcess, Running
  <1>2. home'[Me(p)] = Nobody /\ Me(p) \notin serving'
    BY <1>1, EndedType, MineBecomes
  <1>3. \A i \in Identity : i # Me(p) => home'[i] = home[i] /\ (i \in serving' <=> i \in serving)
    BY <1>1, OthersStay
  <1>4. home' = [home EXCEPT ![Me(p)] = Nobody]
    BY <1>1, <1>2, <1>3, Homes
  <1>5. serving' = serving \ {Me(p)}
    BY <1>1, <1>2, <1>3, Homes
  <1>6. Ledger!End(Me(p))
    BY <1>1, <1>4, <1>5, LeasesSame DEF Ledger!End
  <1>. QED BY <1>1, <1>6 DEF Ledger!RegisterNext

\* The number of a process that starts may be in a lease, its start is not.
LEMMA StartStep ==
  ASSUME PortsInv, NEW p \in Process, NEW c \in Checkout, StartProcess(p, c)
  PROVE  [Ledger!RegisterNext]_(Ledger!register)
  <1> DEFINE new == [Ended EXCEPT !.pc = "ready", !.checkout = c, !.stage = "new"]
             i == <<p, starts[p] + 1>>
  <1>0. ~Running(p) /\ starts[p] < MaxStarts /\ UNCHANGED leases
    BY DEF StartProcess
  <1>1. new.pc = "ready" /\ new.stage = "new" /\ new.checkout = c /\ new.then = "over"
    BY DEF Ended
  <1>2. \A q \in Process : process'[q] = IF q = p THEN new ELSE process[q]
    BY DEF StartProcess, Become, PortsInv, PortsTypeOK
  <1>3. starts[p] \in Nat /\ \A q \in Process : starts'[q] = IF q = p THEN starts[q] + 1 ELSE starts[q]
    BY PortsAssumption DEF StartProcess, PortsInv, PortsTypeOK
  <1>4. i \in Identity
    BY <1>0, <1>3, PortsAssumption DEF Identity
  <1>. HIDE DEF new
  <1>5. home[i] = Nobody /\ i \notin serving
    BY <1>0, <1>4 DEF home, serving, Lives
  <1>6. home'[i] = c /\ i \notin serving'
    BY <1>1, <1>2, <1>3, <1>4 DEF home, serving, Lives, Running, Registered
  <1>7. ASSUME NEW k \in Identity, k # i PROVE home'[k] = home[k] /\ (k \in serving' <=> k \in serving)
    <2>1. k[1] \in Process /\ k = <<k[1], k[2]>>
      BY DEF Identity
    <2>2. CASE k[1] = p
      <3>1. ~Lives(k) /\ starts'[k[1]] # k[2]
        BY <1>0, <1>3, <1>7, <2>1, <2>2 DEF Lives
      <3>. QED BY <3>1 DEF home, serving, Lives
    <2>3. CASE k[1] # p
      <3>1. process'[k[1]] = process[k[1]] /\ starts'[k[1]] = starts[k[1]]
        BY <1>2, <1>3, <2>1, <2>3
      <3>. QED BY <3>1 DEF home, serving, Lives, Running, Registered
    <2>. QED BY <2>2, <2>3
  <1>8. ASSUME NEW s \in Slot PROVE server[s] # i
    <2>1. leases[s].artifact # Nobody => leases[s].artifact[2] <= starts[leases[s].artifact[1]]
      BY DEF PortsInv, LeaseFits
    <2>2. i # Nobody /\ i[1] = p /\ i[2] = starts[p] + 1
      BY <1>4, <1>3, PortsAssumption
    <2>. HIDE DEF i
    <2>3. leases[s].artifact # i
      BY <1>3, <2>1, <2>2
    <2>. QED BY <2>3 DEF server
  <1>9. home' = [home EXCEPT ![i] = c]
    BY <1>4, <1>6, <1>7, Homes
  <1>10. UNCHANGED serving
    BY <1>4, <1>5, <1>6, <1>7, Homes
  <1>. HIDE DEF i
  <1>11. Ledger!Start(i, c)
    BY <1>0, <1>5, <1>8, <1>9, <1>10, LeasesSame DEF Ledger!Start, Ledger!Living
  <1>. QED BY <1>4, <1>11 DEF Ledger!RegisterNext

\* The file is written: the one moment at which the register changes.
LEMMA WriteStep ==
  ASSUME PortsInv, NEW p \in Process, WriteLease(p)
  PROVE  [Ledger!RegisterNext]_(Ledger!register)
  <1>. PICK me \in ProcessState : me = process[p]
    BY DEF PortsInv, PortsTypeOK
  <1>. PICK s \in Slot : s = me.slot
    BY Written DEF WriteLease
  <1> DEFINE new == [me EXCEPT !.pc = "leave", !.slot = 0, !.to = NoLease]
  <1>0. me.pc = "write" /\ Running(p) /\ UNCHANGED starts /\ Become(p, new)
    BY DEF WriteLease, Running
  <1>1. /\ leases[s] \in Lease /\ me.to \in Lease /\ Me(p) \in Identity /\ me.checkout \in Checkout
        /\ Keeps(p, me) /\ WriteFits(p, me)
    BY <1>0, Written, Mine DEF Fits
  <1>2. leases' = [leases EXCEPT ![s] = me.to]
    BY DEF WriteLease
  <1>3. /\ new.pc = "leave" /\ new.stage = me.stage /\ new.job = me.job /\ new.then = me.then
        /\ new.checkout = me.checkout
    BY DEF ProcessState
  <1>. HIDE DEF new
  <1>4. ~Registered(me) /\ (Registered(new) <=> me.then = "registered")
    BY <1>0, <1>1, <1>3 DEF Keeps, Registered
  <1>5. UNCHANGED home /\ home[Me(p)] = me.checkout /\ Me(p) \notin serving
    BY <1>0, <1>1, <1>3, <1>4, StaysAtHome, MineStays
  <1>6. me.then # "registered" => UNCHANGED serving
    BY <1>0, <1>3, <1>4, StaysAtHome
  <1>7. \A t \in Slot : holder[t] = leases[t].owner /\ server[t] = leases[t].artifact
    BY DEF holder, server
  <1>8. holder' = [holder EXCEPT ![s] = me.to.owner] /\ server' = [server EXCEPT ![s] = me.to.artifact]
    BY <1>2 DEF holder, server, PortsInv, PortsTypeOK
  <1>. holder = [t \in Slot |-> holder[t]] /\ server = [t \in Slot |-> server[t]]
    BY DEF holder, server
  <1>9. ~Serves(leases[s].artifact) => server[s] \notin Ledger!Living /\ server[s] \notin serving
    <2>1. \A x \in Identity : home[x] # Nobody \/ x \in serving => Lives(x) /\ x # Nobody
      BY PortsAssumption DEF home, serving, Identity
    <2>. QED BY <1>7, <2>1, Homes DEF Serves, Ledger!Living
  <1>10. CASE Creates(me)
    <2>1. /\ leases[s] = NoLease /\ me.to.owner = me.checkout /\ me.to.artifact = Nobody
          /\ \A t \in Slot : leases[t].owner # me.checkout
          /\ me.then # "registered"
      BY <1>10 DEF Creates, SlotsOf
    <2>2. holder[s] = Nobody /\ UNCHANGED server
      BY <1>7, <1>8, <2>1, NoLeaseType
    <2>3. Ledger!Grant(s, me.checkout)
      BY ZenonT(40), <1>5, <1>6, <1>7, <1>8, <2>1, <2>2 DEF Ledger!Grant
    <2>. QED BY <1>1, <2>3 DEF Ledger!RegisterNext
  <1>11. CASE Registers(p, me)
    <2>1. /\ leases[s].owner = me.checkout /\ ~Serves(leases[s].artifact) /\ me.then = "registered"
          /\ me.to = [leases[s] EXCEPT !.artifact = Me(p)]
      BY <1>11 DEF Registers
    <2>2. me.to.owner = leases[s].owner /\ me.to.artifact = Me(p)
      BY <1>1, <2>1, RenamedType
    <2>3. UNCHANGED holder /\ server' = [server EXCEPT ![s] = Me(p)]
      BY <1>7, <1>8, <2>2
    <2>4. serving' = serving \cup {Me(p)}
      BY <1>0, <1>3, <1>4, <2>1, StaysAtHome
    <2>5. Me(p) \in Ledger!Living
      BY <1>1, <1>5, PortsAssumption DEF Ledger!Living
    <2>6. Ledger!Enter(s, Me(p))
      BY <1>5, <1>7, <1>9, <2>1, <2>3, <2>4, <2>5 DEF Ledger!Enter
    <2>. QED BY <1>1, <2>6 DEF Ledger!RegisterNext
  <1>12. CASE Clears(p, me)
    <2>1. UNCHANGED serving
      BY <1>6, <1>12 DEF Clears
    <2>2. server[s] \notin serving
      BY <1>5, <1>7, <1>9, <1>12 DEF Clears
    <2>3. CASE me.to = NoLease
      <3>1. ~Serves(leases[s].artifact)
        <4>1. leases[s].owner # NoLease.owner
          BY <1>12, NoLeaseType, PortsAssumption DEF Clears, PortsInv, LeaseFits
        <4>2. [leases[s] EXCEPT !.artifact = Nobody].owner = leases[s].owner
          BY <1>1, RenamedType
        <4>. QED BY <1>12, <2>3, <4>1, <4>2 DEF Clears
      <3>2. Ledger!Withdraw(s)
        BY <1>5, <1>8, <1>9, <2>1, <2>3, <3>1, NoLeaseType DEF Ledger!Withdraw
      <3>. QED BY <3>2 DEF Ledger!RegisterNext
    <2>4. CASE me.to = [leases[s] EXCEPT !.artifact = Nobody]
      <3>1. me.to.owner = leases[s].owner /\ me.to.artifact = Nobody
        BY <1>1, <2>4, RenamedType
      <3>2. UNCHANGED holder /\ server' = [server EXCEPT ![s] = Nobody]
        BY <1>7, <1>8, <3>1
      <3>3. Ledger!Leave(s)
        BY <1>5, <2>1, <2>2, <3>2 DEF Ledger!Leave
      <3>. QED BY <3>3 DEF Ledger!RegisterNext
    <2>. QED BY <1>12, <2>3, <2>4 DEF Clears
  <1>. QED BY <1>0, <1>1, <1>10, <1>11, <1>12 DEF WriteFits

\* The jobs decide, and show, and refuse: the register stays as it is.
LEMMA JobStep ==
  ASSUME PortsInv, NEW p \in Process, NEW others,
         Allocate(p, others) \/ Register(p) \/ Clear(p) \/ Release(p, others) \/ ShowLease(p)
           \/ Reclaim(p, others)
  PROVE  [Ledger!RegisterNext]_(Ledger!register)
  <1>1. process[p].pc = "inside" /\ UNCHANGED <<leases, starts>> /\ Running(p)
    BY DEF Allocate, Register, Clear, Release, ShowLease, Reclaim, Running
  <1>2. process[p] \in ProcessState /\ Keeps(p, process[p])
    BY <1>1, Mine DEF Fits
  <1>3. ASSUME NEW new, Become(p, new), new.pc \in {"write", "leave"}, new.checkout = process[p].checkout,
               new.stage = process[p].stage, new.job = process[p].job,
               new.pc = "leave" => new.then # "registered"
        PROVE  [Ledger!RegisterNext]_(Ledger!register)
    <2>1. ~Registered(new)
      BY <1>1, <1>2, <1>3 DEF Keeps, Registered
    <2>. QED BY <1>1, <1>3, <2>1, NoFileStep
  <1>4. ASSUME NEW stage, stage # "registered", Returns(p, stage) PROVE [Ledger!RegisterNext]_(Ledger!register)
    <2> DEFINE new == [process[p] EXCEPT !.pc = "leave", !.then = stage]
    <2>1. /\ new.pc = "leave" /\ new.then = stage /\ new.checkout = process[p].checkout
          /\ new.stage = process[p].stage /\ new.job = process[p].job /\ Become(p, new)
      BY <1>2, <1>4 DEF ProcessState, Returns
    <2>. HIDE DEF new
    <2>. QED BY <1>3, <1>4, <2>1
  <1>5. ASSUME Refuses(p) PROVE [Ledger!RegisterNext]_(Ledger!register)
    <2>1. Failed(process[p].job) # "registered"
      BY FailedType
    <2>. QED BY <1>4, <1>5, <2>1 DEF Refuses
  <1>6. ASSUME NEW stage, stage # "registered", NEW held,
               Become(p, [process[p] EXCEPT !.pc = "leave", !.then = stage, !.held = held])
        PROVE [Ledger!RegisterNext]_(Ledger!register)
    <2> DEFINE new == [process[p] EXCEPT !.pc = "leave", !.then = stage, !.held = held]
    <2>1. /\ new.pc = "leave" /\ new.then = stage /\ new.checkout = process[p].checkout
          /\ new.stage = process[p].stage /\ new.job = process[p].job /\ Become(p, new)
      BY <1>2, <1>6 DEF ProcessState
    <2>. HIDE DEF new
    <2>. QED BY <1>3, <1>6, <2>1
  <1>7. ASSUME NEW s, NEW lease, NEW stage, WritesFile(p, s, lease, stage)
        PROVE [Ledger!RegisterNext]_(Ledger!register)
    <2> DEFINE new == [process[p] EXCEPT !.pc = "write", !.slot = s, !.to = lease, !.then = stage]
    <2>1. /\ new.pc = "write" /\ new.checkout = process[p].checkout
          /\ new.stage = process[p].stage /\ new.job = process[p].job /\ Become(p, new)
      BY <1>2, <1>7 DEF ProcessState, WritesFile
    <2>. HIDE DEF new
    <2>. QED BY <1>3, <2>1
  <1>8. ASSUME NEW s, NEW lease, NEW held,
               Become(p, [process[p] EXCEPT !.pc = "write", !.slot = s, !.to = lease, !.then = "held",
                                            !.held = held, !.created = TRUE])
        PROVE [Ledger!RegisterNext]_(Ledger!register)
    <2> DEFINE new == [process[p] EXCEPT !.pc = "write", !.slot = s, !.to = lease, !.then = "held",
                                         !.held = held, !.created = TRUE]
    <2>1. /\ new.pc = "write" /\ new.checkout = process[p].checkout
          /\ new.stage = process[p].stage /\ new.job = process[p].job /\ Become(p, new)
      BY <1>2, <1>8 DEF ProcessState
    <2>. HIDE DEF new
    <2>. QED BY <1>3, <2>1
  <1>9. CASE Allocate(p, others) BY <1>5, <1>6, <1>8, <1>9 DEF Allocate
  <1>10. CASE Register(p) BY <1>5, <1>7, <1>10 DEF Register
  <1>11. CASE Clear(p) BY <1>4, <1>7, <1>11 DEF Clear
  <1>12. CASE Release(p, others) BY <1>4, <1>7, <1>12 DEF Release
  <1>13. CASE ShowLease(p) BY <1>4, <1>6, <1>13 DEF ShowLease
  <1>14. CASE Reclaim(p, others) BY <1>4, <1>7, <1>14 DEF Reclaim
  <1>. QED BY <1>9, <1>10, <1>11, <1>12, <1>13, <1>14

\* The lock is taken and given back, and a server listens.
LEMMA LockStep ==
  ASSUME PortsInv, NEW p \in Process, NEW job,
         MakeLock(p, job) \/ NameLock(p) \/ RemoveName(p) \/ RemoveDirectory(p) \/ Listen(p)
  PROVE  [Ledger!RegisterNext]_(Ledger!register)
  <1>1. Running(p) /\ UNCHANGED <<leases, starts>>
    BY DEF MakeLock, NameLock, RemoveName, RemoveDirectory, Listen, Running
  <1>2. process[p] \in ProcessState /\ Keeps(p, process[p])
    BY <1>1, Mine DEF Fits, Running
  <1>3. ASSUME NEW stage, Become(p, [process[p] EXCEPT !.pc = "ready", !.stage = stage]),
               stage = "registered" => Registered(process[p])
        PROVE  [Ledger!RegisterNext]_(Ledger!register)
    <2> DEFINE new == [process[p] EXCEPT !.pc = "ready", !.stage = stage]
    <2>1. new.pc = "ready" /\ new.stage = stage /\ new.checkout = process[p].checkout /\ Become(p, new)
      BY <1>2, <1>3 DEF ProcessState
    <2>. HIDE DEF new
    <2>. QED BY <1>1, <1>3, <2>1, NoFileStep DEF Registered
  <1>4. ASSUME NEW pc \in {"inside", "rmdir"}, Become(p, [process[p] EXCEPT !.pc = pc]),
               pc = "rmdir" => process[p].pc = "leave"
        PROVE  [Ledger!RegisterNext]_(Ledger!register)
    <2> DEFINE new == [process[p] EXCEPT !.pc = pc]
    <2>1. /\ new.pc = pc /\ new.stage = process[p].stage /\ new.checkout = process[p].checkout
          /\ new.job = process[p].job /\ new.then = process[p].then /\ Become(p, new)
      BY <1>2, <1>4 DEF ProcessState
    <2>. HIDE DEF new
    <2>2. Registered(new) => Registered(process[p])
      BY <1>4, <2>1 DEF Registered
    <2>. QED BY <1>1, <1>4, <2>1, <2>2, NoFileStep
  <1>5. CASE MakeLock(p, job)
    <2>1. PICK closed \in BOOLEAN :
            Become(p, [process[p] EXCEPT !.pc = "name", !.job = job,
                                         !.listening = @ /\ ~(job = "clear" /\ closed)])
      BY <1>5 DEF MakeLock
    <2> DEFINE new == [process[p] EXCEPT !.pc = "name", !.job = job,
                                         !.listening = @ /\ ~(job = "clear" /\ closed)]
    <2>2. /\ new.pc = "name" /\ new.stage = process[p].stage /\ new.checkout = process[p].checkout
          /\ new.job = job /\ Become(p, new)
      BY <1>2, <2>1 DEF ProcessState
    <2>3. job \in NextJobs(process[p])
      BY <1>5 DEF MakeLock
    <2>. HIDE DEF new
    <2>4. ~Registered(new)
      BY <2>2, <2>3, JobsType DEF Registered
    <2>. QED BY <1>1, <2>2, <2>4, NoFileStep
  <1>6. Failed(process[p].job) # "registered"
    BY FailedType
  <1>7. CASE NameLock(p)
    <2>1. CASE Become(p, [process[p] EXCEPT !.pc = "inside"])
      BY <1>4, <2>1
    <2>2. CASE Become(p, [process[p] EXCEPT !.pc = "ready", !.stage = Failed(process[p].job)])
      BY <1>3, <1>6, <2>2
    <2>. QED BY <1>7, <2>1, <2>2 DEF NameLock
  <1>8. CASE RemoveName(p)
    BY <1>3, <1>4, <1>8 DEF RemoveName, Registered
  <1>9. CASE RemoveDirectory(p)
    BY <1>3, <1>6, <1>9 DEF RemoveDirectory, Registered
  <1>10. CASE Listen(p)
    <2> DEFINE new == [process[p] EXCEPT !.listening = TRUE]
    <2>1. /\ new.pc = process[p].pc /\ new.stage = process[p].stage /\ new.checkout = process[p].checkout
          /\ new.job = process[p].job /\ new.then = process[p].then /\ Become(p, new)
      BY <1>2, <1>10 DEF ProcessState, Listen
    <2>. HIDE DEF new
    <2>. QED BY <1>1, <2>1, NoFileStep DEF Registered, Running
  <1>. QED BY <1>5, <1>7, <1>8, <1>9, <1>10

LEMMA RegisterStutters ==
  ASSUME UNCHANGED <<leases, starts, process>>
  PROVE  UNCHANGED Ledger!register
  BY DEF Ledger!register, holder, server, home, serving, Lives, Running, Registered

LEMMA RegisterStep ==
  ASSUME PortsInv, [PortsNext]_portVars
  PROVE  [Ledger!RegisterNext]_(Ledger!register)
  <1>1. CASE PersonRemovesLock \/ UNCHANGED portVars
    <2>1. UNCHANGED <<leases, starts, process>>
      BY <1>1 DEF PersonRemovesLock, portVars
    <2>. QED BY <2>1, RegisterStutters
  <1>2. ASSUME NEW p \in Process,
               \/ \E c \in Checkout : StartProcess(p, c)
               \/ \E job \in Job : MakeLock(p, job)
               \/ \E others \in [Slot -> Listener] :
                    Allocate(p, others) \/ Release(p, others) \/ Reclaim(p, others)
               \/ Register(p) \/ Clear(p) \/ ShowLease(p) \/ Listen(p)
               \/ NameLock(p) \/ WriteLease(p) \/ RemoveName(p) \/ RemoveDirectory(p) \/ EndProcess(p)
        PROVE  [Ledger!RegisterNext]_(Ledger!register)
    BY <1>2, StartStep, EndStep, WriteStep, JobStep, LockStep
  <1>. QED BY <1>1, <1>2 DEF PortsNext

LEMMA RegisterBegins == PortsInit => Ledger!RegisterInit
  <1> SUFFICES ASSUME PortsInit PROVE Ledger!RegisterInit
    OBVIOUS
  <1>1. \A p \in Process : process[p].pc = "ended"
    BY EndedType DEF PortsInit
  <1>2. \A i \in Identity : ~Lives(i)
    BY <1>1 DEF Lives, Running, Identity
  <1>3. \A s \in Slot : leases[s].owner = Nobody /\ leases[s].artifact = Nobody
    BY NoLeaseType DEF PortsInit
  <1>. QED BY <1>2, <1>3 DEF Ledger!RegisterInit, holder, server, home, serving

\* Files, locks made and removed by hand, dead processes and numbers used again (locked, allocate,
\* updateArtifact, clearArtifact, release, reclaimStaleArtifact) amount to one register that is
\* changed at one instant and never against a server that lives and has not begun to leave.
THEOREM ImplementsLeases == PortsSpec => LeasesSpec
  <1>1. PortsInv /\ [PortsNext]_portVars => [Ledger!RegisterNext]_(Ledger!register)
    BY RegisterStep
  <1>. QED BY <1>1, RegisterBegins, LocksAndLeases, PTL DEF PortsSpec, LeasesSpec, Ledger!RegisterSpec

-----------------------------------------------------------------------------
(* What the register implies, for PortAllocation and whatever else keeps to it. *)

OneHolder == \A s, t \in Slot : holder[s] = holder[t] /\ holder[s] # Nobody => s = t
Entered ==
  \A i \in serving : home[i] # Nobody /\ \E s \in Slot : holder[s] = home[i] /\ server[s] = i
RegisterTypes ==
  /\ holder = [s \in Slot |-> holder[s]] /\ server = [s \in Slot |-> server[s]]
  /\ home = [i \in Identity |-> home[i]] /\ serving \subseteq Identity
RegisterInv == RegisterTypes /\ OneHolder /\ Entered

LEMMA RegisterKeeps ==
  ASSUME RegisterInv, [Ledger!RegisterNext]_(Ledger!register)
  PROVE  RegisterInv'
  <1>1. CASE UNCHANGED Ledger!register
    BY <1>1 DEF RegisterInv, RegisterTypes, OneHolder, Entered, Ledger!register
  <1>2. ASSUME NEW i \in Identity, Ledger!End(i) \/ Ledger!Retire(i) PROVE RegisterInv'
    BY <1>2 DEF RegisterInv, RegisterTypes, OneHolder, Entered, Ledger!End, Ledger!Retire
  <1>3. ASSUME NEW i \in Identity, NEW c \in Checkout, Ledger!Start(i, c) PROVE RegisterInv'
    <2>1. home[i] = Nobody BY <1>3 DEF Ledger!Start, Ledger!Living
    <2>. QED BY <1>3, <2>1 DEF RegisterInv, RegisterTypes, OneHolder, Entered, Ledger!Start
  <1>4. ASSUME NEW s \in Slot, Ledger!Leave(s) PROVE RegisterInv'
    BY <1>4 DEF RegisterInv, RegisterTypes, OneHolder, Entered, Ledger!Leave
  <1>5. ASSUME NEW s \in Slot, Ledger!Withdraw(s) PROVE RegisterInv'
    <2>1. \A i \in serving : server[s] # i
      BY <1>5 DEF RegisterInv, RegisterTypes, Entered, Ledger!Withdraw, Ledger!Living
    <2>. QED BY ZenonT(40), <1>5, <2>1 DEF RegisterInv, RegisterTypes, OneHolder, Entered, Ledger!Withdraw
  <1>6. ASSUME NEW s \in Slot, NEW c \in Checkout, Ledger!Grant(s, c) PROVE RegisterInv'
    BY <1>6 DEF RegisterInv, RegisterTypes, OneHolder, Entered, Ledger!Grant
  <1>7. ASSUME NEW s \in Slot, NEW i \in Identity, Ledger!Enter(s, i) PROVE RegisterInv'
    <2>1. \A j \in serving : server[s] # j
      BY <1>7 DEF RegisterInv, RegisterTypes, Entered, Ledger!Enter, Ledger!Living
    <2>2. home[i] # Nobody BY <1>7 DEF Ledger!Enter, Ledger!Living
    <2>. QED BY <1>7, <2>1, <2>2 DEF RegisterInv, RegisterTypes, OneHolder, Entered, Ledger!Enter
  <1>. QED BY <1>1, <1>2, <1>3, <1>4, <1>5, <1>6, <1>7 DEF Ledger!RegisterNext

\* Whatever keeps to the register, artifact servers with their locks and files among it, never
\* lets two servers of one checkout serve, nor one that its checkout's lease does not name.
THEOREM NoTwoServersOfOneCheckout == PortsSpec => []Ledger!OneServerEach
  <1>1. Ledger!RegisterInit => RegisterInv
    BY DEF Ledger!RegisterInit, RegisterInv, RegisterTypes, OneHolder, Entered
  <1>2. RegisterInv => Ledger!OneServerEach
    BY DEF RegisterInv, OneHolder, Entered, Ledger!OneServerEach
  <1>. QED BY <1>1, <1>2, RegisterKeeps, ImplementsLeases, PTL DEF LeasesSpec, Ledger!RegisterSpec
=============================================================================
