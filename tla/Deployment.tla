------------------------------ MODULE Deployment ------------------------------
(***************************************************************************)
(* Deployments to production: the phases of scripts/deploy/main.ts as      *)
(* deploy.sh or the workflow runs them, each a process of its own that     *)
(* looks at the database and at Vercel anew, and the reviewed migration    *)
(* (reviewed-migration.ts), which migrates under maintenance and releases  *)
(* nothing.  Nothing keeps two of them apart: deploy.sh takes no lock.  A  *)
(* migration that is not a mere expansion is first rehearsed on a clone.   *)
(* Migrations are numbered along the reviewed chain, and a commit carries  *)
(* a prefix of it.  A pipeline that was killed takes no further step.      *)
(***************************************************************************)
EXTENDS Naturals, FiniteSets

CONSTANTS
  Pipeline,        \* runs of the tools
  Commit, ChainOf, \* commits, and how many migrations each carries
  Chain,           \* CHAIN_LENGTH, how many the exact chain has
  Gated,           \* migrations that are not expand-compatible
  TenantBase, ReviewedBase, \* how many are applied where the two exact windows begin
  MaxWrites, MaxActs, \* bounds on business writes and on what operators do
  NoOne

Migration == 1..Chain

ASSUME ChainAssumption ==
  /\ Chain \in Nat /\ ChainOf \in [Commit -> 0..Chain] /\ Gated \subseteq Migration
ASSUME DeployBoundsAssumption == MaxWrites \in Nat /\ MaxActs \in Nat

VARIABLES
  production,  \* the database: applied, a failed attempt, rolled back attempts, its data
  clone,       \* the database a pipeline rehearses on
  canonical,   \* whose deployment the canonical domain serves, NoOne for one of before
  made,        \* the deployment of each pipeline
  maintenance, \* whether production is under maintenance without an end
  acts,        \* what operators did so far
  applier,     \* who applied each migration
  pipeline     \* what each pipeline holds

deployVars == <<production, clone, canonical, made, maintenance, acts, applier, pipeline>>

Database == [applied : 0..Chain, failed : BOOLEAN, resolved : [Migration -> Nat], data : Nat]

\* createMigrationSnapshot: what the hash of a plan tells apart.
Plan == [applied : 0..Chain, chain : 0..Chain, resolved : [Migration -> Nat]]
NoPlan == [applied |-> 0, chain |-> 0, resolved |-> [m \in Migration |-> 0]]

PipelineState ==
  [pc : {"idle", "validate", "approve", "migrate", "clone", "rehearse", "cleanup", "recheck",
         "apply", "applying", "verify", "release", "deploy", "await", "smoke", "smoking",
         "succeeded", "failed"},
   reviewed : BOOLEAN,                  \* a reviewed migration
   commit : Commit \cup {NoOne},
   plan : Plan, approved : BOOLEAN,
   served : Pipeline \cup {NoOne},      \* the canonical deployment a reviewed one was bound to
   source : Nat,                        \* the data captured before the clone
   rehearsed : Database \cup {NoOne}]   \* the database on which the rehearsal passed
ASSUME NoOneAssumption == NoOne \notin Database \cup Pipeline \cup Commit

NotStarted == [pc |-> "idle", reviewed |-> FALSE, commit |-> NoOne, plan |-> NoPlan,
               approved |-> FALSE, served |-> NoOne, source |-> 0, rehearsed |-> NoOne]

DeployTypeOK ==
  /\ production \in Database
  /\ clone \in [Pipeline -> Database \cup {NoOne}]
  /\ canonical \in Pipeline \cup {NoOne}
  /\ made \in [Pipeline -> {"none", "ready", "served"}]
  /\ maintenance \in BOOLEAN
  /\ acts \in 0..MaxActs
  /\ applier \in [Migration -> Pipeline \cup {NoOne}]
  /\ pipeline \in [Pipeline -> PipelineState]

-----------------------------------------------------------------------------
\* The database has been set up: an empty one is refused.
DeployInit ==
  /\ \E n \in Migration : production = [applied |-> n, failed |-> FALSE,
                                        resolved |-> NoPlan.resolved, data |-> 0]
  /\ clone = [p \in Pipeline |-> NoOne]
  /\ canonical = NoOne
  /\ made = [p \in Pipeline |-> "none"]
  /\ maintenance \in BOOLEAN
  /\ acts = 0
  /\ applier = [m \in Migration |-> NoOne]
  /\ pipeline = [p \in Pipeline |-> NotStarted]

outside == <<canonical, made, maintenance, acts>>
stores == <<production, clone, applier>>

BecomePipeline(p, state) == pipeline' = [pipeline EXCEPT ![p] = state]
Proceed(p, pc) == BecomePipeline(p, [pipeline[p] EXCEPT !.pc = pc])
ProceedIf(p, ok, pc) == Proceed(p, IF ok THEN pc ELSE "failed")

PlanOn(p, db) == [applied |-> db.applied, chain |-> ChainOf[pipeline[p].commit],
                  resolved |-> db.resolved]

\* Mutant of Pending: the last migration is not counted.
PendingButLast(plan) == (plan.applied + 1)..(plan.chain - 1)

Pending(plan) == (plan.applied + 1)..plan.chain

\* validateMigrationHistory: no failed attempt, and every attempt one of the commit's chain.
SoundHistory(p, db) ==
  /\ ~db.failed
  /\ db.applied <= ChainOf[pipeline[p].commit]
  /\ \A m \in Migration : db.resolved[m] > 0 => m <= ChainOf[pipeline[p].commit]

\* createDeploymentMigrationPlan and createAdminAccessReviewedMigrationPlan: only expansions
\* are let through, but for one exact window, or for the one exact batch.
Eligible(p, plan) ==
  IF pipeline[p].reviewed
  THEN /\ plan.applied = ReviewedBase /\ plan.chain = Chain /\ Pending(plan) # {}
       /\ plan.resolved = NoPlan.resolved
  ELSE \/ Pending(plan) \cap Gated = {}
       \/ plan.applied = TenantBase /\ plan.chain = Chain

\* Whether the plan is to be rehearsed.
NeedsClone(p) == pipeline[p].reviewed \/ Pending(pipeline[p].plan) \cap Gated # {}

\* The database still is as the plan saw it.
StillAsPlanned(p, db) == SoundHistory(p, db) /\ PlanOn(p, db) = pipeline[p].plan

\* assertMaintenanceActive: maintenance, and the canonical deployment of before.
UnderMaintenance(p) ==
  pipeline[p].reviewed => maintenance /\ canonical = pipeline[p].served

-----------------------------------------------------------------------------
(* The phases up to the change of the database.                            *)

StartPipeline(p, v, reviewed) ==
  /\ pipeline[p].pc = "idle"
  /\ BecomePipeline(p, [NotStarted EXCEPT
       !.pc = "validate", !.commit = v, !.reviewed = reviewed])
  /\ UNCHANGED <<stores, outside>>

\* The plan is shown.  A reviewed migration is bound to what it found.
ValidatePhase(p) ==
  /\ pipeline[p].pc = "validate"
  /\ IF /\ SoundHistory(p, production) /\ Eligible(p, PlanOn(p, production))
        /\ pipeline[p].reviewed => maintenance
     THEN BecomePipeline(p, [pipeline[p] EXCEPT
            !.pc = IF Pending(PlanOn(p, production)) = {} THEN "release" ELSE "approve",
            !.plan = PlanOn(p, production),
            !.served = IF pipeline[p].reviewed THEN canonical ELSE @,
            !.source = IF pipeline[p].reviewed THEN production.data ELSE @])
     ELSE Proceed(p, "failed")
  /\ UNCHANGED <<stores, outside>>

\* A person looks at the pending migrations.
Approve(p) ==
  /\ pipeline[p].pc = "approve"
  /\ \/ BecomePipeline(p, [pipeline[p] EXCEPT !.pc = "migrate", !.approved = TRUE])
     \/ Proceed(p, "failed")
  /\ UNCHANGED <<stores, outside>>

\* The plan must be the approved one; the data is captured before a clone is made.
MigratePhase(p) ==
  /\ pipeline[p].pc = "migrate"
  /\ IF /\ StillAsPlanned(p, production) /\ UnderMaintenance(p)
        /\ pipeline[p].reviewed => production.data = pipeline[p].source
     THEN BecomePipeline(p, [pipeline[p] EXCEPT
            !.pc = IF NeedsClone(p) THEN "clone" ELSE "apply", !.source = production.data])
     ELSE Proceed(p, "failed")
  /\ UNCHANGED <<stores, outside>>

\* createNeonRehearsal; when the answer is lost and the branch is not found again, the
\* pipeline fails and leaves the clone.
CreateClone(p) ==
  /\ pipeline[p].pc = "clone"
  /\ \/ clone' = [clone EXCEPT ![p] = production] /\ Proceed(p, "rehearse")
     \/ clone' \in {clone, [clone EXCEPT ![p] = production]} /\ Proceed(p, "failed")
  /\ UNCHANGED <<production, applier, outside>>

\* The migrations run on the clone and are verified there, or fail.
Rehearse(p) ==
  /\ pipeline[p].pc = "rehearse"
  /\ \/ /\ StillAsPlanned(p, clone[p]) /\ clone[p].data = pipeline[p].source
        /\ clone' = [clone EXCEPT ![p].applied = pipeline[p].plan.chain]
        /\ BecomePipeline(p, [pipeline[p] EXCEPT !.pc = "cleanup", !.rehearsed = clone[p]])
     \/ Proceed(p, "cleanup") /\ UNCHANGED clone
  /\ UNCHANGED <<production, applier, outside>>

\* Mutant of Cleanup: a clone whose deletion was asked for counts as gone.
CleanupUnverified(p) ==
  /\ pipeline[p].pc = "cleanup"
  /\ clone' \in {clone, [clone EXCEPT ![p] = NoOne]}
  /\ ProceedIf(p, pipeline[p].rehearsed # NoOne, "recheck")
  /\ UNCHANGED <<production, applier, outside>>

\* deleteNeonRehearsal, whether the rehearsal passed or not.
Cleanup(p) ==
  /\ pipeline[p].pc = "cleanup"
  /\ clone' = [clone EXCEPT ![p] = NoOne]
  /\ ProceedIf(p, pipeline[p].rehearsed # NoOne, "recheck")
  /\ UNCHANGED <<production, applier, outside>>

\* The deletion could not be verified.
CleanupFails(p) ==
  /\ pipeline[p].pc = "cleanup"
  /\ clone' \in {clone, [clone EXCEPT ![p] = NoOne]}
  /\ Proceed(p, "failed")
  /\ UNCHANGED <<production, applier, outside>>

Recheck(p) ==
  /\ pipeline[p].pc = "recheck"
  /\ ProceedIf(p, /\ StillAsPlanned(p, production) /\ UnderMaintenance(p)
                  /\ production.data = pipeline[p].source, "apply")
  /\ UNCHANGED <<stores, outside>>

-----------------------------------------------------------------------------
(* prisma migrate deploy: all that is pending in the commit's chain.       *)

\* It holds a lock, and refuses a database with a failed attempt.
BeginApply(p) ==
  /\ pipeline[p].pc = "apply"
  /\ \A q \in Pipeline : pipeline[q].pc # "applying"
  /\ ProceedIf(p, ~production.failed, "applying")
  /\ UNCHANGED <<stores, outside>>

ApplyOne(p) ==
  /\ pipeline[p].pc = "applying" /\ production.applied < ChainOf[pipeline[p].commit]
  /\ production' = [production EXCEPT !.applied = @ + 1]
  /\ applier' = [applier EXCEPT ![production.applied + 1] = p]
  /\ UNCHANGED <<clone, outside, pipeline>>

\* A migration fails, or the process is killed, in a migration or between two.
ApplyFails(p) ==
  /\ pipeline[p].pc = "applying"
  /\ production' \in {production} \cup
       (IF production.applied < ChainOf[pipeline[p].commit]
        THEN {[production EXCEPT !.failed = TRUE]} ELSE {})
  /\ Proceed(p, "failed")
  /\ UNCHANGED <<clone, applier, outside>>

EndApply(p) ==
  /\ pipeline[p].pc = "applying" /\ production.applied >= ChainOf[pipeline[p].commit]
  /\ Proceed(p, "verify")
  /\ UNCHANGED <<stores, outside>>

\* Up to date, and the old data as it was; a reviewed migration ends here.
Verify(p) ==
  /\ pipeline[p].pc = "verify"
  /\ ProceedIf(p, /\ SoundHistory(p, production) /\ Pending(PlanOn(p, production)) = {}
                  /\ NeedsClone(p) => production.data = pipeline[p].source
                  /\ UnderMaintenance(p),
               IF pipeline[p].reviewed THEN "succeeded" ELSE "release")
  /\ UNCHANGED <<stores, outside>>

-----------------------------------------------------------------------------
(* The release and its smoke test.                                         *)

\* Blocked until the database is up to date for this commit.
ReleasePhase(p) ==
  /\ pipeline[p].pc = "release"
  /\ ProceedIf(p, SoundHistory(p, production) /\ Pending(PlanOn(p, production)) = {}, "deploy")
  /\ UNCHANGED <<stores, outside>>

\* vercel deploy --prod: refused, or carried out with its answer heard or lost.
Deploy(p) ==
  /\ pipeline[p].pc = "deploy"
  /\ \/ made' = [made EXCEPT ![p] = "ready"] /\ \E pc \in {"await", "failed"} : Proceed(p, pc)
     \/ Proceed(p, "failed") /\ UNCHANGED made
  /\ UNCHANGED <<stores, canonical, maintenance, acts>>

\* waitForCanonicalDeployment, and the read after it; the attempts run out otherwise.
AwaitCanonical(p) ==
  /\ pipeline[p].pc = "await"
  /\ \/ canonical = p /\ Proceed(p, "smoke")
     \/ Proceed(p, "failed")
  /\ UNCHANGED <<stores, outside>>

\* runCanonicalDeploymentBoundSmoke: the deployment is read before and after the requests.
SmokePhase(p) ==
  /\ pipeline[p].pc = "smoke"
  /\ ProceedIf(p, canonical = p, "smoking")
  /\ UNCHANGED <<stores, outside>>

SmokeEnds(p) ==
  /\ pipeline[p].pc = "smoking"
  /\ \/ canonical = p /\ Proceed(p, "succeeded")
     \/ Proceed(p, "failed")
  /\ UNCHANGED <<stores, outside>>

-----------------------------------------------------------------------------
(* Vercel, the operators and the business.                                 *)

\* Vercel gives the canonical domain to a new production deployment.
Promote(p) ==
  /\ made[p] = "ready"
  /\ made' = [made EXCEPT ![p] = "served"]
  /\ canonical' = p
  /\ UNCHANGED <<stores, maintenance, acts, pipeline>>

Act == acts < MaxActs /\ acts' = acts + 1

\* An operator goes back to an earlier deployment.
Rollback ==
  /\ Act
  /\ canonical' \in {NoOne} \cup {q \in Pipeline : made[q] = "served"}
  /\ UNCHANGED <<stores, made, maintenance, pipeline>>

SwitchMaintenance ==
  /\ Act
  /\ maintenance' = ~maintenance
  /\ UNCHANGED <<stores, canonical, made, pipeline>>

\* prisma migrate resolve --rolled-back.
ResolveFailed ==
  /\ Act /\ production.failed
  /\ production' = [production EXCEPT !.failed = FALSE, !.resolved[production.applied + 1] = @ + 1]
  /\ UNCHANGED <<clone, applier, canonical, made, maintenance, pipeline>>

Write ==
  /\ production.data < MaxWrites
  /\ production' = [production EXCEPT !.data = @ + 1]
  /\ UNCHANGED <<clone, applier, outside, pipeline>>

PipelineStep(p) ==
  \/ \E v \in Commit, reviewed \in BOOLEAN : StartPipeline(p, v, reviewed)
  \/ ValidatePhase(p) \/ Approve(p) \/ MigratePhase(p)
  \/ CreateClone(p) \/ Rehearse(p) \/ Cleanup(p) \/ CleanupFails(p) \/ Recheck(p)
  \/ BeginApply(p) \/ ApplyOne(p) \/ ApplyFails(p) \/ EndApply(p) \/ Verify(p)
  \/ ReleasePhase(p) \/ Deploy(p) \/ AwaitCanonical(p) \/ SmokePhase(p) \/ SmokeEnds(p)
  \/ Promote(p)

DeployNext ==
  \/ \E p \in Pipeline : PipelineStep(p)
  \/ Rollback \/ SwitchMaintenance \/ ResolveFailed \/ Write

DeploySpec == DeployInit /\ [][DeployNext]_deployVars

-----------------------------------------------------------------------------
\* Every migration a pipeline put on production was in the plan a person approved, and one
\* that is not a mere expansion only after the same plan passed on a clone that held the
\* data captured before, and that clone is gone: whatever other pipelines, operators and
\* the business did to the database between two looks at it.
VouchedFor(p, m) ==
  /\ pipeline[p].approved /\ m \in Pending(pipeline[p].plan)
  /\ m \in Gated =>
       /\ clone[p] = NoOne
       /\ pipeline[p].rehearsed # NoOne
       /\ PlanOn(p, pipeline[p].rehearsed) = pipeline[p].plan
       /\ pipeline[p].rehearsed.data = pipeline[p].source

MigrationsVouchedFor ==
  \A m \in Migration : applier[m] # NoOne => VouchedFor(applier[m], m)

\* A deployment that exists, and so the one that is served, never needs a migration that is
\* not applied, although migrations and deployments of several pipelines interleave.
SchemaBeforeCode ==
  \A p \in Pipeline : made[p] # "none" => production.applied >= ChainOf[pipeline[p].commit]
=============================================================================
