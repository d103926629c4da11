# A verification of the government contact centre demo

The repository is a Next.js application on PostgreSQL (through Prisma) for a
municipality's contact centre: a reservation API for an outside voice
agent, outbound calls to citizens, administrators with roles, settings that
open and close the public sites, and the tools that migrate and deploy it. This directory holds TLA+ modules of the parts
whose correctness depends on what several requests do to the same rows at the
same time, TLC configurations that check small instances, and proofs that TLAPS
checks for every size. `PROJECT.json` lists the runs, which source lines every
definition stands for, the hazards and the theorems.

Paths below are relative to the root of the repository; `lib/server` is where
nearly all state changes happen.

## 1. Inventory

Every process is a stateless server: all lasting state is in PostgreSQL or in
the outside contact centre, and all concurrency is between requests (and the
cron service's, the provider's webhooks', and the operator's tools'). The tools for
developers share the file system of one machine instead.

| Component | State | Operations | Hard to get right | Status |
|---|---|---|---|---|
| Public reservations (`public-reservations.ts`, `reservations.ts`) | bookings, demo bookings, idempotency records; advisory locks | create, update, delete; refill of the demo rows by an administrator | capacity and references have no unique index, four kinds of locks, retries, clocks read before waiting | modelled, proved |
| Reservation API keys and quotas (`reservation-api-keys.ts`, `reservation-api-usage.ts`) | keys, limits, monthly counters | issue, limit, revoke; authenticate and count a call | check and increment under row locks, two limits, the end of a month | modelled, proved |
| Municipal outreach (`zaad/municipal/*`) | run, jobs, outbox, attempts, responses, inbox, support cases | cron request, provider events, answer receipts, staff | overlapping cron requests, expired claims, a killed request, unordered events | partly modelled, proved |
| Administrator access (`admin-access/*`, `scripts/deploy/lib/admin.ts`) | users, roles, permissions, assignments, freeze | 11 mutations under one lock, provisioning, the operator's freeze | the last recovery administrator, escalation, a lock lost in mid-session | partly modelled, proved |
| One-time dispatch (`zaad/one-time.ts`, `resources.ts`) | dispatch row with a checkpoint per step; list, recording and campaign in the contact centre | preflight, prepare, start and pause | lost answers, a crash between a call and its checkpoint, the same key twice, sources that change | modelled, proved |
| Deployments to production (`scripts/deploy/main.ts`, `lib/*`) | migrations, rehearsal clone, deployment, canonical domain | validate, migrate, release, smoke; the reviewed migration | phases that look at the database anew, two pipelines, operators and business meanwhile | partly modelled, proved |
| Registration group sync (`zaad/registration-group-sync.ts`, `default-groups.ts`) | groups with a binding, membership rows with claim, lease, version; the lists of the outside contact centre | synchronise one row, link by hand, bind | lease expiry while a call is in flight, lost answers, a group bound anew meanwhile | partly modelled, proved |
| Regular group sync (`zaad/regular-group-sync.ts`, `group-sync.ts`, `zoom-groups.ts`) | operations with an item for each member, membership rows with a version; the lists | start, advance; link, make, change and remove a member; detach and restore a group | an item given up while its call goes on, two operations about one row, persons deleted and rows linked between the checks and the save | partly modelled, proved |
| Password reset requests (`password-reset-requests.ts`) | requests | ask in public (what an administrator does is in administrator access) | limits counted without a lock | modelled, proved |
| Site access, maintenance (`site-access-*.ts`, `maintenance-*.ts`, `proxy.ts`) | a revisioned setting each, sessions, attempts | save, enter a code, gate a request | revision against session, attempts of one window | partly modelled, proved |
| Port allocation (`development-port-allocation.mjs`, `serve-plan-artifact.mjs`) | lease files, a lock directory | allocate, register, clear, reclaim, release | a process ends holding the lock, numbers used again, a person removes the lock | partly modelled, proved |
| University outreach (`zaad/university/*`) | proposals, reviews, registrations | forms with revisions | review against edit | later |
| Contacts, CRM imports (`zaad/*`) | contacts, imported batches | import after a preview | optimistic revisions | not modelled |
| Messages, residents, resources (`zaad/*`) | one row per form; a resident also has a contact outside | forms; create, link and remove the contact | a claim, a call and its record that overlap with others (section 5) | not modelled |
| Sign-in (`lib/auth.ts`) | sessions of Better Auth | the library's | the library's | not modelled |
| Routes, proxy, screens, settings of one row, request log | none of their own | parsing, rendering | no shared state | not modelled |
| Development tools (`scripts/*`) | session files of one checkout | start, stop | one command at a time | not modelled |

How they interact: a reservation request first passes *keys and quotas* (its own
transaction, committed before the reservation is made), then *public
reservations*; the two share no row, so they are checked apart. *Municipal
outreach* calls the provider between two transactions and hears from it through
signed webhooks that only write the inbox; the next cron request applies them.
*Administrator access* decides who may call the administrative operations of all
others; each of those checks the permission when its request begins, so a
revocation takes effect with the next request. The refill of the demo rows is the one
administrative operation that races with API callers, and is part of
*public reservations*. The *gates* are asked before every public request and the
others do not know of them. *Deployments* replace the code under all of them; that
the database has what a deployment needs is what that component is about. *One-time
dispatch* and *municipal outreach* use different tables and different campaigns.

What makes each part correct is listed with its runs in section 3; the hazards at
their source lines are in `PROJECT.json`.

## 2. The modules

| Module | Stands for | Used by |
|---|---|---|
| `Reservations` | reservation requests and refills, one SQL statement a step | |
| `ReservationLedger` | the abstract specification: bookings and demo rows change atomically | `Reservations` (INSTANCE) |
| `ReservationUsage` | authentication and counting of one call, and the administrators | |
| `QuotaLedger` | the abstract specification: a call is answered at one instant, against the calls let through before it | `ReservationUsage` (INSTANCE) |
| `MunicipalOutreach` | one queued run: cron requests, provider, receipts, staff | |
| `CallRounds` | the abstract specification: the calls of a citizen one after the other, and what an answer decides | `MunicipalOutreach` (INSTANCE) |
| `AdminAccess` | accounts, roles, the mutation lock and the freeze | |
| `RegistrationGroupSync` | calls of `syncMembership` for the rows of one default group, links by hand, bindings, the contact centre | |
| `RegularGroupSync` | operations and items of one regular group, calls that advance them, the staff's changes of members, persons and the binding | |
| `OneTimeDispatch` | preparations of dispatches, call by call, and the starting and pausing of their campaigns | |
| `Deployment` | pipelines phase by phase, Vercel, operators, business writes | |
| `PortAllocation` | processes that take the lock and change leases | |
| `LeaseLedger` | the abstract specification: one register of slots, checkouts and servers | `PortAllocation` (INSTANCE) |
| `SiteGates` | visitors with codes and cookies, both kinds of settings | |
| `PasswordResets` | the public form and its counts | |
| `...Proofs` | theorems and proofs of the module they are named after; `GroupSyncProofs` those of both kinds of groups, `PublicSiteProofs` of `SiteGates` and `PasswordResets`, `ToolsProofs` of `Deployment` and `PortAllocation` | |
| `MC...` | instances for TLC; `MCReservationParts`, `MCGroups` and `MCServices` put several in one state space | the configurations |

The modules of different components do not compose: as said above they share no
row, except the accounts, and those enter the other modules only as "an
administrator does". `MCServices` therefore puts five of them side by side: the part chosen in the first
state is the only one that moves, so that its states are the sum of the parts' and not their product. `MCGroups` does the same with both kinds of groups,
which use tables of their own and different lists.

### Reservations

A request is a transaction (`Tx`): its program counter `pc` walks through the
statements of `createPublicReservation`, `updatePublicReservation`,
`deletePublicReservation` or `regenerateDemoReservations`. READ COMMITTED makes
every statement see what is committed when it starts, so a step reads the tables as they are.
`held` is the set of advisory locks, taken by hash of their names: two names may
collide (the assumption on `hashtext` allows it), and a transaction may take a lock twice.
`rowLock` is `SELECT ... FOR UPDATE`. Writes happen in the last step of a transaction,
with the commit; nobody can see them earlier. `Abort` rolls back at any point. Slots, references,
callers and payloads are members of small sets; `Bookable` and `InRange` say at which
instants the catalogue offers a slot or a month, since availability depends on the day.

`ReservationLedger` has four actions, `Book`, `Move`, `Cancel`, `Refill`, each with its whole
guard (room in the slot, unused reference). `LedgerSpec` says that the statement-level
tables, seen as `booking` and `demo`, behave as this ledger. The slot lock turned out to be
redundant: the month lock, which every writer of the slot takes first, already excludes all of them.

### ReservationUsage

A call is `authenticateReservationApiRequest`: lock the key's row, read the setting's row, the
tenant's and the key's counter, each with FOR UPDATE, then decide and commit. `holder` is the row locks.
Counters are written as numbers computed from what was read, as in the code.
Administrators edit rows whose lock is free, with the revision they saw. `InternalError` fails a
statement and rolls back. One tenant, for no row is shared between tenants.
The counters' row locks are redundant while the setting's row is locked first, but are modelled.

`QuotaLedger` has no counters and no locks. A call is answered in one step (`LetThrough`, `Refuse`, `TurnAway`, `Fail`), by the key
and the setting as they are at that instant, and a limit is compared with the number of calls answered "admitted" for the month; a caller hears of
its key's limit only where the tenant's leaves room. `QuotaSpec` says that the statements behave so: `answers` is what a call has been told, while
the counters have no counterpart, and the two limits are compared with a cardinality.

### MunicipalOutreach

One run of a workflow with some targets. A `Worker` is a cron request (`municipalTick`, then
`settleMunicipalDeadlines`); several may overlap, and `Crash` ends one between any two
transactions. A transaction of the code is one step, and what a request carries from one to
the next is in `wk` (the lists it read, the job, the case it saw). `Send` is the provider's
call: the citizen may have been called whether or not the answer arrives
(`dialled` counts). Time is counted in coarse instants; `Lease = 0` means that a claim
expires in the next instant. Provider events and receipts arrive at any time, in any order, twice.
The checks of `latestSendInput` for permissions and readiness are one nondeterministic refusal.
A receipt brings one of five answers. Two are of the classification UNCONFIRMED, and are told apart by `ackState`, a field of the attempt that
`scheduler.ts:28` asks without asking for the rest: `unclear` (acknowledged; identity, recognition or an answer is open) and `unacknowledged`.
`Deadline` is the end of calling, which the evidence may set before the workflow's `DueAt`, from which on targets are settled. `nextDueSlot` looks `Horizon` minutes ahead (14 days).

`CallRounds` is what citizens and staff see of this. The `fate` of a call is recorded (its row exists), placed (the provider was called), failed or
answered; `heard` is the last answer received, `staff` the targets with a case. The next call is recorded only when the one before is over, a recorded call is placed once,
and whichever of call and answer becomes known last decides about the target in that step. A last call that failed brings the citizen to the staff in
the same step, unless a receipt of that call says that it was acknowledged. Jobs, claims, the outbox, engagements and the inbox have no counterpart;
`RoundSpec` says that they cannot be told from outside.

Six things a reader of the code should know, which the model shows:
a call that is reported as failed although a receipt acknowledged it is neither retried nor handed over, even if the answer is otherwise unclear, so that its target
waits for the deadline; a retry for which no slot opens within 14 days is given to the staff at once, while the comment at `workflows.ts:13` lets a later tick go on;
`reconcileMunicipalOutbox` has no caller, and `configuredMunicipalProvider` is never ready,
so that a call is sent only by an injected provider; overlapping requests may replace ACCEPTED by
UNKNOWN or put a job back to PENDING while its call is being sent (`scheduler.ts:71` and 74), without
a second call; `scheduleRetry` does not ask whether the target has been confirmed; an event that arrives before
its engagement is known is quarantined for good.

### AdminAccess

Every mutation of `authority-service.ts` runs in a transaction under one advisory lock, so the
model has `BeginMutation` (take the lock, read the freeze) and one atomic action per operation. The route checked
the session earlier: the actor may have lost rights since, which is why every operation
reads them again. Permissions are sets of cells (resource, action) of the catalogue.
`ChangePassword` and the operator's `PrepareLegacyRollbackAdmins` take no lock. The operator's
session takes the lock on a connection of its own, checks that it still has it
(`CheckSessionLock`), and freezes on another connection (`FreezeAdminAccessMutations`); the first
connection may drop in between (`LoseSessionLock`), which marks the freeze "unguarded".
Revisions are abstracted: a stale revision is one more way to be refused, and under the lock the
checks on current rows decide. The freeze is called by integration tests only, and
`convergeRecoveryAdminAccess` by nobody (the seed and provisioning do the same).

### RegistrationGroupSync

One default group. A `Call` is one call of `syncMembership`; its program counter walks through
the claim (one transaction), the reads, the check before the write (`Recheck`), the one write
(`Make` or `Change`), `Store`, the read-back and `Commit`, or through `Catch`. Each step is one transaction or
one call of the contact centre; reads that directly follow one another are one step, since every value
they yield is read again before the write or decided on in the last transaction. A call that dies takes no
further step; a call whose lease has ended may go on at any time later. `contact` is what the contact
centre holds: it makes a contact and its answer arrives or not (`RESULT_UNKNOWN`), or it refuses.
`created` counts the contacts made for a registration under one revision of the group, a history variable that nothing reads.
`HttpStatus` is the client's `mapZoomStatus`. People change the registration (`Review`), the account, the
binding (`Bind`), the list itself (`EditOutside`), and link rows by hand: `ReadLink` is everything before the
transaction of `linkRegistrationMember`, `StoreLink` the transaction. Names and numbers are one value of `Data`.

What a reader should know: a call that is late may still write to the list after its claim
was taken back (nothing can stop a request under way), so that what is promised is about its effect
on the rows and about the number of contacts; `attestation` is never cleared by a new binding.

### RegularGroupSync

A member is a contact of the list with its person and its row; `item` has, for each operation, the items of its members. A `SyncCall` is one
call of `advanceRegularSync`: `BeginAdvance` gives up items whose claim is older than five minutes and lists those that wait, `ClaimItem` takes one, and
`CheckItem`, `LockRow`, `Observe`, `LookAgain` (before the write and after), `WriteContact`, `ReadContact`, `SaveRow` are the `try` block in its order. Whatever
is thrown goes through `Conclude`, which decides as the `catch` does, then through `SettleRow` and `RecordItem`; `CountItems` and
`FinishOperation` are the two statements after the loop. Reads that directly follow one another are one step if the row is compared again later. The staff
act through `Clerk`: everything before the first change is `BeginClerk`, then come the contact centre (`SendByClerk`, `ReadByClerk`) and the row (`KeepByClerk`, or `LinkMember`,
which is one transaction). `deeds` bounds what the staff do. A name and its number are one value: a person shows its version. A change that leaves both alone
is therefore one the list has yet to follow, which only makes `Observe` write more often.

What a reader should know: a row has no lease, only its item has one. A call that dies leaves the row SYNCING for good; no later item may take it (`CheckItem`), staff can link it anew once
no item of it is RUNNING and young, and a call that still runs then finds another version and settles nothing. The client reports a 429 with status 503 (as for
registrations), so that after a write only a 404 is taken as definite and a refusal for the rate ends UNKNOWN; the rate limit is remembered by its code all the same.
A deleted person can still be read, changed and linked by identifier (`outreachWhere` asks only for the site): what keeps its rows out of an operation is its status and
the version that the deletion raises.

### OneTimeDispatch

A `Preparation` is one call of `prepareZaadOneTime`: `Lookup`, `Resolve`, `Create`, then for each step of the checkpoint
(`step`) one call of the contact centre and one update of the row. A call is carried out and heard of (`Answered`), not heard of and
carried out or not (`Unheard`), or refused (`Refused`); an update succeeds, or fails and may
have been committed all the same. Whether an error leads to RESULT_UNKNOWN or FAILED is decided as in the code by the class of
the error. A request that the host stops is one that takes no further step. `zoom` is what was made outside for a key. `Person` stands
for a batch of recipients, for batches are the unit of a call. `Starter` is `updateZaadCampaignStatus`, by which the staff start a campaign.

What a reader should know: the staff can start a campaign as soon as it is Ready, which is before the preparation reads it back; the
read-back then finds "running", and the row becomes FAILED although the campaign runs as confirmed. The row's last step says that it was set
to Ready, which is what `RowTellsOutside` asks for. A request that ends in the middle leaves PREPARING for good; nothing resumes it.

### Deployment

Migrations are numbers along the chain and a `Commit` carries a prefix of it. A `Pipeline` is a run of `deploy.sh`, of the workflow, or of the
reviewed migration: its phases are processes that look at the database anew, so that each is a step, and applying is one
step for each migration. `Approve` is the person who looks at the plan. `clone` is the rehearsal's database; what `createMigrationSnapshot` hashes is `Plan`. Beside
the pipelines, `Promote` gives the domain to a deployment, operators roll back, switch maintenance and resolve a failed migration, and the
business writes (`data` counts the writes a comparison of old data would notice). Several looks of one phase at the same thing (as the
last ones before a migration) are one look, immediately before what the phase changes.

What a reader should know: the workflow has a concurrency group, but `deploy.sh` takes no lock against it or against itself, so that two pipelines
are kept apart by nothing but the lock of `prisma migrate deploy` and by what each looks at again.

### PortAllocation

A process takes the lock in three steps (directory, name, inside) and gives it back in two (name, directory); inside it reads all files at one
instant, since nobody else writes them, and then replaces one file (`WriteLease`). `EndProcess` is possible everywhere, and a number may be
given to another process afterwards: `Identity` is a number and a start time, and `Occupied` and `Lives` differ as in the code in whether the time is compared.
`PersonRemovesLock` does what the message PORT_LOCK_BUSY asks for: a person removes a lock that has no name, or the name of a process that is
gone. `Listener` is what else occupies the ports.

`LeaseLedger` is the register that files and lock stand for: the `holder` and the `server` of each slot, the checkout a living server is at `home` in, and
who is `serving`, that is, has registered and not begun to leave. Every entry is made at one instant: a slot is granted to a checkout without one, a server
enters its own checkout's slot where no living server is, and nobody removes a server that serves. A `Server` is a number with its
start time. `LeasesSpec` says that the jobs amount to this; the instant is that of the file's replacement, at which everything read inside the lock must still be so.

What a reader should know: a person may remove the unnamed lock of a living process. The lock stays exclusive all the same, as the name is
created only where there is none (`wx`). A server that cannot start gives its new lease back though another process of the same checkout
may have been told of it meanwhile: that process is then refused when it registers.

### SiteGates

One environment with its tenants, the entry site and the scope of all of them. A visitor is one browser that does one thing at a time; each
statement of its request is a step, with the settings read earlier kept in `seen`. A code that is entered is counted, compared and turned into a session, the session
carries the revision of the settings that were read, and a page is served after both gates. Simplifications: one cookie for each browser and not one for each host; one bucket
of attempts (visitors without a verified address share one); among matching scopes all tenants' own come in any order; the cleanup of expired rows has no limit of 100; an audit row is
written by the statement it belongs to, and the two cleanups by the one that issues the session; the API's own check repeats `requirePublicAccess` and is left out.

### PasswordResets

A request reads the clock, purges, asks its three questions in any order, and creates the row. Rows are a set; those of one address and one instant,
which the generated identifier tells apart, are numbered.

## 3. The runs

Time on two workers is under five minutes each; the bounds are those of the cfg files.

| Run | Instance | Shows |
|---|---|---|
| `reservations` | 3 requests on 2 slots in a month (capacity 1 and 2), 2 references, any version, at one instant; or 3 creates with 2 keys and 2 payloads, a record that lives 1 of 2 instants, 1 rollback | no overbooking, unique references, one winner per version and no lost update, refinement of the ledger, no deadlock; one booking per key and lifetime of its record, a replay is the original answer |
| `answered` | one request of every kind about the same booking | the lock order lets every request finish |
| `retry_after_closing` | 3 creates with 2 keys and 2 payloads, a slot that closes while their record lives | a divergence from the API guide, below |
| `municipal_calls` | 2 overlapping cron requests, 1 target, 1 retry, a receipt that is clear or not acknowledged, events in any order | no attempt is dialled twice, no retry without a failed call, an answered call stays answered and its answer settles the target or reaches the staff |
| `municipal_settled` | 1 cron request at a time, one of which is killed; a revision, staff; a receipt that is clear, or unclear and acknowledged | every target is settled; a dead sender's call is found; what citizens and staff see is a round of calls, one after the other |
| `municipal_overwrite`, `municipal_completion` | 2 receipts; staff against a request | defects, below |
| `quota` | 2 calls, 2 keys, limit 1, 2 revisions, 2 months | exact counters, no limit passed, every call ends, no refusal without cause: refinement of the quota's ledger |
| `group_sync`, registrations | 1 registration, 3 calls, 1 operator, 2 lists, 2 accounts, 2 contacts, 3 acts of people, a lease of one instant | one contact per binding, no contact of a former list, no binding over a write under way |
| `group_sync`, regular | at most 2 calls at a time; 2 operations about 1 member at one instant; or 1 operation, a clock of 3 and items that are given up after one; or 1 operation about 2 members; 1 deed of the staff in the first two | a finished operation tells what its items became, two operations that synchronised a member each had its row for itself, a deleted person's row is left alone |
| `group_rate_limit` | as `group_sync`, registrations | a divergence from the guide, below |
| `authority` | 3 accounts, 2 roles, 2 sets of permissions, the operator | a recovery administrator remains, authority comes from above, a guarded freeze holds |
| `services`, dispatches | 2 preparations of one key at one instant, or 1 beside the staff and a clock; 2 persons, 2 settings, 1 change of the sources | a settled row names all that was made, a key makes one of each, a campaign calls whom a preflight showed |
| `services`, deployments | 2 pipelines, 2 commits, a chain of 3 migrations of which one is gated, 1 write, 2 acts of operators | what is applied was approved and rehearsed, no deployment before its migrations |
| `services`, gates | 1 tenant, 2 codes; 2 changes and 1 visitor at one instant, or 1 change, 2 visitors and a clock | only the code in force opens, attempts are limited in each window |
| `services`, ports | 2 checkouts, 2 slots, 2 allocations; 2 processes, possibly of one number, and a person who removes locks, or 3 processes of which two have one number | one slot per checkout, a server that is registered is the one its lease names, refinement of the register |
| `services`, resets | 2 requests at one time, 2 addresses, limits of 1 and 2, a clock of 3 | the excess over a limit is less than the requests at one time |

Why these bounds are enough to be interesting: overbooking, a shared reference
and a lost update need two requests and a third that made the booking, or one and the refill. The two parts of
`reservations` are told apart by the constraint `Parts` of `MCReservationParts`: requests that compete do so at one instant and
without rollbacks, and one create is retried. A call repeated after an expired claim needs two cron requests and one target.
The round of calls is checked where a request is killed, a workflow revised and the deadline near; overlapping requests have `municipal_calls`, and
contradictory answers the theorem.
A record expires while a retry waits when the clock passes its lifetime once, and the third create then books again. A limit of one is
reached by the first of two calls; the month may end between any two of their
statements. Three accounts let an actor and a target differ from the last recovery administrator, and two roles
let a member of one rewrite the other. A second contact needs a call that lost its answer and one more; a
third call finds the claim of the second. Rows of a group are synchronised one by one and meet only in the
unique index of contacts, where `EditOutside` and the operator stand for the other row. An item
of a regular group is given up under its call when the clock passes its lifetime once, and a second call is the one that gives it up or takes the next; two operations suffice to compete for a row, and
the rows of two members meet only in their operation. A second list or campaign needs two preparations of one
key, and preparations of different keys share nothing. A migration is unreviewed if another pipeline or an operator changes the database
between two looks, for which two of each suffice; the gated migration is the last, so that an expansion comes before it. A lease is taken twice by a process
that believes to have the lock and one that has it, which a lock removed by hand may bring about; the instance with a third process has nobody remove it. A session outlives its code if the settings change between
reading them and issuing it: one change gives the code, another replaces it or switches it off. Requests, workers, accounts and roles are symmetric; no run of a
liveness property uses symmetry.

Each property is also checked against a mutant, a definition changed the way a plausible
bug would (a lock not taken, a bound off by one, a check dropped): the run then fails. Mutants stand
before the definition they change.

**Deadlock** is checked in every run but `services`, whose parts may stop: pipelines, dispatches and processes end. `AllAnswered` is the
stuttering of a finished instance.

**Fairness.** `Reservations` and `ReservationUsage`: weak fairness of each request's next statement; the
database runs a statement whose locks are free, and nothing is assumed of clients, clocks and
administrators. That weak fairness suffices means no request can be overtaken for ever
with finitely many requests. The run `answered` assumes lock names do not collide: colliding hashes can
deadlock, in which case PostgreSQL ends one transaction (`Abort`). `MunicipalOutreach`: the
cron service keeps calling, the host runs what it does not kill, time passes; nothing of
provider, citizens or staff.

### Disagreements between the code and what it says

- `retry_after_closing`: a create is validated against the current day before its
  idempotency record is looked up (`public-reservations.ts:201`), so a retry after midnight of the
  day is answered INVALID; `docs/development/reservation-api-curl.md:66` promises the same
  booking.
- `municipal_overwrite`: of two receipts checked together the later one replaces the answer
  (`receipts.ts:80`), against the comment at `receipts.ts:79`.
- `municipal_completion`: `ensureMunicipalCase` reads a case and writes it later by id
  (`scheduler.ts:18-21`), and so changes a case completed in between, against the comment at line 20.
- `group_rate_limit`: the client reports a 429 with status 503 (`zoom-client.ts:1020`), so a create
  refused for its rate ends UNKNOWN and is not tried again (`registration-group-sync.ts:143`, 191, 193), against
  `docs/development/global-developer-api-default-groups.md:33`.

## 4. What is proved

For every value of the constants that satisfies the modules' assumptions (finite
sets of requests and calls, bounds that are numbers, an absent value that is no row):

| Theorem | States | Inductive invariant |
|---|---|---|
| `ReservationsProofs!TypeCorrectness`, `NeverOverbooked`, `ReferencesStayUnique` | the invariants of `reservations`, for any catalogue, any requests, and any `hashtext`, colliding or not | `Inv` |
| `ReservationsProofs!KeysBookOnce`, `ReplaysNameTheCreation`, `VersionsHaveOneWinner` | what the answers of `reservations` tell clients: a key books once while its record lives, a replay names that booking, one change wins against a version and none is lost | `Inv` and `HistoryInv` |
| `ReservationsProofs!ImplementsLedger` | every step of the statements is a step of the ledger or leaves it alone | `Inv` |
| `ReservationUsageProofs!TypeCorrectness`, `UsageCounted`, `LimitsRespected`, `RefusalsJustified` | exact counters, and no admission or refusal against the rows of its moment | `Inv` |
| `ReservationUsageProofs!ImplementsQuota` | every step of a call or an administrator is a step of `QuotaLedger` or leaves it alone | `Inv` and `MonthsBegun` |
| `MunicipalOutreachProofs!TypeCorrectness`, `CitizenCalledOnce` | at most one call per attempt, whatever overlaps, expires or dies | `Inv` |
| `MunicipalOutreachProofs!EvidenceReachesOutcome`, `AnswersAreFinal` | an answered call with an answer, contradictory ones included, has settled its target or reached the staff; answered stays answered | `Inv` and `AnswerInv` |
| `MunicipalOutreachProofs!RetriesFollowFailures` | a citizen is called again only after a call that is known to have failed, and no more often than the setting says | `Inv`, `AnswerInv` and `RetryInv` |
| `MunicipalOutreachProofs!ImplementsRound` | every step of requests, events, receipts and staff is a step of `CallRounds` or leaves it alone | `Inv`, `AnswerInv`, `RetryInv` and `Engaged` |
| `MunicipalOutreachProofs!CitizensCalledInTurn` | no call is recorded before every earlier one to the citizen is over | that of `CallRounds` |
| `GroupSyncProofs!TypeCorrectness`, `OneContactPerBinding`, `ContactsAreOfTheBoundList`, `RebindingWaits` | the invariants of `group_sync`, for any registrations, calls, operators, lists, and any lease | `Inv` |
| `GroupSyncProofs!SyncReports` | the whole of `SyncReportsHold`, its action property included, for any members, operations, calls, staff and waits | `SyncInv` (`OperationsInTurn`) |
| `AdminAccessProofs!TypeCorrectness`, `EveryAccountHasOneRole`, `RecoveryAlwaysPossible`, `AuthorityIsGivenFromAbove`, `FullAccessIsGivenByHolders`, `GuardedFreezeHolds` | every property of `authority`, for any accounts, roles and permissions | `Inv` |
| `OneTimeDispatchProofs!RowNamesWhatWasMade`, `OnlyConfirmedPeopleAreDialled` | both properties of dispatches, for any keys, people, settings, requests and token lifetimes | `Inv` |
| `ToolsProofs!OnlyVouchedMigrations`, `NoCodeBeforeItsSchema` | both properties of deployments, for any pipelines, chain, gated migrations and acts of operators | `Inv` |
| `ToolsProofs!PortsTyped`, `LeasesAreHeld` | one slot for a checkout, and a lease that names the server that registered, for any checkouts, slots and processes | `PortsInv` (`LocksAndLeases`) |
| `ToolsProofs!ImplementsLeases` | every step of a job is a step of `LeaseLedger` or leaves it alone | `PortsInv` |
| `ToolsProofs!NoTwoServersOfOneCheckout` | no two servers of a checkout serve, and each is named in a slot of its own | that of `LeaseLedger` (`RegisterInv`) |
| `PublicSiteProofs!OnlyCodesInForceOpen`, `TriesAreBounded` | both properties of the gates, for any tenants, codes, visitors, administrators, limit and window | `GatesInv` (`GatesHold`) |
| `PublicSiteProofs!StorageIsBounded` | the bounds of the reset form, for any limits, durations, addresses and any finite number of requests at one time | `ResetsInv` (`PassedRequestsCount`) |

*Reservations.* Capacity alone is not inductive: a transaction about to insert relies on
a count made two statements ago. `Inv` adds that locks exclude (`Exclusion`), that at
every program counter a transaction holds the locks taken so far (`Locks`) and its local variables have the
shape of that point (`Shape`), and that what it read under those locks is still true
(`ReadsHold`): there is room in the slot, the reference is unused, the row has the expected revision, the
counted bookings are an upper bound for the refill. A step of another transaction cannot falsify them
because every writer holds the month's or the reference's lock.
`HistoryInv` is inductive beside `Inv` and speaks of requests that were answered: a create keeps its key's lock from the lookup to its end (`Lookup`), so that
nobody else makes a record for the key meanwhile; the record of a creation is there until it has expired by the present clock (`RecordKept`), whatever clock
a purging request has read; and an acknowledged change has left no booking or a later version (`ChangeKept`), so that a second one with the same version
finds another or none.

*ReservationUsage.* `Held(c)` says, for each statement of a call, which rows it has locked
and that what it read of them is what they hold; `UsageIsCounted` relates the counters to the admitted
calls. The two action properties follow, since `Decide` compares values that are current.
So does the refinement: the counters are cardinalities (`UsageIsCounted`), the rows are current (`Held`), and the month a call counts for has begun (`MonthsBegun`), so
that the step in which it decides is one of the ledger, and no other statement shows. The revisions of a key and of the setting are part of the ledger, hence administrators' edits map one to one.

*MunicipalOutreach.* A call is placed only in `Send`. `OneSender`: of the
requests between committing the outbox row and calling, at most one deals with an attempt.
`NotYetCalled`: as long as there is such a request, the attempt's citizen has not been called. `RowsExist` and `CallsRecorded`
tie rows to each other: an outbox row exists before a call, and no request creates a second one for the same attempt.
`AnswerInv` follows an attempt further, to the reply: `OneHandler` says that one request writes its row,
`Unengaged` that until then it has no engagement, so that no event is applied to it, and `AnsweredEngaged` that an
answered attempt has one. A late writer therefore never meets an answered attempt.
`RetryInv` says of a job and of an attempt beyond the first that the call before it failed or was answered. Such a call stays so (`FailedStays`): a late event can
at most say that it was answered, and requests that may still write an attempt hold one without an engagement.
For the refinement `Engaged` says in addition that an attempt with an engagement has been called, that a closed one has an engagement, and that a receipt about to be
stored is of such an attempt: an event or a receipt can only speak of a call that was placed. Each step then moves the fate of one call at most. A failure
escalates exactly where the guard of `ScheduleRetry` is passed: what was `heard` is none or unacknowledged if and only if `Acknowledged` is false. `CitizensCalledInTurn` uses nothing of the tables: it is an
invariant of `CallRounds`, inductive there, and holds of the code through `ImplementsRound`.

*RegistrationGroupSync.* A contact is made twice if two calls may make one, or one may after one has. `Maker`
is a call that may still make a contact: it has claimed a row without one and not yet written. `MakerOK` says
that it is the only one and that nothing has been made; to keep this, `RowOK` says of a row that can be claimed and has no contact that
nothing was made and nobody may make anything, and `TokenOK` that a call holding a claim gives the row
back in such a state only if that is so, which is why an unknown result must be UNKNOWN. `WaitOK` says
where a maker without a claim is accounted for: its row is UNKNOWN, or an operator has decided about it. `CallOK` and
`LinkOK` keep the lists that calls and operators have read apart from the bound one by the revision. For this
the group must not be bound anew while a row has a claim, which is what `BindStep` uses.

*RegularGroupSync.* Everything turns on the version of the row: it only grows (`RowsGrow`), and who has compared it knows the row since. `LinkedAt` says that
while the row has a version its person is linked and not deleted, because a deletion raises it; an advance has it of its item's version when it is about
to lock and of the next one while it holds the row (`AdvanceFits`). `DoneInTurn` says of an item that was synchronised, or whose call is about to
say so, that its row is two versions further and, if exactly that, no longer locked, so that whoever synchronises the row next began later. `OverWith` says that the items of
an operation that is over, or found to be over by a call that has yet to write so, stay what they are: a late call of an item given up finds it no longer RUNNING.

*AdminAccess.* That a recovery administrator remains is kept by naming one (`RecoveryKept`): an account that exists, is not suspended and has
the built-in role as its only one. It is inductive with `Shape`: every account has one role and that exists (`OneRoleEach`), the
built-in roles are what the migrations made them (`SystemRolesStand`), and an account that is gone has none. The three action properties follow from `Inv` step by step; for the freeze,
`NobodyMutates` says that a guarded freeze was set while no request held the lock.

*OneTimeDispatch.* `OneWorker`: at most one preparation works on a key, since only the one that created the row goes on. `CallsOK` says for
every program counter of that one what it may assume of the row and of what was made outside: that the row is one step behind, that the contacts sent so far are those of the
list, that its snapshot is the one its token signed. `StartersOK` keeps the status where the staff can change it. `RowTellsOutside` is inductive with these.

*Deployment.* `PipelineOK` collects what a pipeline relies on: from the approval on its plan is one of its commit and production is
never behind it; a rehearsal that passed was of this plan and this data; where one is needed, it has passed and the clone is gone before migrations are
applied. `AppliersOK` says that who has applied a migration has begun to. A step of another pipeline never falsifies these: production
only moves forward, and what was applied by others is not applied again.

*PortAllocation.* `HoldsLock`: who is inside has its name in the lock's directory, so that two are never inside, even after a person has removed the lock of
somebody about to write his name. `WriteFits` says of each file about to be written that it still fits the others: a first lease of its checkout, the lease shown with
the process's name in it, or nothing in place of one that nobody who lives relies on. `IdsName` keeps apart leases that were given back and made anew.
The same `WriteFits` gives the guard of the register's action at the instant the file is replaced, and every other step of a job leaves the register alone; a process that starts is nobody a
lease names, since its start time is new (`LeaseFits`). That two servers of a checkout never serve (`OneServerEach`) is then proved of the register alone, by `RegisterInv`.

*SiteGates.* `RevisionNames`: a revision stands for one version of the settings, among those in force and those that requests still hold in their hands. `SessionTells`: who
holds the settings of the session's revision finds in them the code that was entered. Issuing relies on the settings that were read, checking on later ones, and the revision says
whether they are the same. `Counted`: a window that lasts has counted what was compared in it; the row of a window is deleted only when its end has come by the clock of the call, which is never ahead.

*PasswordResets.* `RoomInAll` and `RoomInWindow` count the rows together with the requests that have passed the count and may still create one: their sum exceeds the limit by less
than the requests at one time, since whoever passes a count leaves room for itself, and the others are at most all but one.

Only model-checked: liveness under fairness (`EveryRequestAnswered`, `EveryTargetSettled`, `CrashedSendSurfaces`, `EveryCallAnswered`), which is out of the
prover's reach. Proved and not checked by a run: `RefusedAtLimit`, which `QuotaSpec` contains, and `TypeOK` of the calls and of the keys. `ServicesTypeOK` is only the conjunction of the parts' type invariants, each of which its component's proofs establish. The four runs that expect a violation
have nothing to prove.

## 5. Not modelled, and why

- Read-only queries, parsing, formatting, audit rows, notifications: they change
  nothing a property speaks of.
- Signature checks, password hashing, key generation: pure functions.
- Serialization failures of a receipt's transaction (they answer an error and change
  nothing).
- `zaad/municipal/registrations.ts`, previews before a run is queued, capabilities
  that only allow or refuse.
- `zaad/residents.ts`. It claims the row of a resident, calls the outside contact centre and records the answer, or
  reconciles later. With overlapping requests its steps promise less than it seems: linking a contact does not raise the revision, so
  that a deletion that found no contact (`residents.ts:808`) removes the row while a contact is being linked, which then stays outside, although
  `zaad-dictionaries.ts:567` tells administrators that the contact is deleted first; a late success is recorded over a conflict; and
  a failure of the database between creating and linking leaves a row that is tried again although its contact exists. A module of it
  would have these as its results.
- University outreach. All its transactions are serializable; what remains to be modelled is which of the checks of `executeBatch`
  another operation leaves out: `recontact` before an execution leaves a batch that can neither be executed nor deleted as a draft.
- What each module leaves out is said with its component in `PROJECT.json`: for instance the environment variables and
  the quality gates of a deployment, the shape of lease files, and a visitor's other cookies.
- The other components marked so in the inventory: they parse, render, or write one row.

## 6. Plan

Every safety invariant, action property and refinement that a run checks has its theorem. What could follow:

1. The operations and items of the registration groups (`advanceRegistrationSync`), which `RegularGroupSync` has for the other
   kind; its proof would follow `OperationsTell`.
2. Residents: the claim and the contact outside, with the results named in section 5 as disagreements.
3. University outreach: reviews against edits, recontact against execution.
4. The session and the password's version, for what a change of one's own password may clear (`route.ts:2337`).

Modules that share no state with others go into `MCServices`.
