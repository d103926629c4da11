------------------------------ MODULE Reservations ------------------------------
(***************************************************************************)
(* The public reservation API (lib/server/public-reservations.ts) and the  *)
(* demo regeneration of the admin screen (lib/server/reservations.ts), at  *)
(* the level of the SQL statements of their PostgreSQL transactions.       *)
(*                                                                         *)
(* Every request is one process t of Tx.  The table of bookings has no     *)
(* unique index: what keeps a slot within its capacity and an external     *)
(* reference unique is the order in which the transactions take advisory   *)
(* locks, and the statements they run under them.  A transaction reads the *)
(* last committed rows (READ COMMITTED), publishes its writes when it      *)
(* commits, and commit and rollback release its locks.                     *)
(***************************************************************************)
EXTENDS Integers, FiniteSets

CONSTANTS
  Tx,         \* the requests; a booking is named by the request that made it
  ApiKey,     \* reservation API keys of one tenant
  Ani,        \* digests of callers' phone numbers
  IdemKey,    \* digests of Idempotency-Key headers
  Ref,        \* external references chosen by the callers
  Slot,       \* (service, date, start) triples of the catalogue
  Month,      \* calendar months
  MonthOf,    \* [Slot -> Month]
  Capacity,   \* [Slot -> positive capacity]
  Bookable,   \* [Slot -> instants at which the catalogue offers the slot]
  InRange,    \* [Month -> instants at which the month may be filled]
  hashtext,   \* PostgreSQL's hashtext on lock names; collisions are allowed
  Request,    \* the requests the clients may send
  Retention,  \* lifetime of an idempotency record
  MaxTime,    \* bound on the clock
  MaxAborts,  \* bound on rolled back transactions
  None        \* absence of a row, of a record, of a value

-----------------------------------------------------------------------------
(* Lock names, rows, records and requests.                                 *)

IdempotencyLock(key, idem) == <<"reservation-idempotency", key, idem>>
ReferenceLock(key, ref)    == <<"reservation-external-reference", key, ref>>
MonthLock(month)           == <<"reservation-demo-fill", month>>
SlotLock(slot)             == <<"reservation-slot", slot>>

LockName ==
  {IdempotencyLock(k, i) : k \in ApiKey, i \in IdemKey}
    \cup {ReferenceLock(k, r) : k \in ApiKey, r \in Ref}
    \cup {MonthLock(m) : m \in Month}
    \cup {SlotLock(s) : s \in Slot}

Row == [slot : Slot, ref : Ref, key : ApiKey, ani : Ani, revision : Nat]

Digest == [ani : Ani, slot : Slot, ref : Ref]
Record == [digest : Digest, id : Tx, expires : Nat]

Target == [slot : Slot, ref : Ref]

CreateRequest ==
  [op : {"create"}, key : ApiKey, ani : Ani, idem : IdemKey, slot : Slot, ref : Ref]
UpdateRequest ==
  [op : {"update"}, key : ApiKey, ani : Ani, id : Tx, expected : Nat,
   slot : Slot \cup {None}, ref : Ref \cup {None}]
DeleteRequest ==
  [op : {"delete"}, key : ApiKey, ani : Ani, id : Tx, expected : Nat]
RegenerateRequest == [op : {"regenerate"}, month : Month]

AnyRequest ==
  CreateRequest \cup UpdateRequest \cup DeleteRequest \cup RegenerateRequest

Code == {"NEW", "REPLAY", "UPDATED", "DELETED", "REGENERATED", "INVALID",
         "IDEMPOTENCY_KEY_REUSED", "EXTERNAL_REFERENCE_CONFLICT", "SLOT_FULL",
         "NOT_FOUND", "PRECONDITION_FAILED", "ABORTED"}
Answer == [code : Code, id : Tx \cup {None}, at : Nat]

ASSUME TxAssumption == IsFiniteSet(Tx)
ASSUME CatalogAssumption ==
  /\ MonthOf \in [Slot -> Month]
  /\ Capacity \in [Slot -> Nat \ {0}]
  /\ Bookable \in [Slot -> SUBSET Nat]
  /\ InRange \in [Month -> SUBSET Nat]
ASSUME HashAssumption == hashtext \in [LockName -> Int]
ASSUME RequestAssumption == Request \subseteq AnyRequest
ASSUME BoundAssumption == Retention \in Nat /\ MaxTime \in Nat /\ MaxAborts \in Nat
ASSUME NoneAssumption ==
  /\ None \notin Row
  /\ None \notin Record
  /\ None \notin Target
  /\ None \notin AnyRequest
  /\ None \notin Answer
  /\ None \notin Tx
  /\ None \notin Slot
  /\ None \notin Ref

-----------------------------------------------------------------------------
VARIABLES
  booking,   \* id -> committed non-demo row of reservation_bookings, or None
  demo,      \* slot -> number of committed demo rows
  record,    \* (API key, idempotency key) -> committed record, or None
  clock,     \* the wall clock of the servers
  pc,        \* where each request is
  req,       \* what each request asks, None before it arrives
  now,       \* the instant a request read when it arrived
  target,    \* slot and reference a create or update is about to write
  nonDemo,   \* slot -> bookings counted by a regeneration
  held,      \* hashes of the advisory locks a transaction holds
  rowLock,   \* the row a transaction locked FOR UPDATE, or None
  answer,    \* what the request was answered, or None
  aborts     \* transactions rolled back so far

tables == <<booking, demo, record>>
locals == <<req, now, target, nonDemo>>
vars == <<booking, demo, record, clock, pc, req, now, target, nonDemo,
          held, rowLock, answer, aborts>>

Init ==
  /\ booking = [b \in Tx |-> None]
  /\ demo = [s \in Slot |-> 0]
  /\ record = [k \in ApiKey \X IdemKey |-> None]
  /\ clock = 0
  /\ pc = [t \in Tx |-> "idle"]
  /\ req = [t \in Tx |-> None]
  /\ now = [t \in Tx |-> 0]
  /\ target = [t \in Tx |-> None]
  /\ nonDemo = [t \in Tx |-> [s \in Slot |-> 0]]
  /\ held = [t \in Tx |-> {}]
  /\ rowLock = [t \in Tx |-> None]
  /\ answer = [t \in Tx |-> None]
  /\ aborts = 0

-----------------------------------------------------------------------------
(* Helpers: queries on the committed tables, locks, ends of transactions.  *)

\* The non-demo bookings of a slot.
Taken(s) == {b \in Tx : booking[b] # None /\ booking[b].slot = s}

\* A mutant of Full: the count leaves the demo rows out.
FullIgnoringDemo(s, except) == Cardinality(Taken(s) \ {except}) >= Capacity[s]

\* assertCapacity counts every booking of the slot, demo rows included, but
\* not the one being moved.
Full(s, except) == Cardinality(Taken(s) \ {except}) + demo[s] >= Capacity[s]

\* assertExternalReferenceAvailable.
ReferenceUsed(key, ref, except) ==
  \E b \in Tx \ {except} :
    booking[b] # None /\ booking[b].key = key /\ booking[b].ref = ref

\* pg_advisory_xact_lock: waits while another transaction holds the hash.
Acquire(t, lock) ==
  /\ \A u \in Tx \ {t} : hashtext[lock] \notin held[u]
  /\ held' = [held EXCEPT ![t] = @ \cup {hashtext[lock]}]

Goto(t, label) == pc' = [pc EXCEPT ![t] = label]

\* A mutant of Finish: session locks, which outlive the transaction.
FinishKeepingLocks(t, code, id) ==
  /\ Goto(t, "done")
  /\ answer' = [answer EXCEPT ![t] = [code |-> code, id |-> id, at |-> clock]]
  /\ rowLock' = [rowLock EXCEPT ![t] = None]
  /\ UNCHANGED held

\* Commit or rollback: the answer is known and every lock is released.
Finish(t, code, id) ==
  /\ Goto(t, "done")
  /\ answer' = [answer EXCEPT ![t] = [code |-> code, id |-> id, at |-> clock]]
  /\ held' = [held EXCEPT ![t] = {}]
  /\ rowLock' = [rowLock EXCEPT ![t] = None]

\* A statement that throws rolls the transaction back.
Reject(t, code) ==
  /\ Finish(t, code, None)
  /\ UNCHANGED <<tables, locals, clock, aborts>>

IsWrite(t) == req[t].op \in {"create", "update"}

\* The booking a create makes or an update replaces.
BookingId(t) == IF req[t].op = "create" THEN t ELSE req[t].id

LiveRecord(t) ==
  LET r == record[<<req[t].key, req[t].idem>>]
  IN  r # None /\ r.expires >= now[t]

RequestDigest(r) == [ani |-> r.ani, slot |-> r.slot, ref |-> r.ref]

\* The demo rows regenerateDemoReservations may put in a slot of capacity c
\* that n callers booked: the targets are dealt out in a shuffled order.
Categories(c) == IF c = 1 THEN {1, 0} ELSE {(c + 1) \div 2, c - 1, c, 0}
DemoFill(c, n) ==
  {IF c - n <= 0 THEN 0 ELSE IF k < c - n THEN k ELSE c - n : k \in Categories(c)}

-----------------------------------------------------------------------------
(* A request arrives.                                                      *)

BeginCreate(t) ==
  /\ pc[t] = "idle"
  /\ \E r \in Request :
       /\ r.op = "create"
       /\ req' = [req EXCEPT ![t] = r]
       /\ now' = [now EXCEPT ![t] = clock]
       /\ IF clock \in Bookable[r.slot]
            THEN /\ Goto(t, "purge")
                 /\ target' = [target EXCEPT ![t] = [slot |-> r.slot, ref |-> r.ref]]
                 /\ UNCHANGED <<held, rowLock, answer>>
            ELSE /\ Finish(t, "INVALID", None)
                 /\ UNCHANGED target
  /\ UNCHANGED <<tables, nonDemo, clock, aborts>>

BeginRowRequest(t) ==
  /\ pc[t] = "idle"
  /\ \E r \in Request :
       /\ r.op \in {"update", "delete"}
       /\ req' = [req EXCEPT ![t] = r]
       /\ now' = [now EXCEPT ![t] = clock]
  /\ Goto(t, "row")
  /\ UNCHANGED <<tables, target, nonDemo, held, rowLock, answer, clock, aborts>>

BeginRegenerate(t) ==
  /\ pc[t] = "idle"
  /\ \E r \in Request :
       /\ r.op = "regenerate"
       /\ req' = [req EXCEPT ![t] = r]
       /\ now' = [now EXCEPT ![t] = clock]
       /\ IF clock \in InRange[r.month]
            THEN /\ Goto(t, "month")
                 /\ UNCHANGED <<held, rowLock, answer>>
            ELSE Finish(t, "INVALID", None)
  /\ UNCHANGED <<tables, target, nonDemo, clock, aborts>>

-----------------------------------------------------------------------------
(* createPublicReservation: expired records are deleted before the         *)
(* transaction, then the record of the key is looked up under its lock.    *)

\* A mutant of PurgeExpired: a record is deleted at the instant it expires.
PurgeAtExpiry(t) ==
  /\ pc[t] = "purge"
  /\ record' = [k \in ApiKey \X IdemKey |->
       IF record[k] # None /\ record[k].expires <= now[t] THEN None ELSE record[k]]
  /\ Goto(t, "idem")
  /\ UNCHANGED <<booking, demo, locals, clock, held, rowLock, answer, aborts>>

PurgeExpired(t) ==
  /\ pc[t] = "purge"
  /\ record' = [k \in ApiKey \X IdemKey |->
       IF record[k] # None /\ record[k].expires < now[t] THEN None ELSE record[k]]
  /\ Goto(t, "idem")
  /\ UNCHANGED <<booking, demo, locals, clock, held, rowLock, answer, aborts>>

LockIdempotencyKey(t) ==
  /\ pc[t] = "idem"
  /\ Acquire(t, IdempotencyLock(req[t].key, req[t].idem))
  /\ Goto(t, "lookup")
  /\ UNCHANGED <<tables, locals, clock, rowLock, answer, aborts>>

\* A mutant of FindRecord: the payload is not compared.
FindRecordOfAnyPayload(t) ==
  /\ pc[t] = "lookup"
  /\ \/ /\ LiveRecord(t)
        /\ Finish(t, "REPLAY", record[<<req[t].key, req[t].idem>>].id)
     \/ /\ ~LiveRecord(t)
        /\ Goto(t, "ref")
        /\ UNCHANGED <<held, rowLock, answer>>
  /\ UNCHANGED <<tables, locals, clock, aborts>>

FindRecord(t) ==
  LET r == record[<<req[t].key, req[t].idem>>]
  IN  /\ pc[t] = "lookup"
      /\ \/ /\ LiveRecord(t)
            /\ r.digest # RequestDigest(req[t])
            /\ Finish(t, "IDEMPOTENCY_KEY_REUSED", None)
         \/ /\ LiveRecord(t)
            /\ r.digest = RequestDigest(req[t])
            /\ Finish(t, "REPLAY", r.id)
         \/ /\ ~LiveRecord(t)
            /\ Goto(t, "ref")
            /\ UNCHANGED <<held, rowLock, answer>>
      /\ UNCHANGED <<tables, locals, clock, aborts>>

-----------------------------------------------------------------------------
(* updatePublicReservation and deletePublicReservation: SELECT FOR UPDATE  *)
(* of the caller's own row, the version check, the merge of the patch.     *)

OwnRow(t) ==
  LET b == booking[req[t].id]
  IN  b # None /\ b.key = req[t].key /\ b.ani = req[t].ani

\* A mutant of Merged: a patch without a reference clears it.
MergedWithoutFallback(t) ==
  LET r == req[t]
  IN  [slot |-> IF r.slot = None THEN booking[r.id].slot ELSE r.slot, ref |-> r.ref]

Merged(t) ==
  LET r == req[t]
      b == booking[r.id]
  IN  [slot |-> IF r.slot = None THEN b.slot ELSE r.slot,
       ref  |-> IF r.ref = None THEN b.ref ELSE r.ref]

RowMissing(t) ==
  /\ pc[t] = "row"
  /\ ~OwnRow(t)
  /\ Reject(t, "NOT_FOUND")

\* A mutant of RowFree: a plain SELECT, without FOR UPDATE.
RowReadUnlocked(t) == t \in Tx

RowFree(t) == \A u \in Tx \ {t} : rowLock[u] # req[t].id

RowStale(t) ==
  /\ pc[t] = "row"
  /\ OwnRow(t) /\ RowFree(t)
  /\ booking[req[t].id].revision # req[t].expected
  /\ Reject(t, "PRECONDITION_FAILED")

LockRow(t) ==
  /\ pc[t] = "row"
  /\ OwnRow(t) /\ RowFree(t)
  /\ booking[req[t].id].revision = req[t].expected
  /\ \/ /\ req[t].op = "update"
        /\ now[t] \in Bookable[Merged(t).slot]
        /\ rowLock' = [rowLock EXCEPT ![t] = req[t].id]
        /\ target' = [target EXCEPT ![t] = Merged(t)]
        /\ Goto(t, "ref")
        /\ UNCHANGED <<held, answer>>
     \/ /\ req[t].op = "update"
        /\ now[t] \notin Bookable[Merged(t).slot]
        /\ Finish(t, "INVALID", None)
        /\ UNCHANGED target
     \/ /\ req[t].op = "delete"
        /\ rowLock' = [rowLock EXCEPT ![t] = req[t].id]
        /\ Goto(t, "write")
        /\ UNCHANGED <<target, held, answer>>
  /\ UNCHANGED <<tables, req, now, nonDemo, clock, aborts>>

-----------------------------------------------------------------------------
(* The statements create and update share.                                 *)

\* A mutant of LockExternalReference: the reference is checked without a lock.
SkipReferenceLock(t) ==
  /\ pc[t] = "ref"
  /\ Goto(t, "refcheck")
  /\ UNCHANGED <<tables, locals, clock, held, rowLock, answer, aborts>>

LockExternalReference(t) ==
  /\ pc[t] = "ref"
  /\ Acquire(t, ReferenceLock(req[t].key, target[t].ref))
  /\ Goto(t, "refcheck")
  /\ UNCHANGED <<tables, locals, clock, rowLock, answer, aborts>>

CheckExternalReference(t) ==
  /\ pc[t] = "refcheck"
  /\ \/ /\ ReferenceUsed(req[t].key, target[t].ref, BookingId(t))
        /\ Finish(t, "EXTERNAL_REFERENCE_CONFLICT", None)
     \/ /\ ~ReferenceUsed(req[t].key, target[t].ref, BookingId(t))
        /\ Goto(t, "month")
        /\ UNCHANGED <<held, rowLock, answer>>
  /\ UNCHANGED <<tables, locals, clock, aborts>>

TargetMonth(t) == IF IsWrite(t) THEN MonthOf[target[t].slot] ELSE req[t].month

\* A mutant of LockMonth: only the regeneration locks the month.
LockMonthToRefill(t) ==
  /\ pc[t] = "month"
  /\ IF IsWrite(t) THEN UNCHANGED held ELSE Acquire(t, MonthLock(TargetMonth(t)))
  /\ Goto(t, IF IsWrite(t) THEN "slot" ELSE "read")
  /\ UNCHANGED <<tables, locals, clock, rowLock, answer, aborts>>

LockMonth(t) ==
  /\ pc[t] = "month"
  /\ Acquire(t, MonthLock(TargetMonth(t)))
  /\ Goto(t, IF IsWrite(t) THEN "slot" ELSE "read")
  /\ UNCHANGED <<tables, locals, clock, rowLock, answer, aborts>>

LockSlot(t) ==
  /\ pc[t] = "slot"
  /\ Acquire(t, SlotLock(target[t].slot))
  /\ Goto(t, "count")
  /\ UNCHANGED <<tables, locals, clock, rowLock, answer, aborts>>

CheckCapacity(t) ==
  /\ pc[t] = "count"
  /\ \/ /\ Full(target[t].slot, BookingId(t))
        /\ Finish(t, "SLOT_FULL", None)
     \/ /\ ~Full(target[t].slot, BookingId(t))
        /\ Goto(t, "write")
        /\ UNCHANGED <<held, rowLock, answer>>
  /\ UNCHANGED <<tables, locals, clock, aborts>>

\* regenerateDemoReservations reads the callers' bookings of the month once.
CountNonDemo(t) ==
  /\ pc[t] = "read"
  /\ nonDemo' = [nonDemo EXCEPT ![t] = [s \in Slot |->
       IF MonthOf[s] = req[t].month THEN Cardinality(Taken(s)) ELSE 0]]
  /\ Goto(t, "write")
  /\ UNCHANGED <<tables, req, now, target, clock, held, rowLock, answer, aborts>>

-----------------------------------------------------------------------------
(* The writes, published by the commit.                                    *)

CommitCreate(t) ==
  /\ pc[t] = "write" /\ req[t].op = "create"
  /\ booking' = [booking EXCEPT ![t] =
       [slot |-> target[t].slot, ref |-> target[t].ref,
        key |-> req[t].key, ani |-> req[t].ani, revision |-> 1]]
  /\ record' = [record EXCEPT ![<<req[t].key, req[t].idem>>] =
       [digest |-> RequestDigest(req[t]), id |-> t, expires |-> now[t] + Retention]]
  /\ Finish(t, "NEW", t)
  /\ UNCHANGED <<demo, locals, clock, aborts>>

CommitUpdate(t) ==
  /\ pc[t] = "write" /\ req[t].op = "update"
  /\ booking' = [booking EXCEPT ![req[t].id] =
       [slot |-> target[t].slot, ref |-> target[t].ref, key |-> @.key, ani |-> @.ani,
        revision |-> @.revision + 1]]
  /\ Finish(t, "UPDATED", req[t].id)
  /\ UNCHANGED <<demo, record, locals, clock, aborts>>

CommitDelete(t) ==
  /\ pc[t] = "write" /\ req[t].op = "delete"
  /\ booking' = [booking EXCEPT ![req[t].id] = None]
  /\ Finish(t, "DELETED", req[t].id)
  /\ UNCHANGED <<demo, record, locals, clock, aborts>>

\* Demo rows of the month are replaced; a slot the catalogue no longer offers
\* gets none.
DemoAfter(t, s) ==
  IF MonthOf[s] # req[t].month THEN {demo[s]}
  ELSE IF now[t] \in Bookable[s] THEN DemoFill(Capacity[s], nonDemo[t][s])
  ELSE {0}

CommitRegenerate(t) ==
  /\ pc[t] = "write" /\ req[t].op = "regenerate"
  /\ \E fill \in [Slot -> UNION {DemoAfter(t, s) : s \in Slot}] :
       /\ \A s \in Slot : fill[s] \in DemoAfter(t, s)
       /\ demo' = fill
  /\ Finish(t, "REGENERATED", None)
  /\ UNCHANGED <<booking, record, locals, clock, aborts>>

-----------------------------------------------------------------------------
(* A lost connection, Prisma's transaction timeout or the deadlock         *)
(* detector of PostgreSQL: the request fails with nothing written.         *)
Abort(t) ==
  /\ pc[t] \notin {"idle", "done"}
  /\ aborts < MaxAborts
  /\ aborts' = aborts + 1
  /\ Finish(t, "ABORTED", None)
  /\ UNCHANGED <<tables, locals, clock>>

Tick ==
  /\ clock < MaxTime
  /\ clock' = clock + 1
  /\ UNCHANGED <<tables, pc, locals, held, rowLock, answer, aborts>>

\* Every request has been answered: the only state the system rests in.
AllAnswered ==
  /\ \A t \in Tx : pc[t] = "done"
  /\ UNCHANGED vars

Begin(t) == BeginCreate(t) \/ BeginRowRequest(t) \/ BeginRegenerate(t)

Statement(t) ==
  \/ PurgeExpired(t) \/ LockIdempotencyKey(t) \/ FindRecord(t)
  \/ RowMissing(t) \/ RowStale(t) \/ LockRow(t)
  \/ LockExternalReference(t) \/ CheckExternalReference(t)
  \/ LockMonth(t) \/ LockSlot(t) \/ CheckCapacity(t) \/ CountNonDemo(t)
  \/ CommitCreate(t) \/ CommitUpdate(t) \/ CommitDelete(t) \/ CommitRegenerate(t)

Next ==
  \/ \E t \in Tx : Begin(t) \/ Statement(t) \/ Abort(t)
  \/ Tick
  \/ AllAnswered

Spec == Init /\ [][Next]_vars

\* The runtime keeps executing the statements of a request it has accepted.
FairSpec == Spec /\ \A t \in Tx : WF_vars(Statement(t))
-----------------------------------------------------------------------------
(* What is claimed.                                                        *)

Label == {"idle", "purge", "idem", "lookup", "row", "ref", "refcheck", "month",
          "slot", "count", "read", "write", "done"}

\* The variables have their types.
TypeOK ==
  /\ booking \in [Tx -> Row \cup {None}]
  /\ demo \in [Slot -> Nat]
  /\ record \in [ApiKey \X IdemKey -> Record \cup {None}]
  /\ clock \in Nat
  /\ pc \in [Tx -> Label]
  /\ req \in [Tx -> Request \cup {None}]
  /\ now \in [Tx -> Nat]
  /\ target \in [Tx -> Target \cup {None}]
  /\ nonDemo \in [Tx -> [Slot -> Nat]]
  /\ held \in [Tx -> SUBSET Int]
  /\ rowLock \in [Tx -> Tx \cup {None}]
  /\ answer \in [Tx -> Answer \cup {None}]
  /\ aborts \in Nat

\* No slot is overbooked: creates, moves into the slot and demo refills of its
\* month race for the same places (assertCapacity, regenerateDemoReservations).
CapacityRespected ==
  \A s \in Slot : Cardinality(Taken(s)) + demo[s] <= Capacity[s]

\* No two bookings of an API key carry the same external reference, though the
\* table has no unique index (assertExternalReferenceAvailable).
ReferenceUnique ==
  \A b, c \in Tx :
    /\ booking[b] # None /\ booking[c] # None
    /\ booking[b].key = booking[c].key /\ booking[b].ref = booking[c].ref
    => b = c

Answered(t, codes) == answer[t] # None /\ answer[t].code \in codes

\* A key creates a second booking only once the record of the first one has
\* expired, whatever clocks the waiting requests read when they arrived
\* (createPublicReservation).
OneBookingPerKey ==
  \A t, u \in Tx :
    /\ t # u
    /\ Answered(t, {"NEW"}) /\ Answered(u, {"NEW"})
    /\ req[t].key = req[u].key /\ req[t].idem = req[u].idem
    => \/ answer[u].at > now[t] + Retention
       \/ answer[t].at > now[u] + Retention

\* A replay returns the booking that the same key and the same payload created
\* (createPublicReservation).
ReplayIsTheCreation ==
  \A t \in Tx :
    Answered(t, {"REPLAY"}) =>
      LET c == answer[t].id
      IN  /\ Answered(c, {"NEW"})
          /\ req[c].key = req[t].key /\ req[c].idem = req[t].idem
          /\ RequestDigest(req[c]) = RequestDigest(req[t])

\* Of the changes that name the same version of a booking one succeeds at most, and the version
\* a client sees counts the updates that were acknowledged: none wins against a version already
\* replaced, is lost, or is applied twice (updatePublicReservation, deletePublicReservation).
OneWinnerPerVersion ==
  /\ \A t, u \in Tx :
       /\ t # u
       /\ Answered(t, {"UPDATED", "DELETED"}) /\ Answered(u, {"UPDATED", "DELETED"})
       /\ req[t].id = req[u].id
       => req[t].expected # req[u].expected
  /\ \A b \in Tx :
       booking[b] # None =>
         booking[b].revision = 1 + Cardinality({t \in Tx :
           Answered(t, {"UPDATED"}) /\ req[t].id = b})

\* Every accepted request is answered: the lock order of creates, updates,
\* deletes and regenerations lets none of them wait for ever.
EveryRequestAnswered == \A t \in Tx : pc[t] # "idle" ~> pc[t] = "done"

\* The API guide's promise that sending the same key, Idempotency-Key and payload
\* again returns the same booking (docs/development/reservation-api-curl.md:66),
\* for a retry that arrives after the creation and within the retention.
RetryIsReplayed ==
  \A t, u \in Tx :
    /\ Answered(t, {"NEW"}) /\ req[u] # None /\ req[u].op = "create"
    /\ req[u].key = req[t].key /\ req[u].idem = req[t].idem
    /\ RequestDigest(req[u]) = RequestDigest(req[t])
    /\ now[u] >= answer[t].at /\ now[u] <= now[t] + Retention
    /\ answer[u] # None /\ u # t
    => Answered(u, {"REPLAY", "ABORTED"})

\* The tables behave as the atomic ledger (ReservationLedger).
Ledger == INSTANCE ReservationLedger WITH Id <- Tx
LedgerSpec == Ledger!LedgerSpec
=============================================================================
