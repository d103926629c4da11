--------------------------- MODULE ReservationsProofs ---------------------------
(***************************************************************************)
(* Proofs about Reservations for any sets of requests, slots, keys and     *)
(* references, any catalogue and any hashtext, colliding or not.           *)
(***************************************************************************)
EXTENDS Reservations, FiniteSetTheorems, TLAPS

-----------------------------------------------------------------------------
(* The inductive invariant: what each transaction knows at each statement. *)

\* Which request is at which statement.
Shape(t) ==
  /\ pc[t] # "idle" => req[t] # None
  /\ pc[t] \in {"purge", "idem", "lookup"} => req[t].op = "create" /\ target[t] # None
  /\ pc[t] = "row" => req[t].op \in {"update", "delete"}
  /\ pc[t] \in {"ref", "refcheck", "slot", "count"} => IsWrite(t) /\ target[t] # None
  /\ pc[t] = "month" => req[t].op # "delete"
  /\ pc[t] = "read" => req[t].op = "regenerate"
  /\ pc[t] \in {"month", "write"} /\ IsWrite(t) => target[t] # None

HoldsReference(t) ==
  pc[t] \in {"refcheck", "month", "slot", "count", "write"} /\ IsWrite(t)
HoldsMonth(t) ==
  pc[t] \in {"slot", "count", "read", "write"} /\ req[t].op # "delete"
HoldsRow(t) ==
  \/ /\ pc[t] \in {"ref", "refcheck", "month", "slot", "count", "write"}
     /\ req[t].op = "update"
  \/ pc[t] = "write" /\ req[t].op = "delete"

\* The locks a transaction holds at each statement.
Locks(t) ==
  /\ HoldsReference(t) => hashtext[ReferenceLock(req[t].key, target[t].ref)] \in held[t]
  /\ HoldsMonth(t) => hashtext[MonthLock(TargetMonth(t))] \in held[t]
  /\ HoldsRow(t) => rowLock[t] = req[t].id

\* Two transactions hold neither the same hash nor the same row.
Exclusion ==
  \A t, u \in Tx : t # u =>
    /\ held[t] \cap held[u] = {}
    /\ rowLock[t] = rowLock[u] => rowLock[t] = None

\* What a transaction read stays true until it commits.
RowStillRead(t) ==
  HoldsRow(t) =>
    /\ booking[req[t].id] # None
    /\ booking[req[t].id].revision = req[t].expected
    /\ booking[req[t].id].key = req[t].key
ReferenceStillUnused(t) ==
  pc[t] \in {"month", "slot", "count", "write"} /\ IsWrite(t) =>
    ~ReferenceUsed(req[t].key, target[t].ref, BookingId(t))
RoomStillThere(t) ==
  pc[t] = "write" /\ IsWrite(t) => ~Full(target[t].slot, BookingId(t))
CountStillCovers(t) ==
  pc[t] = "write" /\ req[t].op = "regenerate" =>
    \A s \in Slot : MonthOf[s] = req[t].month => Cardinality(Taken(s)) <= nonDemo[t][s]
BookedWhenDone(t) == booking[t] # None => pc[t] = "done"

ReadsHold(t) ==
  /\ RowStillRead(t) /\ ReferenceStillUnused(t) /\ RoomStillThere(t)
  /\ CountStillCovers(t) /\ BookedWhenDone(t)

Inv ==
  /\ TypeOK
  /\ Exclusion
  /\ \A t \in Tx : Shape(t) /\ Locks(t) /\ ReadsHold(t)
  /\ CapacityRespected
  /\ ReferenceUnique

-----------------------------------------------------------------------------
(* Facts about requests and counts.                                        *)

\* A request is one of the four kinds.
LEMMA RequestKinds ==
  ASSUME NEW r \in Request
  PROVE  /\ r.op \in {"create", "update", "delete", "regenerate"}
         /\ r.op = "create" => r \in CreateRequest
         /\ r.op = "update" => r \in UpdateRequest
         /\ r.op = "delete" => r \in DeleteRequest
         /\ r.op = "regenerate" => r \in RegenerateRequest
BY RequestAssumption
   DEF AnyRequest, CreateRequest, UpdateRequest, DeleteRequest, RegenerateRequest

\* The bookings of a slot are finitely many, and a part of them is no larger.
LEMMA CountIsMonotone ==
  ASSUME NEW A, NEW B \in SUBSET Tx, A \subseteq B
  PROVE  /\ Cardinality(A) \in Nat
         /\ Cardinality(B) \in Nat
         /\ Cardinality(A) <= Cardinality(B)
<1>1. IsFiniteSet(B)
  BY TxAssumption, FS_Subset
<1>. QED  BY <1>1, FS_Subset, FS_CardinalityType

\* The step from a statement to the next one leaves every other transaction
\* where it was.
LEMMA OthersStay ==
  ASSUME TypeOK, NEW t \in Tx, NEW u \in Tx, u # t,
         Begin(t) \/ Statement(t) \/ Abort(t)
  PROVE  /\ pc'[u] = pc[u] /\ req'[u] = req[u] /\ now'[u] = now[u]
         /\ target'[u] = target[u] /\ nonDemo'[u] = nonDemo[u]
         /\ held'[u] = held[u] /\ rowLock'[u] = rowLock[u]
         /\ answer'[u] = answer[u]
BY SMTT(30) DEF TypeOK, Begin, Statement, Abort, BeginCreate, BeginRowRequest, BeginRegenerate,
       PurgeExpired, LockIdempotencyKey, FindRecord, RowMissing, RowStale, LockRow,
       LockExternalReference, CheckExternalReference, LockMonth, LockSlot,
       CheckCapacity, CountNonDemo, CommitCreate, CommitUpdate, CommitDelete,
       CommitRegenerate, Finish, Reject, Goto, Acquire, locals, tables

-----------------------------------------------------------------------------
(* Types.                                                                  *)

LEMMA InitTypes == Init => TypeOK
BY BoundAssumption DEF Init, TypeOK, Label

\* What the end of a transaction writes is typed.
LEMMA FinishTypes ==
  ASSUME TypeOK, NEW t \in Tx, NEW code \in Code, NEW id \in Tx \cup {None},
         Finish(t, code, id)
  PROVE  /\ pc' \in [Tx -> Label]
         /\ held' \in [Tx -> SUBSET Int]
         /\ rowLock' \in [Tx -> Tx \cup {None}]
         /\ answer' \in [Tx -> Answer \cup {None}]
BY DEF TypeOK, Finish, Goto, Label, Answer

LEMMA LockNames ==
  /\ \A k \in ApiKey, i \in IdemKey : hashtext[IdempotencyLock(k, i)] \in Int
  /\ \A k \in ApiKey, r \in Ref : hashtext[ReferenceLock(k, r)] \in Int
  /\ \A m \in Month : hashtext[MonthLock(m)] \in Int
  /\ \A s \in Slot : hashtext[SlotLock(s)] \in Int
BY HashAssumption DEF LockName, IdempotencyLock, ReferenceLock, MonthLock, SlotLock

\* The rows a regeneration leaves in a slot.
LEMMA DemoFillBounds ==
  ASSUME NEW c \in Nat \ {0}, NEW n \in Nat, NEW d \in DemoFill(c, n)
  PROVE  d \in Nat /\ (d = 0 \/ n + d <= c)
BY DEF DemoFill, Categories

LEMMA ArrivalTypes ==
  ASSUME TypeOK, NEW t \in Tx, Begin(t)
  PROVE  TypeOK'
<1>1. CASE BeginCreate(t)
  <2>1. PICK r \in Request : BeginCreate(t)!2!(r)
    BY <1>1 DEF BeginCreate
  <2>2. r \in CreateRequest
    BY <2>1, RequestKinds
  <2>3. CASE clock \in Bookable[r.slot]
    <3>1. [slot |-> r.slot, ref |-> r.ref] \in Target
      BY <2>2 DEF CreateRequest, Target
    <3>2. /\ pc' = [pc EXCEPT ![t] = "purge"]
          /\ target' = [target EXCEPT ![t] = [slot |-> r.slot, ref |-> r.ref]]
          /\ UNCHANGED <<held, rowLock, answer>>
      BY <2>1, <2>3 DEF Goto
    <3>3. target' \in [Tx -> Target \cup {None}]
      BY <3>1, <3>2 DEF TypeOK
    <3>. QED  BY <1>1, <2>1, <3>2, <3>3 DEF BeginCreate, TypeOK, Label, tables
  <2>4. CASE clock \notin Bookable[r.slot]
    <3>1. Finish(t, "INVALID", None) /\ UNCHANGED target
      BY <2>1, <2>4
    <3>2. "INVALID" \in Code
      BY DEF Code
    <3>. QED  BY <1>1, <2>1, <3>1, <3>2, FinishTypes DEF BeginCreate, TypeOK, tables
  <2>. QED  BY <2>3, <2>4
<1>2. CASE BeginRowRequest(t)
  BY <1>2 DEF BeginRowRequest, TypeOK, Goto, Label, tables
<1>3. CASE BeginRegenerate(t)
  <2>1. PICK r \in Request : BeginRegenerate(t)!2!(r)
    BY <1>3 DEF BeginRegenerate
  <2>2. CASE clock \in InRange[r.month]
    BY <1>3, <2>1, <2>2 DEF BeginRegenerate, TypeOK, Goto, Label, tables
  <2>3. CASE clock \notin InRange[r.month]
    <3>1. Finish(t, "INVALID", None)
      BY <2>1, <2>3
    <3>2. "INVALID" \in Code
      BY DEF Code
    <3>. QED  BY <1>3, <2>1, <3>1, <3>2, FinishTypes DEF BeginRegenerate, TypeOK, tables
  <2>. QED  BY <2>2, <2>3
<1>. QED  BY <1>1, <1>2, <1>3 DEF Begin

\* An absent field of a patch takes the value of the row.
LEMMA MergeTypes ==
  ASSUME TypeOK, NEW t \in Tx, req[t] # None, req[t].op = "update", OwnRow(t)
  PROVE  Merged(t) \in Target
<1>1. req[t] \in UpdateRequest
  BY RequestKinds DEF TypeOK
<1>2. booking[req[t].id] \in Row
  BY <1>1 DEF OwnRow, TypeOK, UpdateRequest
<1>. QED  BY <1>1, <1>2 DEF Merged, Target, UpdateRequest, Row

LEMMA StatementTypes ==
  ASSUME TypeOK, NEW t \in Tx, Shape(t), RowStillRead(t), Statement(t)
  PROVE  TypeOK'
<1>. DEFINE r == req[t]
<1>. USE DEF Shape
<1>1. pc[t] # "idle" => r \in Request
  BY DEF TypeOK
<1>2. CASE PurgeExpired(t)
  BY <1>2 DEF PurgeExpired, TypeOK, Goto, Label, locals
<1>3. CASE LockIdempotencyKey(t)
  <2>1. r \in CreateRequest
    BY <1>1, <1>3, RequestKinds DEF LockIdempotencyKey
  <2>2. hashtext[IdempotencyLock(r.key, r.idem)] \in Int
    BY <2>1, LockNames DEF CreateRequest
  <2>. QED  BY <1>3, <2>2 DEF LockIdempotencyKey, Acquire, TypeOK, Goto, Label, locals, tables
<1>4. CASE FindRecord(t)
  <2>1. r \in CreateRequest
    BY <1>1, <1>4, RequestKinds DEF FindRecord
  <2>2. <<r.key, r.idem>> \in ApiKey \X IdemKey
    BY <2>1 DEF CreateRequest
  <2>3. LiveRecord(t) => record[<<r.key, r.idem>>].id \in Tx
    BY <2>2 DEF LiveRecord, TypeOK, Record
  <2>4. {"IDEMPOTENCY_KEY_REUSED", "REPLAY"} \subseteq Code
    BY DEF Code
  <2>5. CASE Goto(t, "ref") /\ UNCHANGED <<held, rowLock, answer>>
    BY <1>4, <2>5 DEF FindRecord, TypeOK, Goto, Label, locals, tables
  <2>6. CASE Finish(t, "IDEMPOTENCY_KEY_REUSED", None)
    BY <1>4, <2>4, <2>6, FinishTypes DEF FindRecord, TypeOK, locals, tables
  <2>7. CASE LiveRecord(t) /\ Finish(t, "REPLAY", record[<<r.key, r.idem>>].id)
    BY <1>4, <2>3, <2>4, <2>7, FinishTypes DEF FindRecord, TypeOK, locals, tables
  <2>. QED  BY <1>4, <2>5, <2>6, <2>7 DEF FindRecord
<1>5. CASE RowMissing(t) \/ RowStale(t)
  <2>1. PICK code \in Code : Reject(t, code)
    BY <1>5 DEF RowMissing, RowStale, Code
  <2>. QED  BY <2>1, FinishTypes DEF Reject, TypeOK, locals, tables
<1>6. CASE LockRow(t)
  <2>1. r \in UpdateRequest \cup DeleteRequest
    BY <1>1, <1>6, RequestKinds DEF LockRow
  <2>2. r.id \in Tx /\ booking[r.id] \in Row
    BY <1>6, <2>1 DEF LockRow, OwnRow, TypeOK, UpdateRequest, DeleteRequest
  <2>3. r.op = "update" => Merged(t) \in Target
    BY <1>6, MergeTypes DEF LockRow
  <2>4. "INVALID" \in Code
    BY DEF Code
  <2>5. CASE Finish(t, "INVALID", None) /\ UNCHANGED target
    BY <1>6, <2>4, <2>5, FinishTypes DEF LockRow, TypeOK, tables
  <2>6. CASE /\ r.op = "update"
             /\ rowLock' = [rowLock EXCEPT ![t] = r.id]
             /\ target' = [target EXCEPT ![t] = Merged(t)]
             /\ Goto(t, "ref")
             /\ UNCHANGED <<held, answer>>
    BY <1>6, <2>2, <2>3, <2>6 DEF LockRow, TypeOK, Goto, Label, tables
  <2>7. CASE /\ rowLock' = [rowLock EXCEPT ![t] = r.id]
             /\ Goto(t, "write")
             /\ UNCHANGED <<target, held, answer>>
    BY <1>6, <2>2, <2>7 DEF LockRow, TypeOK, Goto, Label, tables
  <2>. QED  BY <1>6, <2>5, <2>6, <2>7 DEF LockRow
<1>7. CASE LockExternalReference(t)
  <2>1. r.key \in ApiKey /\ target[t] \in Target
    BY <1>1, <1>7, RequestKinds
    DEF LockExternalReference, IsWrite, TypeOK, CreateRequest, UpdateRequest
  <2>2. hashtext[ReferenceLock(r.key, target[t].ref)] \in Int
    BY <2>1, LockNames DEF Target
  <2>. QED  BY <1>7, <2>2 DEF LockExternalReference, Acquire, TypeOK, Goto, Label, locals, tables
<1>8. CASE CheckExternalReference(t)
  <2>1. "EXTERNAL_REFERENCE_CONFLICT" \in Code
    BY DEF Code
  <2>2. CASE Finish(t, "EXTERNAL_REFERENCE_CONFLICT", None)
    BY <1>8, <2>1, <2>2, FinishTypes DEF CheckExternalReference, TypeOK, locals, tables
  <2>3. CASE Goto(t, "month") /\ UNCHANGED <<held, rowLock, answer>>
    BY <1>8, <2>3 DEF CheckExternalReference, TypeOK, Goto, Label, locals, tables
  <2>. QED  BY <1>8, <2>2, <2>3 DEF CheckExternalReference
<1>9. CASE LockMonth(t)
  <2>1. TargetMonth(t) \in Month
    BY <1>1, <1>9, RequestKinds, CatalogAssumption
    DEF LockMonth, TargetMonth, IsWrite, TypeOK, Target, RegenerateRequest
  <2>2. hashtext[MonthLock(TargetMonth(t))] \in Int
    BY <2>1, LockNames
  <2>. QED  BY <1>9, <2>2 DEF LockMonth, Acquire, TypeOK, Goto, Label, locals, tables
<1>10. CASE LockSlot(t)
  <2>1. target[t].slot \in Slot
    BY <1>10 DEF LockSlot, TypeOK, Target
  <2>2. hashtext[SlotLock(target[t].slot)] \in Int
    BY <2>1, LockNames
  <2>. QED  BY <1>10, <2>2 DEF LockSlot, Acquire, TypeOK, Goto, Label, locals, tables
<1>11. CASE CheckCapacity(t)
  <2>1. "SLOT_FULL" \in Code
    BY DEF Code
  <2>2. CASE Finish(t, "SLOT_FULL", None)
    BY <1>11, <2>1, <2>2, FinishTypes DEF CheckCapacity, TypeOK, locals, tables
  <2>3. CASE Goto(t, "write") /\ UNCHANGED <<held, rowLock, answer>>
    BY <1>11, <2>3 DEF CheckCapacity, TypeOK, Goto, Label, locals, tables
  <2>. QED  BY <1>11, <2>2, <2>3 DEF CheckCapacity
<1>12. CASE CountNonDemo(t)
  <2>1. \A s \in Slot : Cardinality(Taken(s)) \in Nat
    BY CountIsMonotone DEF Taken
  <2>2. nonDemo' \in [Tx -> [Slot -> Nat]]
    BY <1>12, <2>1 DEF CountNonDemo, TypeOK
  <2>. QED  BY <1>12, <2>2 DEF CountNonDemo, TypeOK, Goto, Label, tables
<1>13. CASE CommitCreate(t)
  <2>1. r \in CreateRequest /\ target[t] \in Target
    BY <1>1, <1>13, RequestKinds DEF CommitCreate, TypeOK, IsWrite
  <2>2. /\ [slot |-> target[t].slot, ref |-> target[t].ref,
            key |-> r.key, ani |-> r.ani, revision |-> 1] \in Row
        /\ [digest |-> RequestDigest(r), id |-> t, expires |-> now[t] + Retention] \in Record
    BY <2>1, BoundAssumption
    DEF CreateRequest, Target, Row, Record, Digest, RequestDigest, TypeOK
  <2>3. "NEW" \in Code
    BY DEF Code
  <2>. QED
    BY <1>13, <2>2, <2>3, FinishTypes DEF CommitCreate, TypeOK, locals
<1>14. CASE CommitUpdate(t)
  <2>1. r \in UpdateRequest /\ target[t] \in Target
    BY <1>1, <1>14, RequestKinds DEF CommitUpdate, TypeOK, IsWrite
  <2>2. r.id \in Tx /\ booking[r.id] \in Row
    BY <1>14, <2>1 DEF CommitUpdate, TypeOK, RowStillRead, HoldsRow, UpdateRequest
  <2>3. [slot |-> target[t].slot, ref |-> target[t].ref, key |-> booking[r.id].key,
         ani |-> booking[r.id].ani, revision |-> booking[r.id].revision + 1] \in Row
    BY <2>1, <2>2 DEF Target, Row
  <2>4. booking' \in [Tx -> Row \cup {None}]
    BY <1>14, <2>2, <2>3 DEF CommitUpdate, TypeOK
  <2>5. "UPDATED" \in Code
    BY DEF Code
  <2>. QED  BY <1>14, <2>2, <2>4, <2>5, FinishTypes DEF CommitUpdate, TypeOK, locals
<1>15. CASE CommitDelete(t)
  <2>1. r \in DeleteRequest
    BY <1>1, <1>15, RequestKinds DEF CommitDelete
  <2>2. "DELETED" \in Code /\ r.id \in Tx
    BY <2>1 DEF Code, DeleteRequest
  <2>. QED  BY <1>15, <2>2, FinishTypes DEF CommitDelete, TypeOK, locals
<1>16. CASE CommitRegenerate(t)
  <2>1. ASSUME NEW s \in Slot
        PROVE  DemoAfter(t, s) \subseteq Nat
    <3>1. Capacity[s] \in Nat \ {0} /\ nonDemo[t][s] \in Nat /\ demo[s] \in Nat
      BY CatalogAssumption DEF TypeOK
    <3>2. DemoFill(Capacity[s], nonDemo[t][s]) \subseteq Nat
      BY <3>1, DemoFillBounds
    <3>. QED  BY <3>1, <3>2 DEF DemoAfter
  <2>2. demo' \in [Slot -> Nat]
    BY <1>16, <2>1 DEF CommitRegenerate
  <2>3. "REGENERATED" \in Code
    BY DEF Code
  <2>. QED  BY <1>16, <2>2, <2>3, FinishTypes DEF CommitRegenerate, TypeOK, locals
<1>. QED
  BY <1>2, <1>3, <1>4, <1>5, <1>6, <1>7, <1>8, <1>9, <1>10, <1>11, <1>12, <1>13,
     <1>14, <1>15, <1>16 DEF Statement

-----------------------------------------------------------------------------
(* The locks.                                                              *)

Step(t) == Begin(t) \/ Statement(t) \/ Abort(t)

LEMMA StepTypes ==
  ASSUME Inv, NEW t \in Tx, Step(t)
  PROVE  TypeOK'
<1>1. CASE Begin(t)
  BY <1>1, ArrivalTypes DEF Inv
<1>2. CASE Statement(t)
  BY <1>2, StatementTypes DEF Inv, ReadsHold
<1>3. CASE Abort(t)
  <2>1. "ABORTED" \in Code
    BY DEF Code
  <2>. QED  BY <1>3, <2>1, FinishTypes DEF Inv, Abort, TypeOK, tables, locals
<1>. QED  BY <1>1, <1>2, <1>3 DEF Step

\* A step takes at most one lock that no other transaction holds, or releases
\* everything.
LEMMA LockStep ==
  ASSUME Inv, NEW t \in Tx, Step(t)
  PROVE  /\ \/ held' = held
            \/ held' = [held EXCEPT ![t] = {}]
            \/ \E h : /\ \A u \in Tx \ {t} : h \notin held[u]
                      /\ held' = [held EXCEPT ![t] = @ \cup {h}]
         /\ \/ rowLock' = rowLock
            \/ rowLock' = [rowLock EXCEPT ![t] = None]
            \/ \E id : /\ \A u \in Tx \ {t} : rowLock[u] # id
                       /\ rowLock' = [rowLock EXCEPT ![t] = id]
BY DEF Step, Begin, Statement, Abort, BeginCreate, BeginRowRequest, BeginRegenerate,
       PurgeExpired, LockIdempotencyKey, FindRecord, RowMissing, RowStale, LockRow, RowFree,
       LockExternalReference, CheckExternalReference, LockMonth, LockSlot,
       CheckCapacity, CountNonDemo, CommitCreate, CommitUpdate, CommitDelete,
       CommitRegenerate, Finish, Reject, Acquire

LEMMA ExclusionKept ==
  ASSUME Inv, NEW t \in Tx, Step(t)
  PROVE  Exclusion'
<1>. SUFFICES ASSUME NEW u \in Tx, NEW w \in Tx, u # w
              PROVE  /\ held'[u] \cap held'[w] = {}
                     /\ rowLock'[u] = rowLock'[w] => rowLock'[u] = None
  BY DEF Exclusion
<1>1. /\ held[u] \cap held[w] = {}
      /\ rowLock[u] = rowLock[w] => rowLock[u] = None
      /\ held \in [Tx -> SUBSET Int] /\ rowLock \in [Tx -> Tx \cup {None}]
  BY DEF Inv, Exclusion, TypeOK
<1>2. held'[u] \cap held'[w] = {}
  BY <1>1, LockStep
<1>3. rowLock'[u] = rowLock'[w] => rowLock'[u] = None
  BY <1>1, LockStep
<1>. QED  BY <1>2, <1>3

\* Each statement is reached with the locks the next one relies on.
LEMMA ShapeAndLocks ==
  ASSUME Inv, NEW t \in Tx, Step(t)
  PROVE  Shape(t)' /\ Locks(t)'
<1>0. Shape(t) /\ Locks(t) /\ TypeOK /\ TypeOK'
  BY StepTypes DEF Inv
<1>. USE DEF Shape, Locks, HoldsReference, HoldsMonth, HoldsRow, IsWrite
<1>1. CASE Begin(t)
  <2>1. PICK r \in Request :
          /\ req' = [req EXCEPT ![t] = r]
          /\ \/ pc' = [pc EXCEPT ![t] = "done"]
             \/ /\ pc' = [pc EXCEPT ![t] = "purge"] /\ r.op = "create"
                /\ target' = [target EXCEPT ![t] = [slot |-> r.slot, ref |-> r.ref]]
             \/ pc' = [pc EXCEPT ![t] = "row"] /\ r.op \in {"update", "delete"}
             \/ pc' = [pc EXCEPT ![t] = "month"] /\ r.op = "regenerate"
    BY <1>1 DEF Begin, BeginCreate, BeginRowRequest, BeginRegenerate, Goto, Finish
  <2>2. req'[t] = r /\ r # None
    BY <1>0, <2>1, RequestAssumption, NoneAssumption DEF TypeOK
  <2>3. r.op = "create" => [slot |-> r.slot, ref |-> r.ref] \in Target
    BY RequestKinds DEF CreateRequest, Target
  <2>. QED  BY <1>0, <2>1, <2>2, <2>3, NoneAssumption DEF TypeOK
<1>2. CASE ~Begin(t) /\ pc' = [pc EXCEPT ![t] = "done"] /\ req' = req
  BY <1>0, <1>2 DEF TypeOK, Step, Statement, Abort, PurgeExpired, LockIdempotencyKey,
     FindRecord, RowMissing, RowStale, LockRow, LockExternalReference,
     CheckExternalReference, LockMonth, LockSlot, CheckCapacity, CountNonDemo,
     CommitCreate, CommitUpdate, CommitDelete, CommitRegenerate
<1>3. CASE PurgeExpired(t) \/ LockIdempotencyKey(t)
  BY <1>0, <1>3 DEF PurgeExpired, LockIdempotencyKey, TypeOK, Goto, locals
<1>4. CASE FindRecord(t) /\ Goto(t, "ref")
  BY <1>0, <1>4 DEF FindRecord, TypeOK, Goto, locals
<1>5. CASE LockRow(t) /\ ~Finish(t, "INVALID", None)
  <2>1. CASE Goto(t, "ref") /\ req[t].op = "update"
    <3>1. target' = [target EXCEPT ![t] = Merged(t)] /\ Merged(t) # None
      BY <1>0, <1>5, <2>1, MergeTypes, NoneAssumption DEF LockRow, Finish, Goto, TypeOK
    <3>. QED  BY <1>0, <1>5, <2>1, <3>1 DEF LockRow, TypeOK, Goto
  <2>2. CASE Goto(t, "write") /\ req[t].op = "delete"
    BY <1>0, <1>5, <2>2 DEF LockRow, TypeOK, Goto
  <2>. QED  BY <1>5, <2>1, <2>2 DEF LockRow
<1>6. CASE LockExternalReference(t)
  BY <1>0, <1>6 DEF LockExternalReference, Acquire, TypeOK, Goto, locals
<1>7. CASE CheckExternalReference(t) /\ Goto(t, "month")
  BY <1>0, <1>7 DEF CheckExternalReference, TypeOK, Goto, Finish, locals
<1>8. CASE LockMonth(t)
  <2>1. req[t] \in Request /\ req[t].op # "delete"
    BY <1>0, <1>8 DEF LockMonth, TypeOK
  <2>2. IsWrite(t) \/ req[t].op = "regenerate"
    BY <2>1, RequestKinds
  <2>. QED  BY <1>0, <1>8, <2>2 DEF LockMonth, Acquire, TypeOK, Goto, locals, TargetMonth
<1>9. CASE LockSlot(t)
  BY <1>0, <1>9 DEF LockSlot, Acquire, TypeOK, Goto, locals, TargetMonth
<1>10. CASE CheckCapacity(t) /\ Goto(t, "write")
  BY <1>0, <1>10 DEF CheckCapacity, TypeOK, Goto, Finish, locals, TargetMonth
<1>11. CASE CountNonDemo(t)
  BY <1>0, <1>11 DEF CountNonDemo, TypeOK, Goto, TargetMonth
<1>. QED
  BY <1>1, <1>2, <1>3, <1>4, <1>5, <1>6, <1>7, <1>8, <1>9, <1>10, <1>11
  DEF Step, Statement, Abort, FindRecord, RowMissing, RowStale, LockRow, Reject, Finish,
      CheckExternalReference, CheckCapacity, CommitCreate, CommitUpdate, CommitDelete,
      CommitRegenerate, locals, Goto

-----------------------------------------------------------------------------
(* What a transaction read stays true.                                     *)

\* A statement that is not a commit establishes what it read.
LEMMA OwnReadsHold ==
  ASSUME Inv, NEW t \in Tx, Step(t), UNCHANGED <<booking, demo>>
  PROVE  ReadsHold(t)'
<1>0. Shape(t) /\ Locks(t) /\ ReadsHold(t) /\ TypeOK /\ TypeOK' /\ Shape(t)'
  BY StepTypes, ShapeAndLocks DEF Inv
<1>. USE DEF ReadsHold, RowStillRead, ReferenceStillUnused, RoomStillThere,
             CountStillCovers, BookedWhenDone, HoldsRow, BookingId, IsWrite
<1>1. CASE Begin(t)
  <2>1. pc'[t] \in {"done", "purge", "row"} \/ (pc'[t] = "month" /\ req'[t].op = "regenerate")
    BY <1>0, <1>1 DEF Begin, BeginCreate, BeginRowRequest, BeginRegenerate, Goto, Finish,
                      TypeOK
  <2>2. pc[t] = "idle"
    BY <1>1 DEF Begin, BeginCreate, BeginRowRequest, BeginRegenerate
  <2>. QED  BY <1>0, <2>1, <2>2
<1>2. CASE pc'[t] = "done"
  BY <1>0, <1>2
<1>3. CASE PurgeExpired(t) \/ LockIdempotencyKey(t) \/ (FindRecord(t) /\ Goto(t, "ref"))
  BY <1>0, <1>3, NoneAssumption
  DEF PurgeExpired, LockIdempotencyKey, FindRecord, TypeOK, Goto, locals, Shape
<1>4. CASE LockRow(t) /\ pc'[t] # "done"
  BY <1>0, <1>4 DEF LockRow, OwnRow, TypeOK, Goto, Finish
<1>5. CASE LockExternalReference(t)
  BY <1>0, <1>5 DEF LockExternalReference, TypeOK, Goto, locals
<1>6. CASE CheckExternalReference(t) /\ pc'[t] # "done"
  BY <1>0, <1>6 DEF CheckExternalReference, ReferenceUsed, TypeOK, Goto, Finish, locals
<1>7. CASE LockMonth(t) \/ LockSlot(t)
  BY <1>0, <1>7 DEF LockMonth, LockSlot, ReferenceUsed, TypeOK, Goto, locals, Shape
<1>8. CASE CheckCapacity(t) /\ pc'[t] # "done"
  BY <1>0, <1>8
  DEF CheckCapacity, ReferenceUsed, Full, Taken, TypeOK, Goto, Finish, locals, Shape
<1>9. CASE CountNonDemo(t)
  <2>1. req[t].op = "regenerate" /\ req'[t] = req[t] /\ pc'[t] = "write"
    BY <1>0, <1>9 DEF CountNonDemo, Goto, TypeOK, Shape
  <2>2. \A s \in Slot : Cardinality(Taken(s)) \in Nat /\ Taken(s)' = Taken(s)
    BY CountIsMonotone DEF Taken
  <2>3. \A s \in Slot : MonthOf[s] = req[t].month => nonDemo'[t][s] = Cardinality(Taken(s))
    BY <1>0, <1>9 DEF CountNonDemo, TypeOK
  <2>4. CountStillCovers(t)'
    BY <2>1, <2>2, <2>3
  <2>. QED  BY <1>0, <1>9, <2>1, <2>4 DEF CountNonDemo
<1>10. booking[t] = None \/ pc[t] = "done"
  BY <1>0
<1>. QED
  BY <1>0, <1>1, <1>2, <1>3, <1>4, <1>5, <1>6, <1>7, <1>8, <1>9, <1>10
  DEF Step, Statement, Abort, FindRecord, RowMissing, RowStale, Reject, Finish, Goto,
      CommitCreate, CommitUpdate, CommitDelete, CommitRegenerate, TypeOK

\* Two transactions never hold the lock of the same reference, month or row.
LEMMA LocksExclude ==
  ASSUME Inv, NEW t \in Tx, NEW u \in Tx, u # t
  PROVE  /\ HoldsReference(t) /\ HoldsReference(u) =>
              ~(req[t].key = req[u].key /\ target[t].ref = target[u].ref)
         /\ HoldsMonth(t) /\ HoldsMonth(u) => TargetMonth(t) # TargetMonth(u)
         /\ HoldsRow(t) /\ HoldsRow(u) => req[t].id # req[u].id
<1>1. /\ held[t] \cap held[u] = {}
      /\ rowLock[t] = rowLock[u] => rowLock[t] = None
  BY DEF Inv, Exclusion
<1>2. /\ HoldsReference(t) => hashtext[ReferenceLock(req[t].key, target[t].ref)] \in held[t]
      /\ HoldsReference(u) => hashtext[ReferenceLock(req[u].key, target[u].ref)] \in held[u]
      /\ HoldsMonth(t) => hashtext[MonthLock(TargetMonth(t))] \in held[t]
      /\ HoldsMonth(u) => hashtext[MonthLock(TargetMonth(u))] \in held[u]
      /\ HoldsRow(t) => rowLock[t] = req[t].id
      /\ HoldsRow(u) => rowLock[u] = req[u].id
  BY DEF Inv, Locks
<1>3. HoldsRow(t) => req[t].id \in Tx
  <2>. SUFFICES ASSUME HoldsRow(t)
                PROVE  req[t].id \in Tx
    OBVIOUS
  <2>1. req[t] \in Request /\ req[t].op \in {"update", "delete"}
    BY DEF HoldsRow, Inv, TypeOK, Shape
  <2>. QED  BY <2>1, RequestKinds DEF UpdateRequest, DeleteRequest
<1>. QED  BY <1>1, <1>2, <1>3, NoneAssumption

LEMMA QuietStep ==
  ASSUME Inv, NEW t \in Tx, Step(t), UNCHANGED <<booking, demo>>
  PROVE  /\ \A u \in Tx : ReadsHold(u)'
         /\ CapacityRespected' /\ ReferenceUnique'
<1>1. ASSUME NEW u \in Tx, u # t
      PROVE  ReadsHold(u)'
  <2>1. ReadsHold(u)
    BY DEF Inv
  <2>2. /\ pc'[u] = pc[u] /\ req'[u] = req[u]
        /\ target'[u] = target[u] /\ nonDemo'[u] = nonDemo[u]
    BY <1>1, OthersStay DEF Inv, Step
  <2>. QED  BY <2>1, <2>2
    DEF ReadsHold, RowStillRead, ReferenceStillUnused, RoomStillThere, CountStillCovers,
        BookedWhenDone, HoldsRow, BookingId, IsWrite, ReferenceUsed, Full, Taken
<1>2. CapacityRespected' /\ ReferenceUnique'
  BY DEF Inv, CapacityRespected, ReferenceUnique, Taken
<1>. QED  BY <1>1, <1>2, OwnReadsHold

\* The commit of a create or an update writes row as booking b.
LEMMA BookingWritten ==
  ASSUME Inv, NEW t \in Tx, Step(t), pc[t] = "write", IsWrite(t), pc'[t] = "done",
         NEW row \in Row, row.slot = target[t].slot, row.ref = target[t].ref,
         row.key = req[t].key,
         booking' = [booking EXCEPT ![BookingId(t)] = row], demo' = demo
  PROVE  /\ \A u \in Tx : ReadsHold(u)'
         /\ CapacityRespected' /\ ReferenceUnique'
<1>. DEFINE b == BookingId(t)
<1>0. /\ TypeOK /\ TypeOK' /\ Shape(t) /\ ReadsHold(t)
      /\ HoldsReference(t) /\ HoldsMonth(t) /\ TargetMonth(t) = MonthOf[row.slot]
  BY StepTypes DEF Inv, HoldsReference, HoldsMonth, IsWrite, TargetMonth
<1>1. b \in Tx /\ row.slot \in Slot /\ row # None /\ req[t] \in Request
  <2>1. req[t] \in Request
    BY <1>0 DEF Shape, TypeOK
  <2>2. b \in Tx
    BY <2>1, RequestKinds DEF BookingId, IsWrite, UpdateRequest
  <2>. QED  BY <2>1, <2>2, NoneAssumption DEF Row
<1>2. \A c \in Tx : booking'[c] = IF c = b THEN row ELSE booking[c]
  BY <1>0, <1>1 DEF TypeOK
<1>3. \A s \in Slot :
        Taken(s)' = IF s = row.slot THEN (Taken(s) \ {b}) \cup {b} ELSE Taken(s) \ {b}
  BY <1>1, <1>2 DEF Taken
<1>4. ~Full(row.slot, b) /\ ~ReferenceUsed(row.key, row.ref, b)
  BY <1>0 DEF ReadsHold, RoomStillThere, ReferenceStillUnused
<1>5. CapacityRespected'
  <2>. SUFFICES ASSUME NEW s \in Slot
                PROVE  Cardinality(Taken(s)') + demo[s] <= Capacity[s]
    BY DEF CapacityRespected
  <2>1. demo[s] \in Nat /\ Capacity[s] \in Nat
    BY <1>0, CatalogAssumption DEF TypeOK
  <2>2. CASE s = row.slot
    <3>. DEFINE others == Taken(s) \ {b}
    <3>1. IsFiniteSet(others)
      BY TxAssumption, FS_Subset DEF Taken
    <3>2. Cardinality(Taken(s)') = Cardinality(others) + 1
      <4>1. Taken(s)' = others \cup {b} /\ b \notin others
        BY <1>3, <2>2
      <4>. HIDE DEF others
      <4>. QED  BY <3>1, <4>1, FS_AddElement
    <3>3. Cardinality(Taken(s) \ {b}) \in Nat
      BY <3>1, FS_CardinalityType
    <3>. QED  BY <1>4, <2>1, <2>2, <3>2, <3>3 DEF Full
  <2>3. CASE s # row.slot
    <3>1. /\ Cardinality(Taken(s)') <= Cardinality(Taken(s))
          /\ Cardinality(Taken(s)) \in Nat /\ Cardinality(Taken(s)') \in Nat
      BY <1>3, <2>3, CountIsMonotone DEF Taken
    <3>2. Cardinality(Taken(s)) + demo[s] <= Capacity[s]
      BY DEF Inv, CapacityRespected
    <3>. QED  BY <2>1, <3>1, <3>2
  <2>. QED  BY <2>2, <2>3
<1>6. ReferenceUnique'
  <2>. SUFFICES ASSUME NEW c \in Tx, NEW d \in Tx,
                       booking'[c] # None, booking'[d] # None,
                       booking'[c].key = booking'[d].key, booking'[c].ref = booking'[d].ref
                PROVE  c = d
    BY DEF ReferenceUnique
  <2>1. CASE c # b /\ d # b
    BY <1>2, <2>1 DEF Inv, ReferenceUnique
  <2>2. CASE c = b \/ d = b
    BY <1>2, <1>4, <2>2 DEF ReferenceUsed
  <2>. QED  BY <2>1, <2>2
<1>7. ASSUME NEW u \in Tx, u # t
      PROVE  ReadsHold(u)'
  <2>1. /\ pc'[u] = pc[u] /\ req'[u] = req[u]
        /\ target'[u] = target[u] /\ nonDemo'[u] = nonDemo[u]
    BY <1>7, OthersStay DEF Inv, Step
  <2>2. ReadsHold(u) /\ Shape(u)
    BY DEF Inv
  <2>3. RowStillRead(u)'
    <3>. SUFFICES ASSUME HoldsRow(u)
                  PROVE  RowStillRead(u)'
      BY <2>1 DEF RowStillRead, HoldsRow
    <3>1. /\ booking[req[u].id] # None /\ req[u].id \in Tx
      <4>1. req[u] \in Request /\ req[u].op \in {"update", "delete"}
        BY <1>0, <2>2 DEF HoldsRow, TypeOK, Shape
      <4>. QED  BY <2>2, <4>1, RequestKinds
                DEF ReadsHold, RowStillRead, UpdateRequest, DeleteRequest
    <3>2. req[u].id # b
      <4>1. CASE req[t].op = "create"
        BY <1>0, <3>1, <4>1 DEF BookingId, ReadsHold, BookedWhenDone
      <4>2. CASE req[t].op = "update"
        BY <1>7, <4>2, LocksExclude DEF BookingId, HoldsRow
      <4>. QED  BY <4>1, <4>2 DEF IsWrite
    <3>. QED  BY <1>2, <2>1, <2>2, <3>1, <3>2 DEF ReadsHold, RowStillRead, HoldsRow
  <2>4. ReferenceStillUnused(u)'
    <3>. SUFFICES ASSUME pc[u] \in {"month", "slot", "count", "write"}, IsWrite(u)
                  PROVE  ~ReferenceUsed(req[u].key, target[u].ref, BookingId(u))'
      BY <2>1 DEF ReferenceStillUnused, IsWrite, BookingId, ReferenceUsed
    <3>1. ~ReferenceUsed(req[u].key, target[u].ref, BookingId(u))
      BY <2>2 DEF ReadsHold, ReferenceStillUnused
    <3>2. ~(row.key = req[u].key /\ row.ref = target[u].ref)
      BY <1>0, <1>7, LocksExclude DEF HoldsReference
    <3>. QED  BY <1>2, <2>1, <3>1, <3>2 DEF ReferenceUsed, BookingId
  <2>5. HoldsMonth(u) => TargetMonth(u) # MonthOf[row.slot]
    BY <1>0, <1>7, LocksExclude
  <2>6. \A s \in Slot : s # row.slot =>
          /\ Cardinality(Taken(s)') <= Cardinality(Taken(s))
          /\ Cardinality(Taken(s)) \in Nat /\ Cardinality(Taken(s)') \in Nat
    BY <1>3, CountIsMonotone DEF Taken
  <2>7. RoomStillThere(u)'
    <3>. SUFFICES ASSUME pc[u] = "write", IsWrite(u), NEW s, s = target[u].slot
                  PROVE  ~Full(s, BookingId(u))'
      BY <2>1 DEF RoomStillThere, IsWrite, BookingId, Full, Taken
    <3>1. s \in Slot /\ s # row.slot
      BY <1>0, <2>2, <2>5 DEF HoldsMonth, TargetMonth, IsWrite, TypeOK, Shape, Target
    <3>2. Taken(s)' \ {BookingId(u)} \subseteq Taken(s) \ {BookingId(u)}
      BY <1>3, <3>1
    <3>3. /\ Cardinality(Taken(s)' \ {BookingId(u)}) \in Nat
          /\ Cardinality(Taken(s) \ {BookingId(u)}) \in Nat
          /\ Cardinality(Taken(s)' \ {BookingId(u)}) <= Cardinality(Taken(s) \ {BookingId(u)})
      BY <3>2, CountIsMonotone DEF Taken
    <3>4. demo[s] \in Nat /\ Capacity[s] \in Nat
      BY <1>0, <3>1, CatalogAssumption DEF TypeOK
    <3>5. Cardinality(Taken(s) \ {BookingId(u)}) + demo[s] < Capacity[s]
      BY <2>2, <3>3, <3>4 DEF ReadsHold, RoomStillThere, Full
    <3>6. Cardinality(Taken(s)' \ {BookingId(u)}) + demo[s] < Capacity[s]
      BY <3>3, <3>4, <3>5
    <3>. QED  BY <2>1, <3>3, <3>4, <3>6 DEF Full, BookingId
  <2>8. CountStillCovers(u)'
    <3>. SUFFICES ASSUME pc[u] = "write", req[u].op = "regenerate",
                         NEW s \in Slot, MonthOf[s] = req[u].month
                  PROVE  Cardinality(Taken(s)') <= nonDemo[u][s]
      BY <2>1 DEF CountStillCovers
    <3>1. s # row.slot
      BY <2>5 DEF HoldsMonth, TargetMonth, IsWrite
    <3>2. Cardinality(Taken(s)) <= nonDemo[u][s] /\ nonDemo[u][s] \in Nat
      BY <1>0, <2>2 DEF ReadsHold, CountStillCovers, TypeOK
    <3>. QED  BY <2>6, <3>1, <3>2
  <2>9. BookedWhenDone(u)'
    BY <1>0, <1>1, <1>2, <1>7, <2>1, <2>2
    DEF ReadsHold, BookedWhenDone, BookingId, RowStillRead, HoldsRow, IsWrite
  <2>. QED  BY <2>3, <2>4, <2>7, <2>8, <2>9 DEF ReadsHold
<1>8. ReadsHold(t)'
  BY DEF ReadsHold, RowStillRead, ReferenceStillUnused, RoomStillThere, CountStillCovers,
         BookedWhenDone, HoldsRow
<1>. QED  BY <1>5, <1>6, <1>7, <1>8

LEMMA BookingRemoved ==
  ASSUME Inv, NEW t \in Tx, CommitDelete(t)
  PROVE  /\ \A u \in Tx : ReadsHold(u)'
         /\ CapacityRespected' /\ ReferenceUnique'
<1>. DEFINE b == req[t].id
<1>0. /\ TypeOK /\ TypeOK' /\ Step(t) /\ HoldsRow(t) /\ pc'[t] = "done" /\ demo' = demo
  BY StepTypes DEF Inv, Step, Statement, CommitDelete, HoldsRow, Finish, Goto, TypeOK
<1>1. \A c \in Tx : booking'[c] = IF c = b THEN None ELSE booking[c]
  BY <1>0 DEF CommitDelete, TypeOK
<1>2. \A s \in Slot : Taken(s)' \subseteq Taken(s)
  BY <1>1 DEF Taken
<1>3. \A s \in Slot :
        /\ Cardinality(Taken(s)') \in Nat /\ Cardinality(Taken(s)) \in Nat
        /\ Cardinality(Taken(s)') <= Cardinality(Taken(s))
  BY <1>2, CountIsMonotone DEF Taken
<1>4. \A s \in Slot : demo[s] \in Nat /\ Capacity[s] \in Nat
  BY <1>0, CatalogAssumption DEF TypeOK
<1>5. CapacityRespected'
  <2>. SUFFICES ASSUME NEW s \in Slot
                PROVE  Cardinality(Taken(s)') + demo[s] <= Capacity[s]
    BY <1>0 DEF CapacityRespected
  <2>1. Cardinality(Taken(s)) + demo[s] <= Capacity[s]
    BY DEF Inv, CapacityRespected
  <2>. QED  BY <1>3, <1>4, <2>1
<1>6. ReferenceUnique'
  BY <1>1 DEF Inv, ReferenceUnique
<1>7. ASSUME NEW u \in Tx, u # t
      PROVE  ReadsHold(u)'
  <2>1. /\ pc'[u] = pc[u] /\ req'[u] = req[u]
        /\ target'[u] = target[u] /\ nonDemo'[u] = nonDemo[u]
    BY <1>0, <1>7, OthersStay DEF Step
  <2>2. ReadsHold(u) /\ Shape(u)
    BY DEF Inv
  <2>3. RowStillRead(u)'
    <3>. SUFFICES ASSUME HoldsRow(u)
                  PROVE  RowStillRead(u)'
      BY <2>1 DEF RowStillRead, HoldsRow
    <3>1. req[u].id \in Tx
      <4>1. req[u] \in Request /\ req[u].op \in {"update", "delete"}
        BY <1>0, <2>2 DEF HoldsRow, TypeOK, Shape
      <4>. QED  BY <4>1, RequestKinds DEF UpdateRequest, DeleteRequest
    <3>2. req[u].id # b
      BY <1>0, <1>7, LocksExclude
    <3>. QED  BY <1>1, <2>1, <2>2, <3>1, <3>2 DEF ReadsHold, RowStillRead, HoldsRow
  <2>4. ReferenceStillUnused(u)'
    BY <1>1, <2>1, <2>2
    DEF ReadsHold, ReferenceStillUnused, ReferenceUsed, IsWrite, BookingId
  <2>5. RoomStillThere(u)'
    <3>. SUFFICES ASSUME pc[u] = "write", IsWrite(u), NEW s, s = target[u].slot
                  PROVE  ~Full(s, BookingId(u))'
      BY <2>1 DEF RoomStillThere, IsWrite, BookingId, Full, Taken
    <3>1. s \in Slot
      BY <1>0, <2>2 DEF TypeOK, Shape, Target
    <3>2. Taken(s)' \ {BookingId(u)} \subseteq Taken(s) \ {BookingId(u)}
      BY <1>2, <3>1
    <3>3. /\ Cardinality(Taken(s)' \ {BookingId(u)}) \in Nat
          /\ Cardinality(Taken(s) \ {BookingId(u)}) \in Nat
          /\ Cardinality(Taken(s)' \ {BookingId(u)}) <= Cardinality(Taken(s) \ {BookingId(u)})
      BY <3>2, CountIsMonotone DEF Taken
    <3>4. demo[s] \in Nat /\ Capacity[s] \in Nat
      BY <1>4, <3>1
    <3>5. Cardinality(Taken(s) \ {BookingId(u)}) + demo[s] < Capacity[s]
      BY <2>2, <3>3, <3>4 DEF ReadsHold, RoomStillThere, Full
    <3>6. Cardinality(Taken(s)' \ {BookingId(u)}) + demo[s] < Capacity[s]
      BY <3>3, <3>4, <3>5
    <3>. QED  BY <1>0, <2>1, <3>3, <3>4, <3>6 DEF Full, BookingId
  <2>6. CountStillCovers(u)'
    <3>. SUFFICES ASSUME pc[u] = "write", req[u].op = "regenerate",
                         NEW s \in Slot, MonthOf[s] = req[u].month
                  PROVE  Cardinality(Taken(s)') <= nonDemo[u][s]
      BY <2>1 DEF CountStillCovers
    <3>1. Cardinality(Taken(s)) <= nonDemo[u][s] /\ nonDemo[u][s] \in Nat
      BY <1>0, <2>2 DEF ReadsHold, CountStillCovers, TypeOK
    <3>. QED  BY <1>3, <3>1
  <2>7. BookedWhenDone(u)'
    BY <1>1, <2>1, <2>2 DEF ReadsHold, BookedWhenDone
  <2>. QED  BY <2>3, <2>4, <2>5, <2>6, <2>7 DEF ReadsHold
<1>8. ReadsHold(t)'
  BY <1>0 DEF ReadsHold, RowStillRead, ReferenceStillUnused, RoomStillThere,
              CountStillCovers, BookedWhenDone, HoldsRow
<1>. QED  BY <1>5, <1>6, <1>7, <1>8

\* What a regeneration leaves in a slot fits beside the bookings it counted.
LEMMA RefillFits ==
  ASSUME Inv, NEW t \in Tx, CommitRegenerate(t), NEW s \in Slot
  PROVE  /\ demo'[s] \in Nat /\ Cardinality(Taken(s)) \in Nat
         /\ MonthOf[s] # req[t].month => demo'[s] = demo[s]
         /\ demo'[s] = demo[s] \/ demo'[s] = 0
              \/ Cardinality(Taken(s)) + demo'[s] <= Capacity[s]
<1>1. /\ Capacity[s] \in Nat \ {0} /\ nonDemo[t][s] \in Nat /\ demo[s] \in Nat
      /\ Cardinality(Taken(s)) \in Nat
  BY CatalogAssumption, CountIsMonotone DEF Inv, TypeOK, Taken
<1>2. demo'[s] \in DemoAfter(t, s)
  BY DEF CommitRegenerate
<1>3. MonthOf[s] = req[t].month => Cardinality(Taken(s)) <= nonDemo[t][s]
  BY DEF Inv, ReadsHold, CountStillCovers, CommitRegenerate
<1>4. \A d \in DemoFill(Capacity[s], nonDemo[t][s]) :
        d \in Nat /\ (d = 0 \/ nonDemo[t][s] + d <= Capacity[s])
  BY <1>1, DemoFillBounds
<1>. QED  BY <1>1, <1>2, <1>3, <1>4 DEF DemoAfter

LEMMA DemoRefilled ==
  ASSUME Inv, NEW t \in Tx, CommitRegenerate(t)
  PROVE  /\ \A u \in Tx : ReadsHold(u)'
         /\ CapacityRespected' /\ ReferenceUnique'
<1>0. /\ TypeOK /\ TypeOK' /\ Step(t) /\ pc'[t] = "done" /\ booking' = booking
      /\ HoldsMonth(t) /\ TargetMonth(t) = req[t].month
  BY StepTypes DEF Inv, Step, Statement, CommitRegenerate, HoldsMonth, Finish, Goto, TypeOK,
                   TargetMonth, IsWrite
<1>1. \A s \in Slot : Taken(s)' = Taken(s)
  BY <1>0 DEF Taken
<1>2. CapacityRespected'
  <2>. SUFFICES ASSUME NEW s \in Slot
                PROVE  Cardinality(Taken(s)) + demo'[s] <= Capacity[s]
    BY <1>1 DEF CapacityRespected
  <2>1. Cardinality(Taken(s)) + demo[s] <= Capacity[s] /\ demo[s] \in Nat
        /\ Capacity[s] \in Nat
    BY <1>0, CatalogAssumption DEF Inv, CapacityRespected, TypeOK
  <2>. QED  BY <2>1, RefillFits
<1>3. ReferenceUnique'
  BY <1>0 DEF Inv, ReferenceUnique
<1>4. ASSUME NEW u \in Tx, u # t
      PROVE  ReadsHold(u)'
  <2>1. /\ pc'[u] = pc[u] /\ req'[u] = req[u]
        /\ target'[u] = target[u] /\ nonDemo'[u] = nonDemo[u]
    BY <1>0, <1>4, OthersStay DEF Step
  <2>2. ReadsHold(u) /\ Shape(u)
    BY DEF Inv
  <2>3. RoomStillThere(u)'
    <3>. SUFFICES ASSUME pc[u] = "write", IsWrite(u)
                  PROVE  ~Full(target[u].slot, BookingId(u))'
      BY <2>1 DEF RoomStillThere, IsWrite, BookingId, Full, Taken
    <3>1. target[u].slot \in Slot /\ MonthOf[target[u].slot] # req[t].month
      BY <1>0, <1>4, <2>2, LocksExclude DEF HoldsMonth, TargetMonth, IsWrite, TypeOK, Shape, Target
    <3>2. demo'[target[u].slot] = demo[target[u].slot]
      BY <3>1, RefillFits
    <3>3. ~Full(target[u].slot, BookingId(u))
      BY <2>2 DEF ReadsHold, RoomStillThere
    <3>. QED  BY <1>0, <1>1, <2>1, <3>1, <3>2, <3>3 DEF Full, BookingId
  <2>. QED
    BY <1>0, <1>1, <2>1, <2>2, <2>3
    DEF ReadsHold, RowStillRead, ReferenceStillUnused, CountStillCovers, BookedWhenDone,
        HoldsRow, BookingId, IsWrite, ReferenceUsed
<1>5. ReadsHold(t)'
  BY <1>0 DEF ReadsHold, RowStillRead, ReferenceStillUnused, RoomStillThere,
              CountStillCovers, BookedWhenDone, HoldsRow, CommitRegenerate
<1>. QED  BY <1>2, <1>3, <1>4, <1>5

-----------------------------------------------------------------------------
(* The induction.                                                          *)

LEMMA InitInv == Init => Inv
<1>. SUFFICES ASSUME Init
              PROVE  Inv
  OBVIOUS
<1>1. TypeOK
  BY InitTypes
<1>2. Exclusion
  BY DEF Init, Exclusion
<1>3. \A t \in Tx : Shape(t) /\ Locks(t) /\ ReadsHold(t)
  BY DEF Init, Shape, Locks, ReadsHold, HoldsReference, HoldsMonth, HoldsRow, RowStillRead,
         ReferenceStillUnused, RoomStillThere, CountStillCovers, BookedWhenDone
<1>4. CapacityRespected
  <2>. SUFFICES ASSUME NEW s \in Slot
                PROVE  Cardinality(Taken(s)) + demo[s] <= Capacity[s]
    BY DEF CapacityRespected
  <2>1. Taken(s) = {} /\ demo[s] = 0
    BY DEF Init, Taken
  <2>. QED  BY <2>1, FS_EmptySet, CatalogAssumption
<1>5. ReferenceUnique
  BY DEF Init, ReferenceUnique
<1>. QED  BY <1>1, <1>2, <1>3, <1>4, <1>5 DEF Inv

\* A step other than a commit leaves the bookings alone.
LEMMA CommitsAlone ==
  ASSUME Inv, NEW t \in Tx, Step(t)
  PROVE  \/ CommitCreate(t) \/ CommitUpdate(t) \/ CommitDelete(t) \/ CommitRegenerate(t)
         \/ UNCHANGED <<booking, demo>>
BY DEF Step, Begin, Statement, Abort, BeginCreate, BeginRowRequest, BeginRegenerate,
       PurgeExpired, LockIdempotencyKey, FindRecord, RowMissing, RowStale, LockRow,
       LockExternalReference, CheckExternalReference, LockMonth, LockSlot,
       CheckCapacity, CountNonDemo, Reject, tables

\* The row a create publishes.
LEMMA CreatedRow ==
  ASSUME Inv, NEW t \in Tx, CommitCreate(t)
  PROVE  \E row \in Row :
           /\ row.slot = target[t].slot /\ row.ref = target[t].ref
           /\ row.key = req[t].key /\ row.revision = 1
           /\ booking' = [booking EXCEPT ![BookingId(t)] = row]
<1>1. req[t] \in CreateRequest /\ target[t] \in Target
  BY RequestKinds DEF CommitCreate, Inv, TypeOK, Shape, IsWrite
<1>. DEFINE row == [slot |-> target[t].slot, ref |-> target[t].ref,
                    key |-> req[t].key, ani |-> req[t].ani, revision |-> 1]
<1>2. row \in Row
  BY <1>1 DEF CreateRequest, Target, Row
<1>3. booking' = [booking EXCEPT ![BookingId(t)] = row]
  BY DEF CommitCreate, BookingId
<1>. QED  BY <1>2, <1>3

\* The row an update publishes: the same booking, one version later.
LEMMA UpdatedRow ==
  ASSUME Inv, NEW t \in Tx, CommitUpdate(t)
  PROVE  /\ req[t].id \in Tx /\ booking[req[t].id] \in Row /\ target[t] \in Target
         /\ booking[req[t].id].key = req[t].key
         /\ \E row \in Row :
              /\ row.slot = target[t].slot /\ row.ref = target[t].ref
              /\ row.key = req[t].key
              /\ booking' = [booking EXCEPT ![BookingId(t)] = row]
<1>1. /\ req[t] \in UpdateRequest /\ target[t] \in Target
      /\ RowStillRead(t) /\ HoldsRow(t)
  BY RequestKinds DEF CommitUpdate, Inv, ReadsHold, HoldsRow, TypeOK, Shape, IsWrite
<1>2. /\ req[t].id \in Tx /\ booking[req[t].id] \in Row
      /\ booking[req[t].id].key = req[t].key
  BY <1>1 DEF RowStillRead, UpdateRequest, Inv, TypeOK
<1>. DEFINE old == booking[req[t].id]
            row == [slot |-> target[t].slot, ref |-> target[t].ref,
                    key |-> old.key, ani |-> old.ani, revision |-> old.revision + 1]
<1>3. row \in Row
  BY <1>1, <1>2 DEF Target, Row
<1>4. booking' = [booking EXCEPT ![BookingId(t)] = row]
  BY <1>2 DEF CommitUpdate, BookingId, Inv, TypeOK
<1>. QED  BY <1>1, <1>2, <1>3, <1>4

LEMMA StepInv ==
  ASSUME Inv, NEW t \in Tx, Step(t)
  PROVE  Inv'
<1>1. TypeOK' /\ Exclusion'
  BY StepTypes, ExclusionKept
<1>2. ASSUME NEW u \in Tx
      PROVE  Shape(u)' /\ Locks(u)'
  <2>1. CASE u = t
    BY <2>1, ShapeAndLocks
  <2>2. CASE u # t
    <3>1. /\ pc'[u] = pc[u] /\ req'[u] = req[u] /\ target'[u] = target[u]
          /\ held'[u] = held[u] /\ rowLock'[u] = rowLock[u]
      BY <2>2, OthersStay DEF Inv, Step
    <3>2. Shape(u) /\ Locks(u)
      BY DEF Inv
    <3>. QED  BY <3>1, <3>2
      DEF Shape, Locks, HoldsReference, HoldsMonth, HoldsRow, TargetMonth, IsWrite
  <2>. QED  BY <2>1, <2>2
<1>3. /\ \A u \in Tx : ReadsHold(u)'
      /\ CapacityRespected' /\ ReferenceUnique'
  <2>1. CASE CommitCreate(t)
    <3>1. pc[t] = "write" /\ IsWrite(t) /\ pc'[t] = "done" /\ demo' = demo
      BY <2>1 DEF CommitCreate, IsWrite, Finish, Goto, Inv, TypeOK
    <3>. QED  BY <2>1, <3>1, CreatedRow, BookingWritten
  <2>2. CASE CommitUpdate(t)
    <3>1. pc[t] = "write" /\ IsWrite(t) /\ pc'[t] = "done" /\ demo' = demo
      BY <2>2 DEF CommitUpdate, IsWrite, Finish, Goto, Inv, TypeOK
    <3>. QED  BY <2>2, <3>1, UpdatedRow, BookingWritten
  <2>3. CASE CommitDelete(t)
    BY <2>3, BookingRemoved
  <2>4. CASE CommitRegenerate(t)
    BY <2>4, DemoRefilled
  <2>5. CASE UNCHANGED <<booking, demo>>
    BY <2>5, QuietStep
  <2>. QED  BY <2>1, <2>2, <2>3, <2>4, <2>5, CommitsAlone
<1>. QED  BY <1>1, <1>2, <1>3 DEF Inv

LEMMA StutterInv ==
  ASSUME Inv, Tick \/ UNCHANGED vars
  PROVE  Inv'
<1>1. UNCHANGED <<booking, demo, record, pc, req, now, target, nonDemo, held, rowLock,
                  answer, aborts>> /\ clock' \in Nat
  BY DEF Inv, TypeOK, Tick, vars, tables, locals
<1>2. TypeOK'
  BY <1>1 DEF Inv, TypeOK
<1>3. Exclusion' /\ CapacityRespected' /\ ReferenceUnique'
  BY <1>1 DEF Inv, Exclusion, CapacityRespected, ReferenceUnique, Taken
<1>4. ASSUME NEW t \in Tx
      PROVE  Shape(t)' /\ Locks(t)' /\ ReadsHold(t)'
  <2>1. Shape(t) /\ Locks(t) /\ ReadsHold(t)
    BY DEF Inv
  <2>2. Shape(t)' /\ Locks(t)'
    BY <1>1, <2>1
    DEF Shape, Locks, HoldsReference, HoldsMonth, HoldsRow, TargetMonth, IsWrite
  <2>3. ReadsHold(t)'
    BY <1>1, <2>1
    DEF ReadsHold, HoldsRow, IsWrite, RowStillRead, ReferenceStillUnused, RoomStillThere,
        CountStillCovers, BookedWhenDone, ReferenceUsed, BookingId, Full, Taken
  <2>. QED  BY <2>2, <2>3
<1>. QED  BY <1>2, <1>3, <1>4 DEF Inv

THEOREM Invariance == Spec => []Inv
<1>1. Inv /\ [Next]_vars => Inv'
  BY StepInv, StutterInv DEF Next, Step, AllAnswered
<1>. QED  BY <1>1, InitInv, PTL DEF Spec

-----------------------------------------------------------------------------
(* What the answers tell: a second invariant, inductive relative to the    *)
(* first one.                                                              *)

Key(t) == <<req[t].key, req[t].idem>>

RecordOf(t) ==
  [digest |-> RequestDigest(req[t]), id |-> t, expires |-> now[t] + Retention]

\* An answer is final, and it answers the request that was made.
Settled(t) ==
  /\ now[t] <= clock
  /\ answer[t] # None =>
       /\ pc[t] = "done"
       /\ answer[t].code \in {"NEW", "REPLAY"} => req[t].op = "create"
       /\ answer[t].code = "REPLAY" => answer[t].id \in Tx
       /\ answer[t].code = "UPDATED" => req[t].op = "update"
       /\ answer[t].code = "DELETED" => req[t].op = "delete"

\* A create keeps the lock of its key from the lookup to its end, and what the
\* lookup found stays so.
HoldsKey(t) ==
  /\ pc[t] \in {"lookup", "ref", "refcheck", "month", "slot", "count", "write"}
  /\ req[t].op = "create"
Lookup(t) ==
  /\ HoldsKey(t) => hashtext[IdempotencyLock(req[t].key, req[t].idem)] \in held[t]
  /\ HoldsKey(t) /\ pc[t] # "lookup" => ~LiveRecord(t)

\* The record of a creation stays until it has expired, and a record is that of
\* the creation it names.
RecordKept(t) ==
  Answered(t, {"NEW"}) =>
    record[Key(t)] = RecordOf(t) \/ now[t] + Retention < clock
RecordTells(k) ==
  record[k] # None =>
    /\ Answered(record[k].id, {"NEW"})
    /\ Key(record[k].id) = k
    /\ record[k] = RecordOf(record[k].id)

\* A change that was acknowledged is in the booking: nothing is left of it, or
\* its version is past the one the client named.
ChangeKept(t) ==
  Answered(t, {"UPDATED", "DELETED"}) =>
    /\ pc[req[t].id] = "done"
    /\ booking[req[t].id] # None =>
         /\ answer[t].code = "UPDATED"
         /\ booking[req[t].id].revision > req[t].expected

HistoryInv ==
  /\ \A t \in Tx : Settled(t) /\ Lookup(t) /\ RecordKept(t) /\ ChangeKept(t)
  /\ \A k \in ApiKey \X IdemKey : RecordTells(k)
  /\ OneBookingPerKey
  /\ ReplayIsTheCreation
  /\ OneWinnerPerVersion

\* A change names a booking, and what it was told is typed.
LEMMA RowRequest ==
  ASSUME Inv, NEW t \in Tx, pc[t] # "idle", req[t].op \in {"update", "delete"}
  PROVE  req[t].id \in Tx /\ req[t].expected \in Nat
<1>1. req[t] \in Request
  BY DEF Inv, TypeOK, Shape
<1>. QED  BY <1>1, RequestKinds DEF UpdateRequest, DeleteRequest

\* A create has a key.
LEMMA KeyOfCreate ==
  ASSUME Inv, NEW t \in Tx, pc[t] # "idle", req[t].op = "create"
  PROVE  Key(t) \in ApiKey \X IdemKey /\ req[t] \in CreateRequest
<1>1. req[t] \in Request
  BY DEF Inv, TypeOK, Shape
<1>. QED  BY <1>1, RequestKinds DEF CreateRequest, Key

\* A step answers its own request, once, and the answer tells which statement
\* gave it.
LEMMA AnswerStep ==
  ASSUME Inv, NEW t \in Tx, Step(t)
  PROVE  /\ clock' = clock /\ pc[t] # "done"
         /\ \/ answer' = answer
            \/ /\ pc'[t] = "done" /\ answer'[t] # None /\ answer'[t].at = clock
               /\ \A u \in Tx \ {t} : answer'[u] = answer[u]
               /\ answer'[t].code = "NEW" => CommitCreate(t)
               /\ answer'[t].code = "UPDATED" => CommitUpdate(t)
               /\ answer'[t].code = "DELETED" => CommitDelete(t)
               /\ answer'[t].code = "REPLAY" =>
                    /\ pc[t] = "lookup" /\ LiveRecord(t)
                    /\ record[Key(t)].digest = RequestDigest(req[t])
                    /\ answer'[t].id = record[Key(t)].id /\ answer'[t].id \in Tx
<1>1. clock' = clock /\ pc[t] # "done"
  BY DEF Step, Begin, Statement, Abort, BeginCreate, BeginRowRequest, BeginRegenerate,
       PurgeExpired, LockIdempotencyKey, FindRecord, RowMissing, RowStale, LockRow,
       LockExternalReference, CheckExternalReference, LockMonth, LockSlot,
       CheckCapacity, CountNonDemo, CommitCreate, CommitUpdate, CommitDelete,
       CommitRegenerate, Reject
<1>2. ASSUME NEW code \in Code, NEW id \in Tx \cup {None}, Finish(t, code, id)
      PROVE  /\ pc'[t] = "done" /\ answer'[t] # None
             /\ answer'[t].code = code /\ answer'[t].id = id /\ answer'[t].at = clock
             /\ \A u \in Tx \ {t} : answer'[u] = answer[u]
  <2>1. [code |-> code, id |-> id, at |-> clock] \in Answer
    BY DEF Answer, Inv, TypeOK
  <2>. QED  BY <1>2, <2>1, NoneAssumption DEF Finish, Goto, Inv, TypeOK
<1>3. {"NEW", "REPLAY", "UPDATED", "DELETED", "INVALID", "NOT_FOUND", "PRECONDITION_FAILED",
       "SLOT_FULL", "EXTERNAL_REFERENCE_CONFLICT", "REGENERATED", "ABORTED",
       "IDEMPOTENCY_KEY_REUSED"} \subseteq Code
  BY DEF Code
<1>4. CASE answer' = answer
  BY <1>1, <1>4
<1>5. CASE CommitCreate(t)
  <2>1. Finish(t, "NEW", t)
    BY <1>5 DEF CommitCreate
  <2>. QED  BY <1>1, <1>2, <1>3, <1>5, <2>1
<1>6. CASE CommitUpdate(t) \/ CommitDelete(t)
  <2>1. \/ CommitUpdate(t) /\ Finish(t, "UPDATED", req[t].id)
        \/ CommitDelete(t) /\ Finish(t, "DELETED", req[t].id)
    BY <1>6 DEF CommitUpdate, CommitDelete
  <2>2. req[t].id \in Tx
    BY <1>6, RowRequest DEF CommitUpdate, CommitDelete
  <2>. QED  BY <1>1, <1>2, <1>3, <2>1, <2>2
<1>7. CASE FindRecord(t) /\ answer' # answer
  <2>1. \/ Finish(t, "IDEMPOTENCY_KEY_REUSED", None)
        \/ /\ Finish(t, "REPLAY", record[Key(t)].id)
           /\ pc[t] = "lookup" /\ LiveRecord(t)
           /\ record[Key(t)].digest = RequestDigest(req[t])
    BY <1>7 DEF FindRecord, Key
  <2>2. LiveRecord(t) /\ pc[t] = "lookup" => record[Key(t)].id \in Tx
    BY KeyOfCreate DEF LiveRecord, Key, Inv, TypeOK, Record, Shape
  <2>. QED  BY <1>1, <1>2, <1>3, <2>1, <2>2
<1>8. CASE \E code \in {"INVALID", "NOT_FOUND", "PRECONDITION_FAILED", "SLOT_FULL",
                        "EXTERNAL_REFERENCE_CONFLICT", "REGENERATED", "ABORTED"} :
             Finish(t, code, None)
  BY <1>1, <1>2, <1>3, <1>8
<1>. QED
  BY <1>4, <1>5, <1>6, <1>7, <1>8
  DEF Step, Begin, Statement, Abort, BeginCreate, BeginRowRequest, BeginRegenerate,
      PurgeExpired, LockIdempotencyKey, FindRecord, RowMissing, RowStale, LockRow,
      LockExternalReference, CheckExternalReference, LockMonth, LockSlot,
      CheckCapacity, CountNonDemo, CommitRegenerate, Reject

\* A request keeps what it asks and the instant it read from its arrival on.
LEMMA RequestKept ==
  ASSUME Inv, NEW t \in Tx, Step(t)
  PROVE  /\ pc[t] # "idle" => req' = req /\ now' = now
         /\ pc[t] = "idle" => /\ req'[t] \in Request /\ now'[t] = clock
                              /\ \A u \in Tx \ {t} : req'[u] = req[u] /\ now'[u] = now[u]
                              /\ UNCHANGED <<booking, record>>
                              /\ pc'[t] \in {"purge", "row", "month", "done"}
                              /\ pc'[t] = "month" => req'[t].op = "regenerate"
<1>1. CASE Begin(t)
  <2>1. pc[t] = "idle" /\ UNCHANGED <<booking, record>>
    BY <1>1 DEF Begin, BeginCreate, BeginRowRequest, BeginRegenerate, tables
  <2>2. PICK r \in Request :
          /\ req' = [req EXCEPT ![t] = r]
          /\ now' = [now EXCEPT ![t] = clock]
          /\ \/ pc' = [pc EXCEPT ![t] = "done"]
             \/ pc' = [pc EXCEPT ![t] = "purge"]
             \/ pc' = [pc EXCEPT ![t] = "row"]
             \/ pc' = [pc EXCEPT ![t] = "month"] /\ r.op = "regenerate"
    BY <1>1 DEF Begin, BeginCreate, BeginRowRequest, BeginRegenerate, Goto, Finish
  <2>. QED  BY <2>1, <2>2 DEF Inv, TypeOK
<1>2. CASE Statement(t) \/ Abort(t)
  BY <1>2
  DEF Statement, Abort, PurgeExpired, LockIdempotencyKey, FindRecord, RowMissing, RowStale,
      LockRow, LockExternalReference, CheckExternalReference, LockMonth, LockSlot,
      CheckCapacity, CountNonDemo, CommitCreate, CommitUpdate, CommitDelete,
      CommitRegenerate, Reject, locals
<1>. QED  BY <1>1, <1>2 DEF Step

LEMMA SettledKept ==
  ASSUME Inv, NEW t \in Tx, Step(t), NEW u \in Tx, Settled(u)
  PROVE  Settled(u)'
<1>. USE DEF Settled
<1>1. CASE u # t
  BY <1>1, OthersStay, AnswerStep DEF Inv, Step
<1>2. CASE u = t
  <2>1. now'[t] <= clock'
    BY <1>2, AnswerStep, RequestKept DEF Inv, TypeOK
  <2>2. CASE answer' = answer
    BY <1>2, <2>1, <2>2, AnswerStep
  <2>3. CASE answer' # answer
    <3>1. /\ CommitCreate(t) => req[t].op = "create"
          /\ CommitUpdate(t) => req[t].op = "update"
          /\ CommitDelete(t) => req[t].op = "delete"
          /\ CommitCreate(t) \/ CommitUpdate(t) \/ CommitDelete(t) => pc[t] # "idle"
      BY DEF CommitCreate, CommitUpdate, CommitDelete
    <3>2. pc[t] = "lookup" => req[t].op = "create"
      BY DEF Inv, Shape
    <3>. QED  BY <1>2, <2>1, <2>3, <3>1, <3>2, AnswerStep, RequestKept
  <2>. QED  BY <2>2, <2>3
<1>. QED  BY <1>1, <1>2

\* The records change when a create removes the expired ones, and when it
\* commits its own.
LEMMA RecordStep ==
  ASSUME Inv, NEW t \in Tx, Step(t)
  PROVE  \/ record' = record
         \/ /\ pc[t] = "purge" /\ pc'[t] # "done"
            /\ \A k \in ApiKey \X IdemKey :
                 \/ record'[k] = record[k]
                 \/ record[k] # None /\ record[k].expires < now[t] /\ record'[k] = None
         \/ CommitCreate(t)
<1>1. CASE PurgeExpired(t)
  BY <1>1 DEF PurgeExpired, Goto, Inv, TypeOK
<1>. QED
  BY <1>1
  DEF Step, Begin, Statement, Abort, BeginCreate, BeginRowRequest, BeginRegenerate,
      LockIdempotencyKey, FindRecord, RowMissing, RowStale, LockRow,
      LockExternalReference, CheckExternalReference, LockMonth, LockSlot,
      CheckCapacity, CountNonDemo, CommitUpdate, CommitDelete,
      CommitRegenerate, Reject, tables

\* What the commit of a create writes.
LEMMA CreatedRecord ==
  ASSUME Inv, NEW t \in Tx, CommitCreate(t)
  PROVE  /\ Key(t) \in ApiKey \X IdemKey
         /\ record' = [record EXCEPT ![Key(t)] = RecordOf(t)]
         /\ RecordOf(t) \in Record
         /\ req' = req /\ now' = now /\ clock' = clock /\ pc[t] = "write"
         /\ req[t].op = "create" /\ HoldsKey(t)
         /\ Answered(t, {"NEW"})'
<1>1. Key(t) \in ApiKey \X IdemKey /\ req[t] \in CreateRequest
  BY KeyOfCreate DEF CommitCreate
<1>2. RecordOf(t) \in Record
  BY <1>1, BoundAssumption
  DEF RecordOf, Record, RequestDigest, Digest, CreateRequest, Inv, TypeOK
<1>3. [code |-> "NEW", id |-> t, at |-> clock] \in Answer
  BY DEF Answer, Code, Inv, TypeOK
<1>. QED
  BY <1>1, <1>2, <1>3, NoneAssumption
  DEF CommitCreate, Key, RecordOf, HoldsKey, Answered, Finish, locals, Inv, TypeOK

\* Two creates of the same key do not run from the lookup on at the same time.
LEMMA KeysExclude ==
  ASSUME Inv, NEW t \in Tx, NEW u \in Tx, u # t, Lookup(t), Lookup(u),
         HoldsKey(t), HoldsKey(u)
  PROVE  Key(t) # Key(u)
<1>1. held[t] \cap held[u] = {}
  BY DEF Inv, Exclusion
<1>. QED  BY <1>1 DEF Lookup, Key

LEMMA LookupKept ==
  ASSUME Inv, NEW t \in Tx, Step(t), NEW u \in Tx, Lookup(t), Lookup(u)
  PROVE  Lookup(u)'
<1>0. TypeOK /\ TypeOK' /\ Shape(u) /\ Shape(t)
  BY StepTypes DEF Inv
<1>1. CASE u # t
  <2>1. /\ pc'[u] = pc[u] /\ req'[u] = req[u] /\ now'[u] = now[u] /\ held'[u] = held[u]
    BY <1>0, <1>1, OthersStay DEF Step
  <2>2. CASE HoldsKey(u)
    <3>1. Key(u) \in ApiKey \X IdemKey
      BY <2>2, KeyOfCreate DEF HoldsKey
    <3>2. record'[Key(u)] \in {record[Key(u)], None}
      <4>1. CASE CommitCreate(t)
        BY <1>1, <2>2, <3>1, <4>1, CreatedRecord, KeysExclude DEF Inv, TypeOK
      <4>. QED  BY <3>1, <4>1, RecordStep
    <3>. QED  BY <2>1, <2>2, <3>2 DEF Lookup, HoldsKey, LiveRecord, Key
  <2>3. CASE ~HoldsKey(u)
    BY <2>1, <2>3 DEF Lookup, HoldsKey
  <2>. QED  BY <2>2, <2>3
<1>2. CASE u = t
  <2>. USE DEF Lookup, HoldsKey
  <2>1. CASE pc[t] = "idle"
    BY <1>2, <2>1, RequestKept
  <2>2. CASE pc[t] # "idle" /\ req[t].op # "create"
    BY <1>2, <2>2, RequestKept
  <2>3. CASE pc[t] # "idle" /\ req[t].op = "create"
    <3>1. req' = req /\ now' = now
      BY <2>3, RequestKept
    <3>2. CASE pc'[t] = "done"
      BY <1>2, <3>2
    <3>3. CASE PurgeExpired(t)
      BY <1>0, <1>2, <3>3 DEF PurgeExpired, Goto, TypeOK
    <3>4. CASE LockIdempotencyKey(t)
      BY <1>0, <1>2, <3>1, <3>4 DEF LockIdempotencyKey, Acquire, Goto, TypeOK
    <3>5. CASE FindRecord(t) /\ pc'[t] # "done"
      BY <1>0, <1>2, <2>3, <3>1, <3>5
      DEF FindRecord, Finish, Goto, TypeOK, LiveRecord, tables
    <3>6. CASE LockExternalReference(t) \/ LockMonth(t) \/ LockSlot(t)
      BY <1>0, <1>2, <2>3, <3>1, <3>6
      DEF LockExternalReference, LockMonth, LockSlot, Acquire, Goto, TypeOK, LiveRecord, tables,
          IsWrite
    <3>7. CASE (CheckExternalReference(t) \/ CheckCapacity(t)) /\ pc'[t] # "done"
      BY <1>0, <1>2, <2>3, <3>1, <3>7
      DEF CheckExternalReference, CheckCapacity, Finish, Goto, TypeOK, LiveRecord, tables
    <3>. QED
      BY <1>0, <1>2, <2>3, <3>2, <3>3, <3>4, <3>5, <3>6, <3>7
      DEF Step, Begin, Statement, Abort, BeginCreate, BeginRowRequest, BeginRegenerate,
          RowMissing, RowStale, LockRow, CountNonDemo, CommitCreate, CommitUpdate,
          CommitDelete, CommitRegenerate, Reject, Finish, Goto, Shape, TypeOK
  <2>. QED  BY <2>1, <2>2, <2>3
<1>. QED  BY <1>1, <1>2

\* When a create commits, the record of every earlier creation of its key has
\* expired.
LEMMA EarlierExpired ==
  ASSUME Inv, HistoryInv, NEW t \in Tx, CommitCreate(t), NEW u \in Tx,
         Answered(u, {"NEW"}), Key(u) = Key(t)
  PROVE  now[u] + Retention < clock
<1>1. ~LiveRecord(t) /\ now[t] <= clock
  BY CreatedRecord DEF HistoryInv, Settled, Lookup
<1>2. record[Key(u)] = RecordOf(u) \/ now[u] + Retention < clock
  BY DEF HistoryInv, RecordKept
<1>3. CASE record[Key(u)] = RecordOf(u)
  <2>1. Key(t) \in ApiKey \X IdemKey
    BY CreatedRecord
  <2>2. RecordOf(u) # None
    <3>1. pc[u] # "idle" /\ req[u].op = "create"
      BY DEF HistoryInv, Settled, Answered
    <3>2. req[u] \in CreateRequest
      BY <3>1, KeyOfCreate
    <3>3. RecordOf(u) \in Record
      BY <3>2, BoundAssumption
      DEF RecordOf, Record, RequestDigest, Digest, CreateRequest, Inv, TypeOK
    <3>. QED  BY <3>3, NoneAssumption
  <2>3. RecordOf(u).expires < now[t]
    BY <1>1, <1>3, <2>2, BoundAssumption DEF LiveRecord, Key, RecordOf, Inv, TypeOK
  <2>. QED  BY <1>1, <2>3, BoundAssumption DEF RecordOf, Inv, TypeOK
<1>. QED  BY <1>2, <1>3

\* What was answered to a request stays.
LEMMA AnswersStay ==
  ASSUME Inv, HistoryInv, NEW t \in Tx, Step(t), NEW u \in Tx, answer[u] # None
  PROVE  /\ u # t /\ answer'[u] = answer[u] /\ req'[u] = req[u] /\ now'[u] = now[u]
         /\ pc[u] = "done" /\ pc'[u] = "done"
<1>1. pc[u] = "done" /\ u # t
  BY AnswerStep DEF HistoryInv, Settled
<1>. QED  BY <1>1, OthersStay DEF Inv, Step

\* A new answer is that of the request that steps.
LEMMA NewAnswer ==
  ASSUME Inv, NEW t \in Tx, Step(t), NEW u \in Tx, NEW codes,
         Answered(u, codes)', ~Answered(u, codes)
  PROVE  u = t /\ answer' # answer
BY AnswerStep DEF Answered

LEMMA RecordsKept ==
  ASSUME Inv, HistoryInv, NEW t \in Tx, Step(t)
  PROVE  /\ \A u \in Tx : RecordKept(u)'
         /\ \A k \in ApiKey \X IdemKey : RecordTells(k)'
<1>0. TypeOK /\ TypeOK' /\ clock' = clock
  BY StepTypes, AnswerStep DEF Inv
<1>1. ASSUME NEW u \in Tx
      PROVE  RecordKept(u)'
  <2>. SUFFICES ASSUME Answered(u, {"NEW"})'
                PROVE  record'[Key(u)'] = RecordOf(u)' \/ now'[u] + Retention < clock
    BY <1>0 DEF RecordKept
  <2>1. CASE Answered(u, {"NEW"})
    <3>1. /\ Key(u)' = Key(u) /\ RecordOf(u)' = RecordOf(u) /\ now'[u] = now[u]
      BY <2>1, AnswersStay DEF Key, RecordOf, Answered
    <3>2. Key(u) \in ApiKey \X IdemKey
      BY <2>1, KeyOfCreate DEF HistoryInv, Settled, Answered
    <3>3. record[Key(u)] = RecordOf(u) \/ now[u] + Retention < clock
      BY <2>1 DEF HistoryInv, RecordKept
    <3>4. CASE CommitCreate(t)
      <4>1. CASE Key(u) = Key(t)
        BY <2>1, <3>1, <3>4, <4>1, EarlierExpired
      <4>2. CASE Key(u) # Key(t)
        BY <3>1, <3>2, <3>3, <3>4, <4>2, CreatedRecord, <1>0 DEF TypeOK
      <4>. QED  BY <4>1, <4>2
    <3>5. CASE record'[Key(u)] = record[Key(u)]
      BY <3>1, <3>3, <3>5
    <3>6. CASE record[Key(u)].expires < now[t]
      <4>1. now[t] <= clock
        BY DEF HistoryInv, Settled
      <4>. QED  BY <1>0, <3>1, <3>3, <3>6, <4>1, BoundAssumption DEF RecordOf, TypeOK
    <3>. QED  BY <3>2, <3>4, <3>5, <3>6, RecordStep
  <2>2. CASE ~Answered(u, {"NEW"})
    <3>1. u = t /\ CommitCreate(t)
      BY <2>2, NewAnswer, AnswerStep DEF Answered
    <3>2. record'[Key(t)] = RecordOf(t)
      BY <1>0, <3>1, CreatedRecord DEF TypeOK
    <3>3. Key(t)' = Key(t) /\ RecordOf(t)' = RecordOf(t)
      BY <3>1, CreatedRecord DEF Key, RecordOf
    <3>. QED  BY <3>1, <3>2, <3>3
  <2>. QED  BY <2>1, <2>2
<1>2. ASSUME NEW k \in ApiKey \X IdemKey
      PROVE  RecordTells(k)'
  <2>. SUFFICES ASSUME record'[k] # None
                PROVE  RecordTells(k)'
    BY DEF RecordTells
  <2>1. CASE record'[k] = record[k]
    <3>1. PICK c \in Tx : c = record[k].id
      BY <1>0, <2>1 DEF TypeOK, Record
    <3>2. /\ Answered(c, {"NEW"}) /\ Key(c) = k /\ record[k] = RecordOf(c)
      BY <2>1, <3>1 DEF HistoryInv, RecordTells
    <3>3. /\ Answered(c, {"NEW"})' /\ Key(c)' = Key(c) /\ RecordOf(c)' = RecordOf(c)
      BY <3>2, AnswersStay DEF Answered, Key, RecordOf
    <3>. QED  BY <2>1, <3>1, <3>2, <3>3 DEF RecordTells
  <2>2. CASE CommitCreate(t) /\ record'[k] # record[k]
    <3>1. k = Key(t) /\ record'[k] = RecordOf(t)
      BY <1>0, <2>2, CreatedRecord DEF TypeOK
    <3>2. /\ RecordOf(t).id = t /\ Answered(t, {"NEW"})' /\ Key(t)' = Key(t)
          /\ RecordOf(t)' = RecordOf(t)
      BY <2>2, CreatedRecord DEF RecordOf, Key
    <3>. QED  BY <3>1, <3>2 DEF RecordTells
  <2>. QED  BY <2>1, <2>2, RecordStep
<1>. QED  BY <1>1, <1>2

\* A second creation with the same key waits for the first record to expire.
LEMMA OneBookingPerKeyKept ==
  ASSUME Inv, HistoryInv, NEW t \in Tx, Step(t)
  PROVE  OneBookingPerKey'
<1>1. ASSUME NEW u \in Tx, NEW w \in Tx, u # w,
             Answered(u, {"NEW"})', Answered(w, {"NEW"})', Key(u)' = Key(w)',
             Answered(u, {"NEW"})
      PROVE  \/ answer'[w].at > now'[u] + Retention
             \/ answer'[u].at > now'[w] + Retention
  <2>1. /\ answer'[u] = answer[u] /\ req'[u] = req[u] /\ now'[u] = now[u]
    BY <1>1, AnswersStay DEF Answered
  <2>2. CASE Answered(w, {"NEW"})
    <3>1. /\ answer'[w] = answer[w] /\ req'[w] = req[w] /\ now'[w] = now[w]
      BY <2>2, AnswersStay DEF Answered
    <3>2. req[u].key = req[w].key /\ req[u].idem = req[w].idem
      BY <1>1, <2>1, <3>1 DEF Key
    <3>. QED  BY <1>1, <2>1, <2>2, <3>1, <3>2 DEF HistoryInv, OneBookingPerKey
  <2>3. CASE ~Answered(w, {"NEW"})
    <3>1. w = t /\ CommitCreate(t) /\ answer'[w].at = clock
      BY <1>1, <2>3, NewAnswer, AnswerStep DEF Answered
    <3>2. Key(u) = Key(t)
      BY <1>1, <2>1, <3>1, CreatedRecord DEF Key
    <3>3. now[u] + Retention < clock
      BY <1>1, <3>1, <3>2, EarlierExpired
    <3>. QED  BY <2>1, <3>1, <3>3, BoundAssumption DEF Inv, TypeOK
  <2>. QED  BY <2>2, <2>3
<1>. SUFFICES ASSUME NEW u \in Tx, NEW w \in Tx, u # w,
                     Answered(u, {"NEW"})', Answered(w, {"NEW"})',
                     req'[u].key = req'[w].key, req'[u].idem = req'[w].idem
              PROVE  \/ answer'[w].at > now'[u] + Retention
                     \/ answer'[u].at > now'[w] + Retention
  BY DEF OneBookingPerKey
<1>2. Key(u)' = Key(w)'
  BY DEF Key
<1>3. Answered(u, {"NEW"}) \/ Answered(w, {"NEW"})
  BY NewAnswer
<1>. QED  BY <1>1, <1>2, <1>3

LEMMA ReplayKept ==
  ASSUME Inv, HistoryInv, NEW t \in Tx, Step(t)
  PROVE  ReplayIsTheCreation'
<1>1. ASSUME NEW u \in Tx, Answered(u, {"REPLAY"})'
      PROVE  \E c \in Tx :
               /\ c = answer'[u].id
               /\ Answered(c, {"NEW"}) /\ req'[u] = req[u]
               /\ req[c].key = req[u].key /\ req[c].idem = req[u].idem
               /\ RequestDigest(req[c]) = RequestDigest(req[u])
  <2>1. CASE Answered(u, {"REPLAY"})
    <3>1. answer'[u] = answer[u] /\ req'[u] = req[u]
      BY <2>1, AnswersStay DEF Answered
    <3>2. answer[u].id \in Tx
      BY <2>1 DEF HistoryInv, Settled, Answered
    <3>. QED  BY <2>1, <3>1, <3>2 DEF HistoryInv, ReplayIsTheCreation
  <2>2. CASE ~Answered(u, {"REPLAY"})
    <3>1. /\ u = t /\ pc[t] = "lookup" /\ LiveRecord(t)
          /\ record[Key(t)].digest = RequestDigest(req[t])
          /\ answer'[u].id = record[Key(t)].id
      BY <1>1, <2>2, NewAnswer, AnswerStep DEF Answered
    <3>2. Key(t) \in ApiKey \X IdemKey /\ record[Key(t)] # None
      BY <3>1, KeyOfCreate DEF LiveRecord, Key, Inv, Shape
    <3>3. PICK c \in Tx : c = record[Key(t)].id
      BY <3>2 DEF Inv, TypeOK, Record
    <3>4. Answered(c, {"NEW"}) /\ Key(c) = Key(t) /\ record[Key(t)] = RecordOf(c)
      BY <3>2, <3>3 DEF HistoryInv, RecordTells
    <3>5. /\ req[c].key = req[t].key /\ req[c].idem = req[t].idem
          /\ RequestDigest(req[c]) = RequestDigest(req[t])
      BY <3>1, <3>4 DEF Key, RecordOf
    <3>. QED  BY <3>1, <3>3, <3>4, <3>5, RequestKept
  <2>. QED  BY <2>1, <2>2
<1>2. ASSUME NEW c \in Tx, Answered(c, {"NEW"})
      PROVE  Answered(c, {"NEW"})' /\ req'[c] = req[c]
  BY <1>2, AnswersStay DEF Answered
<1>3. ASSUME NEW u \in Tx, Answered(u, {"REPLAY"})'
      PROVE  \E c \in Tx :
               /\ c = answer'[u].id /\ Answered(c, {"NEW"})'
               /\ req'[c].key = req'[u].key /\ req'[c].idem = req'[u].idem
               /\ RequestDigest(req'[c]) = RequestDigest(req'[u])
  BY <1>1, <1>2, <1>3
<1>. SUFFICES ASSUME NEW u \in Tx, Answered(u, {"REPLAY"})'
              PROVE  (/\ Answered(answer[u].id, {"NEW"})
                      /\ req[answer[u].id].key = req[u].key
                      /\ req[answer[u].id].idem = req[u].idem
                      /\ RequestDigest(req[answer[u].id]) = RequestDigest(req[u]))'
  BY DEF ReplayIsTheCreation
<1>. QED  BY <1>3, ZenonT(40) DEF Answered, RequestDigest

\* A change finds the version its client named, and leaves the next one or no
\* booking at all.
LEMMA ChangedRow ==
  ASSUME Inv, NEW t \in Tx, Step(t), CommitUpdate(t) \/ CommitDelete(t)
  PROVE  /\ req[t].id \in Tx /\ pc[req[t].id] = "done" /\ pc'[req[t].id] = "done"
         /\ req[t].expected \in Nat /\ req' = req
         /\ booking[req[t].id] # None
         /\ booking[req[t].id].revision = req[t].expected
         /\ \A b \in Tx \ {req[t].id} : booking'[b] = booking[b]
         /\ CommitUpdate(t) =>
              /\ booking'[req[t].id] # None
              /\ booking'[req[t].id].revision = req[t].expected + 1
              /\ Answered(t, {"UPDATED"})' /\ answer'[t].code = "UPDATED"
         /\ CommitDelete(t) =>
              /\ booking'[req[t].id] = None
              /\ ~Answered(t, {"UPDATED"})'
<1>. DEFINE b == req[t].id
<1>1. /\ b \in Tx /\ req[t].expected \in Nat /\ HoldsRow(t) /\ pc[t] = "write" /\ req' = req
  BY RowRequest, RequestKept DEF CommitUpdate, CommitDelete, HoldsRow
<1>2. /\ booking[b] # None /\ booking[b].revision = req[t].expected /\ pc[b] = "done"
      /\ b # t
  BY <1>1 DEF Inv, ReadsHold, RowStillRead, BookedWhenDone
<1>3. pc'[b] = "done"
  BY <1>1, <1>2, OthersStay DEF Inv, Step
<1>4. CASE CommitUpdate(t)
  <2>1. [code |-> "UPDATED", id |-> b, at |-> clock] \in Answer
    BY <1>1 DEF Answer, Code, Inv, TypeOK
  <2>2. /\ answer'[t] = [code |-> "UPDATED", id |-> b, at |-> clock]
        /\ answer'[t].code = "UPDATED" /\ answer'[t] # None
    BY <1>4, <2>1, NoneAssumption DEF CommitUpdate, Finish, Inv, TypeOK
  <2>3. booking' = [booking EXCEPT ![b] =
           [slot |-> target[t].slot, ref |-> target[t].ref, key |-> @.key, ani |-> @.ani,
            revision |-> @.revision + 1]]
    BY <1>4 DEF CommitUpdate
  <2>4. /\ booking'[b].revision = req[t].expected + 1
        /\ \A c \in Tx \ {b} : booking'[c] = booking[c]
    BY <1>1, <1>2, <2>3 DEF Inv, TypeOK
  <2>5. booking'[b] # None
    <3>1. target[t] \in Target /\ booking[b] \in Row
      BY <1>4, UpdatedRow
    <3>2. [slot |-> target[t].slot, ref |-> target[t].ref, key |-> booking[b].key,
           ani |-> booking[b].ani, revision |-> booking[b].revision + 1] \in Row
      BY <3>1 DEF Target, Row
    <3>. QED  BY <1>1, <2>3, <3>2, NoneAssumption DEF Inv, TypeOK
  <2>6. ~CommitDelete(t)
    BY <1>4 DEF CommitUpdate, CommitDelete
  <2>. QED  BY <1>1, <1>2, <1>3, <1>4, <2>2, <2>4, <2>5, <2>6 DEF Answered
<1>5. CASE CommitDelete(t)
  <2>1. /\ answer'[t].code = "DELETED" /\ ~CommitUpdate(t)
    BY <1>5 DEF CommitUpdate, CommitDelete, Finish, Inv, TypeOK
  <2>2. /\ booking'[b] = None
        /\ \A c \in Tx \ {b} : booking'[c] = booking[c]
    BY <1>1, <1>5 DEF CommitDelete, Inv, TypeOK
  <2>. QED  BY <1>1, <1>2, <1>3, <1>5, <2>1, <2>2 DEF Answered
<1>. QED  BY <1>4, <1>5

\* A request that steps had no answer.
LEMMA Unanswered ==
  ASSUME Inv, HistoryInv, NEW t \in Tx, Step(t)
  PROVE  answer[t] = None
BY AnswerStep DEF HistoryInv, Settled

LEMMA ChangesKept ==
  ASSUME Inv, HistoryInv, NEW t \in Tx, Step(t), NEW u \in Tx
  PROVE  ChangeKept(u)'
<1>0. TypeOK /\ TypeOK'
  BY StepTypes DEF Inv
<1>. SUFFICES ASSUME Answered(u, {"UPDATED", "DELETED"})'
              PROVE  /\ pc'[req'[u].id] = "done"
                     /\ booking'[req'[u].id] # None =>
                          /\ answer'[u].code = "UPDATED"
                          /\ booking'[req'[u].id].revision > req'[u].expected
  BY DEF ChangeKept
<1>1. CASE Answered(u, {"UPDATED", "DELETED"})
  <2>. DEFINE b == req[u].id
  <2>1. /\ answer'[u] = answer[u] /\ req'[u] = req[u]
        /\ b \in Tx /\ req[u].expected \in Nat
    <3>1. pc[u] = "done" /\ req[u].op \in {"update", "delete"}
      BY <1>1 DEF HistoryInv, Settled, Answered
    <3>. QED  BY <1>1, <3>1, AnswersStay, RowRequest DEF Answered
  <2>2. /\ pc[b] = "done"
        /\ booking[b] # None =>
             answer[u].code = "UPDATED" /\ booking[b].revision > req[u].expected
    BY <1>1 DEF HistoryInv, ChangeKept
  <2>3. b # t /\ pc'[b] = "done"
    BY <2>1, <2>2, AnswerStep, OthersStay DEF Inv, Step
  <2>4. CASE booking'[b] = booking[b]
    BY <2>1, <2>2, <2>3, <2>4
  <2>5. CASE CommitCreate(t)
    <3>1. booking'[b] = booking[b]
      BY <2>1, <2>3, <2>5 DEF CommitCreate, Inv, TypeOK
    <3>. QED  BY <2>4, <3>1
  <2>6. CASE (CommitUpdate(t) \/ CommitDelete(t)) /\ req[t].id = b
    BY <2>1, <2>2, <2>3, <2>6, ChangedRow
  <2>7. CASE (CommitUpdate(t) \/ CommitDelete(t)) /\ req[t].id # b
    BY <2>1, <2>4, <2>7, ChangedRow
  <2>8. CASE CommitRegenerate(t) \/ UNCHANGED booking
    BY <2>4, <2>8 DEF CommitRegenerate
  <2>. QED  BY <2>5, <2>6, <2>7, <2>8, CommitsAlone
<1>2. CASE ~Answered(u, {"UPDATED", "DELETED"})
  <2>1. u = t /\ (CommitUpdate(t) \/ CommitDelete(t))
    BY <1>2, NewAnswer, AnswerStep DEF Answered
  <2>. QED  BY <2>1, ChangedRow
<1>. QED  BY <1>1, <1>2

\* Two acknowledged changes of a booking named different versions.
LEMMA WinnersDiffer ==
  ASSUME Inv, HistoryInv, NEW t \in Tx, Step(t), NEW u \in Tx, NEW w \in Tx, u # w,
         Answered(u, {"UPDATED", "DELETED"})', Answered(w, {"UPDATED", "DELETED"})',
         req'[u].id = req'[w].id
  PROVE  req'[u].expected # req'[w].expected
<1>1. ASSUME NEW x \in Tx, Answered(x, {"UPDATED", "DELETED"})
      PROVE  /\ req'[x] = req[x] /\ req[x].expected \in Nat /\ x # t
             /\ booking[req[x].id] # None =>
                  booking[req[x].id].revision > req[x].expected
  <2>1. pc[x] = "done" /\ req[x].op \in {"update", "delete"}
    BY <1>1 DEF HistoryInv, Settled, Answered
  <2>2. ChangeKept(x)
    BY DEF HistoryInv
  <2>. QED  BY <1>1, <2>1, <2>2, AnswersStay, RowRequest DEF ChangeKept, Answered
<1>2. ASSUME NEW x \in Tx, Answered(x, {"UPDATED", "DELETED"})',
             ~Answered(x, {"UPDATED", "DELETED"})
      PROVE  /\ x = t /\ req'[x] = req[x] /\ req[x].expected \in Nat
             /\ booking[req[x].id] # None
             /\ booking[req[x].id].revision = req[x].expected
  <2>1. x = t /\ (CommitUpdate(t) \/ CommitDelete(t))
    BY <1>2, NewAnswer, AnswerStep DEF Answered
  <2>. QED  BY <2>1, ChangedRow
<1>3. CASE Answered(u, {"UPDATED", "DELETED"}) /\ Answered(w, {"UPDATED", "DELETED"})
  BY <1>1, <1>3 DEF HistoryInv, OneWinnerPerVersion
<1>4. CASE Answered(u, {"UPDATED", "DELETED"}) /\ ~Answered(w, {"UPDATED", "DELETED"})
  BY <1>1, <1>2, <1>4
<1>5. CASE ~Answered(u, {"UPDATED", "DELETED"}) /\ Answered(w, {"UPDATED", "DELETED"})
  BY <1>1, <1>2, <1>5
<1>6. CASE ~Answered(u, {"UPDATED", "DELETED"}) /\ ~Answered(w, {"UPDATED", "DELETED"})
  BY <1>2, <1>6
<1>. QED  BY <1>3, <1>4, <1>5, <1>6

\* The acknowledged updates of a booking.
Updates(b) == {t \in Tx : Answered(t, {"UPDATED"}) /\ req[t].id = b}

LEMMA UpdatesStep ==
  ASSUME Inv, HistoryInv, NEW t \in Tx, Step(t), NEW b \in Tx
  PROVE  /\ CommitUpdate(t) /\ req[t].id = b =>
              Updates(b)' = Updates(b) \cup {t} /\ t \notin Updates(b)
         /\ ~(CommitUpdate(t) /\ req[t].id = b) => Updates(b)' = Updates(b)
<1>1. ASSUME NEW u \in Tx
      PROVE  u \in Updates(b)' <=>
               u \in Updates(b) \/ (u = t /\ CommitUpdate(t) /\ req[t].id = b)
  <2>1. CASE u \in Updates(b)
    <3>1. answer[u] # None /\ answer[u].code = "UPDATED" /\ req[u].id = b
      BY <2>1 DEF Updates, Answered
    <3>. QED  BY <2>1, <3>1, AnswersStay DEF Updates, Answered
  <2>2. CASE u \notin Updates(b) /\ answer[u] # None
    <3>1. u # t /\ answer'[u] = answer[u] /\ req'[u] = req[u]
      BY <2>2, AnswersStay
    <3>. QED  BY <2>2, <3>1 DEF Updates, Answered
  <2>3. CASE answer[u] = None
    <3>1. u \notin Updates(b)
      BY <2>3 DEF Updates, Answered
    <3>2. CASE u \in Updates(b)'
      <4>1. Answered(u, {"UPDATED"})' /\ req'[u].id = b
        BY <3>2 DEF Updates
      <4>2. u = t /\ CommitUpdate(t)
        BY <2>3, <4>1, AnswerStep DEF Answered
      <4>. QED  BY <4>1, <4>2, <3>2, ChangedRow
    <3>3. CASE u = t /\ CommitUpdate(t) /\ req[t].id = b
      BY <3>3, ChangedRow DEF Updates
    <3>. QED  BY <3>1, <3>2, <3>3
  <2>. QED  BY <2>1, <2>2, <2>3
<1>2. Updates(b) \subseteq Tx /\ Updates(b)' \subseteq Tx
  BY DEF Updates
<1>3. t \notin Updates(b)
  BY Unanswered DEF Updates, Answered
<1>. QED  BY <1>1, <1>2, <1>3

\* The version of a booking counts its acknowledged updates.
LEMMA VersionsCount ==
  ASSUME Inv, HistoryInv, NEW t \in Tx, Step(t), NEW b \in Tx, booking'[b] # None
  PROVE  booking'[b].revision = 1 + Cardinality(Updates(b)')
<1>1. IsFiniteSet(Updates(b))
  BY TxAssumption, FS_Subset DEF Updates
<1>2. booking[b] # None => booking[b].revision = 1 + Cardinality(Updates(b))
  BY DEF HistoryInv, OneWinnerPerVersion, Updates
<1>3. CASE booking'[b] = booking[b] /\ ~(CommitUpdate(t) /\ req[t].id = b)
  BY <1>2, <1>3, UpdatesStep
<1>4. CASE CommitUpdate(t) /\ req[t].id = b
  <2>1. Cardinality(Updates(b)') = Cardinality(Updates(b)) + 1
    BY <1>1, <1>4, UpdatesStep, FS_AddElement
  <2>2. Cardinality(Updates(b)) \in Nat
    BY <1>1, FS_CardinalityType
  <2>. QED  BY <1>2, <1>4, <2>1, <2>2, ChangedRow
<1>5. CASE CommitCreate(t) /\ b = t
  <2>1. Updates(t) = {}
    <3>1. ASSUME NEW u \in Updates(t)
          PROVE  FALSE
      <4>1. u \in Tx /\ Answered(u, {"UPDATED"}) /\ req[u].id = t
        BY DEF Updates
      <4>2. pc[t] = "done"
        BY <4>1 DEF HistoryInv, ChangeKept, Answered
      <4>. QED  BY <4>2, AnswerStep
    <3>. QED  BY <3>1
  <2>2. Updates(t)' = {}
    <3>1. ~CommitUpdate(t)
      BY <1>5 DEF CommitCreate, CommitUpdate
    <3>. QED  BY <2>1, <3>1, UpdatesStep
  <2>3. booking'[t].revision = 1
    BY <1>5 DEF CommitCreate, Inv, TypeOK
  <2>. QED  BY <1>5, <2>2, <2>3, FS_EmptySet
<1>6. CASE CommitCreate(t) /\ b # t
  BY <1>3, <1>6 DEF CommitCreate, CommitUpdate, Inv, TypeOK
<1>7. CASE CommitUpdate(t) /\ req[t].id # b
  BY <1>3, <1>7, ChangedRow
<1>8. CASE CommitDelete(t)
  BY <1>3, <1>8, ChangedRow DEF CommitDelete, CommitUpdate
<1>9. CASE CommitRegenerate(t)
  BY <1>3, <1>9 DEF CommitRegenerate, CommitUpdate
<1>10. CASE UNCHANGED <<booking, demo>> /\ ~CommitUpdate(t)
  BY <1>3, <1>10
<1>. QED  BY <1>4, <1>5, <1>6, <1>7, <1>8, <1>9, <1>10, CommitsAlone

LEMMA HistoryStep ==
  ASSUME Inv, HistoryInv, NEW t \in Tx, Step(t)
  PROVE  HistoryInv'
<1>1. \A u \in Tx : Settled(u)' /\ Lookup(u)'
  BY SettledKept, LookupKept DEF HistoryInv
<1>2. OneWinnerPerVersion'
  BY WinnersDiffer, VersionsCount DEF OneWinnerPerVersion, Updates
<1>. QED
  BY <1>1, <1>2, RecordsKept, ChangesKept, OneBookingPerKeyKept, ReplayKept DEF HistoryInv

LEMMA HistoryStutter ==
  ASSUME Inv, HistoryInv, Tick \/ UNCHANGED vars
  PROVE  HistoryInv'
<1>1. /\ UNCHANGED <<booking, record, pc, req, now, held, answer>>
      /\ clock' \in Nat /\ clock \in Nat /\ clock <= clock'
  BY DEF Inv, TypeOK, Tick, vars, tables, locals
<1>2. ASSUME NEW t \in Tx
      PROVE  Settled(t)' /\ Lookup(t)' /\ RecordKept(t)' /\ ChangeKept(t)'
  <2>1. /\ Settled(t) /\ Lookup(t) /\ RecordKept(t) /\ ChangeKept(t)
        /\ now[t] \in Nat
    BY DEF HistoryInv, Inv, TypeOK
  <2>2. Settled(t)' /\ Lookup(t)' /\ ChangeKept(t)'
    BY <1>1, <2>1 DEF Settled, Lookup, HoldsKey, LiveRecord, ChangeKept, Answered
  <2>3. RecordKept(t)'
    BY <1>1, <2>1, BoundAssumption DEF RecordKept, RecordOf, Key, Answered
  <2>. QED  BY <2>2, <2>3
<1>3. \A k \in ApiKey \X IdemKey : RecordTells(k)'
  BY <1>1 DEF HistoryInv, RecordTells, RecordOf, Key, Answered
<1>4. OneBookingPerKey' /\ ReplayIsTheCreation' /\ OneWinnerPerVersion'
  BY <1>1 DEF HistoryInv, OneBookingPerKey, ReplayIsTheCreation, OneWinnerPerVersion, Answered
<1>. QED  BY <1>2, <1>3, <1>4 DEF HistoryInv

LEMMA InitHistory == Init => HistoryInv
<1>. SUFFICES ASSUME Init
              PROVE  HistoryInv
  OBVIOUS
<1>1. \A t \in Tx : Settled(t) /\ Lookup(t) /\ RecordKept(t) /\ ChangeKept(t)
  BY DEF Init, Settled, Lookup, HoldsKey, RecordKept, ChangeKept, Answered
<1>2. \A k \in ApiKey \X IdemKey : RecordTells(k)
  BY DEF Init, RecordTells
<1>. QED
  BY <1>1, <1>2
  DEF Init, HistoryInv, OneBookingPerKey, ReplayIsTheCreation, OneWinnerPerVersion, Answered

\* What was answered agrees with the tables, always.
THEOREM History == Spec => []HistoryInv
<1>1. Inv /\ HistoryInv /\ [Next]_vars => HistoryInv'
  BY HistoryStep, HistoryStutter DEF Next, Step, AllAnswered
<1>. QED  BY <1>1, InitHistory, Invariance, PTL DEF Spec

-----------------------------------------------------------------------------
(* What the system promises.                                               *)

\* The variables always have their types.
THEOREM TypeCorrectness == Spec => []TypeOK
BY Invariance, PTL DEF Inv

\* No interleaving of creates, moves and refills overbooks a slot.
THEOREM NeverOverbooked == Spec => []CapacityRespected
BY Invariance, PTL DEF Inv

\* No interleaving gives one external reference to two bookings.
THEOREM ReferencesStayUnique == Spec => []ReferenceUnique
BY Invariance, PTL DEF Inv

\* Whatever clocks the waiting retries read, a key creates a second booking only
\* once the record of the first one has expired.
THEOREM KeysBookOnce == Spec => []OneBookingPerKey
BY History, PTL DEF HistoryInv

\* Whatever is purged, replayed or created meanwhile, a replay names the booking
\* that the same key and payload created.
THEOREM ReplaysNameTheCreation == Spec => []ReplayIsTheCreation
BY History, PTL DEF HistoryInv

\* No interleaving lets two changes win against one version, and the version of a
\* booking counts its acknowledged updates.
THEOREM VersionsHaveOneWinner == Spec => []OneWinnerPerVersion
BY History, PTL DEF HistoryInv

-----------------------------------------------------------------------------
(* The tables implement the atomic ledger.                                 *)

\* The ledger counts like the tables.
LEMMA SameCount == \A S : Ledger!Cardinality(S) = Cardinality(S)
BY DEF Cardinality, Ledger!Cardinality

LEMMA LedgerStep ==
  ASSUME Inv, NEW t \in Tx, Step(t)
  PROVE  [Ledger!LedgerNext]_(Ledger!ledger)
<1>. USE DEF Ledger!ledger
<1>1. CASE CommitCreate(t)
  <2>1. PICK row \in Row :
          /\ row.slot = target[t].slot /\ row.ref = target[t].ref
          /\ row.key = req[t].key /\ row.revision = 1
          /\ booking' = [booking EXCEPT ![t] = row]
    BY <1>1, CreatedRow DEF BookingId, CommitCreate
  <2>2. row \in Ledger!FirstVersion
    BY <2>1 DEF Row, Ledger!FirstVersion
  <2>3. booking[t] = None /\ demo' = demo
    BY <1>1 DEF CommitCreate, Inv, ReadsHold, BookedWhenDone
  <2>4. ~Full(row.slot, t) /\ ~ReferenceUsed(row.key, row.ref, t)
    BY <1>1, <2>1
    DEF CommitCreate, Inv, ReadsHold, RoomStillThere, ReferenceStillUnused, IsWrite, BookingId
  <2>5. Ledger!Room(t, row.slot)
    <3>1. row.slot \in Slot
      BY DEF Row
    <3>2. /\ Cardinality(Taken(row.slot) \ {t}) \in Nat
          /\ demo[row.slot] \in Nat /\ Capacity[row.slot] \in Nat
      BY <3>1, CountIsMonotone, CatalogAssumption DEF Taken, Inv, TypeOK
    <3>3. Ledger!InSlot(row.slot) = Taken(row.slot)
      BY DEF Ledger!InSlot, Taken
    <3>. QED  BY <2>4, <3>2, <3>3, SameCount DEF Full, Ledger!Room
  <2>6. Ledger!Unused(t, row.key, row.ref)
    BY <2>4 DEF ReferenceUsed, Ledger!Unused
  <2>7. Ledger!Book(t, row)
    BY <2>1, <2>3, <2>5, <2>6 DEF Ledger!Book
  <2>. QED  BY <2>2, <2>7 DEF Ledger!LedgerNext
<1>2. CASE CommitUpdate(t)
  <2>. DEFINE b == req[t].id
              old == booking[b]
  <2>1. b \in Tx /\ old \in Row /\ target[t] \in Target /\ old.key = req[t].key
    BY <1>2, UpdatedRow
  <2>2. target[t].slot \in Slot /\ target[t].ref \in Ref /\ old # None
    BY <2>1, NoneAssumption DEF Target
  <2>3. ~Full(target[t].slot, b) /\ ~ReferenceUsed(old.key, target[t].ref, b)
    BY <1>2, <2>1
    DEF CommitUpdate, Inv, ReadsHold, RoomStillThere, ReferenceStillUnused, IsWrite, BookingId
  <2>4. Ledger!Room(b, target[t].slot)
    <3>1. /\ Cardinality(Taken(target[t].slot) \ {b}) \in Nat
          /\ demo[target[t].slot] \in Nat /\ Capacity[target[t].slot] \in Nat
      BY <2>2, CountIsMonotone, CatalogAssumption DEF Taken, Inv, TypeOK
    <3>2. Ledger!InSlot(target[t].slot) = Taken(target[t].slot)
      BY DEF Ledger!InSlot, Taken
    <3>. QED  BY <2>3, <3>1, <3>2, SameCount DEF Full, Ledger!Room
  <2>5. Ledger!Unused(b, old.key, target[t].ref)
    BY <2>3 DEF ReferenceUsed, Ledger!Unused
  <2>6. Ledger!Move(b, target[t].slot, target[t].ref)
    BY <1>2, <2>2, <2>4, <2>5 DEF CommitUpdate, Ledger!Move
  <2>. QED  BY <2>1, <2>2, <2>6 DEF Ledger!LedgerNext
<1>3. CASE CommitDelete(t)
  <2>1. req[t].id \in Tx /\ booking[req[t].id] # None
    <3>1. req[t] \in DeleteRequest
      BY <1>3, RequestKinds DEF CommitDelete, Inv, TypeOK, Shape
    <3>. QED  BY <1>3, <3>1
              DEF CommitDelete, DeleteRequest, Inv, ReadsHold, RowStillRead, HoldsRow
  <2>2. Ledger!Cancel(req[t].id)
    BY <1>3, <2>1 DEF CommitDelete, Ledger!Cancel
  <2>. QED  BY <2>1, <2>2 DEF Ledger!LedgerNext
<1>4. CASE CommitRegenerate(t)
  <2>1. req[t].month \in Month
    BY <1>4, RequestKinds DEF CommitRegenerate, Inv, TypeOK, Shape, RegenerateRequest
  <2>2. demo' \in [Slot -> Nat] /\ booking' = booking
    BY <1>4, StepTypes DEF CommitRegenerate, TypeOK
  <2>3. ASSUME NEW s \in Slot
        PROVE  \/ MonthOf[s] # req[t].month /\ demo'[s] = demo[s]
               \/ MonthOf[s] = req[t].month /\ demo'[s] = 0
               \/ /\ MonthOf[s] = req[t].month
                  /\ Cardinality(Ledger!InSlot(s)) + demo'[s] <= Capacity[s]
    <3>1. Ledger!InSlot(s) = Taken(s)
      BY DEF Ledger!InSlot, Taken
    <3>2. Cardinality(Taken(s)) + demo[s] <= Capacity[s]
      BY DEF Inv, CapacityRespected
    <3>. QED  BY <1>4, <3>1, <3>2, RefillFits
  <2>4. Ledger!Refill(req[t].month)
    BY <2>2, <2>3, SameCount DEF Ledger!Refill
  <2>. QED  BY <2>1, <2>4 DEF Ledger!LedgerNext
<1>5. CASE UNCHANGED <<booking, demo>>
  BY <1>5
<1>. QED  BY <1>1, <1>2, <1>3, <1>4, <1>5, CommitsAlone

\* Whatever the interleaving, the tables change as if the requests ran one at a
\* time against the ledger.
THEOREM ImplementsLedger == Spec => LedgerSpec
<1>1. Init => Ledger!LedgerInit
  BY DEF Init, Ledger!LedgerInit
<1>2. Inv /\ [Next]_vars => [Ledger!LedgerNext]_(Ledger!ledger)
  BY LedgerStep
  DEF Next, Step, AllAnswered, Tick, tables, vars, Ledger!ledger
<1>. QED  BY <1>1, <1>2, Invariance, PTL DEF Spec, LedgerSpec, Ledger!LedgerSpec
=============================================================================
