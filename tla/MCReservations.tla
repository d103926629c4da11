----------------------------- MODULE MCReservations -----------------------------
(* Small instances of Reservations for TLC. *)
EXTENDS Reservations, FiniteSetsExt, TLC

CONSTANTS t1, t2, t3, k1, a1, a2, i1, i2, r1, r2, s1, s2, s3, m1

MCMonthOf == [s \in Slot |-> m1]
MCCapacity == [s \in Slot |-> IF s = s1 THEN 1 ELSE 2]
\* The third slot falls on a day the service is closed.
MCBookable == [s \in Slot |-> IF s = s3 THEN {} ELSE 0..MaxTime]
MCInRange == [m \in Month |-> 0..MaxTime]

\* Distinct lock names get distinct hashes.
MCHash ==
  FoldSet(LAMBDA l, h : h @@ (l :> Cardinality(DOMAIN h)), [l \in {} |-> 0], LockName)

Creates(idems, anis, slots, refs) ==
  [op : {"create"}, key : {k1}, ani : anis, idem : idems, slot : slots, ref : refs]
Updates(versions, slots, refs) ==
  [op : {"update"}, key : {k1}, ani : {a1}, id : Tx, expected : versions,
   slot : slots, ref : refs]
Deletes(versions) ==
  [op : {"delete"}, key : {k1}, ani : {a1}, id : Tx, expected : versions]
Regenerates == [op : {"regenerate"}, month : Month]

\* Callers compete for two slots and two references, and a booking is changed twice.
BookingRequests ==
  Creates({i1, i2}, {a1}, {s1, s2}, {r1}) \cup Creates({i2}, {a1}, {s1}, {r2})
    \cup Updates({1, 2}, {s1, s2}, {None}) \cup Updates({1}, {None}, {r1})
    \cup Deletes({1, 2}) \cup Regenerates

\* One key is sent again and again, with the same and with other payloads, while
\* its record expires; i2 is a bystander whose request purges expired records.
RetryRequests ==
  Creates({i1}, {a1}, {s2}, {r1, r2}) \cup Creates({i1}, {a2}, {s2}, {r1})
    \cup Creates({i2}, {a1}, {s1}, {r2})

\* The second slot closes after instant 0, the first one stays open.
ClosingBookable == [s \in Slot |-> IF s = s1 THEN 0..MaxTime ELSE {0}]

\* One request of every kind, all about the booking t1 may make.
ContendingRequests ==
  {r \in Creates({i1}, {a1}, {s1}, {r1}) \cup Creates({i2}, {a1}, {s2}, {r1})
          \cup Updates({1}, {s1, s3} \cap Slot, {None}) \cup Deletes({1}) \cup Regenerates :
     r.op \in {"update", "delete"} => r.id = t1}

\* Every request of the two parts of MCReservationParts.
EitherRequest == BookingRequests \cup RetryRequests

Symmetry == Permutations(Tx)
=============================================================================
