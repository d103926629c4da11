--------------------------- MODULE ReservationLedger ---------------------------
(***************************************************************************)
(* What the reservation tables promise, whatever the interleaving of the   *)
(* requests: bookings are made, moved, cancelled and demo rows refilled    *)
(* one at a time, a slot never holds more than its capacity, a reference   *)
(* of an API key names one booking at most, and every accepted change of a *)
(* booking makes exactly the next version of it.  Reservations.tla         *)
(* implements this without a unique index, by its locks alone.             *)
(***************************************************************************)
EXTENDS Integers, FiniteSets

CONSTANTS Id, ApiKey, Ani, Ref, Slot, Month, MonthOf, Capacity, None

LedgerRow == [slot : Slot, ref : Ref, key : ApiKey, ani : Ani, revision : Nat]

\* A booking is born with version 1.
FirstVersion == [slot : Slot, ref : Ref, key : ApiKey, ani : Ani, revision : {1}]

VARIABLES booking, demo

ledger == <<booking, demo>>

LedgerInit ==
  /\ booking = [b \in Id |-> None]
  /\ demo = [s \in Slot |-> 0]

InSlot(s) == {b \in Id : booking[b] # None /\ booking[b].slot = s}

\* Booking b, or one about to be made under that id, may go to slot s.
Room(b, s) == Cardinality(InSlot(s) \ {b}) + demo[s] < Capacity[s]

Unused(b, key, ref) ==
  \A c \in Id \ {b} :
    booking[c] # None => ~(booking[c].key = key /\ booking[c].ref = ref)

Book(b, row) ==
  /\ booking[b] = None
  /\ Room(b, row.slot) /\ Unused(b, row.key, row.ref)
  /\ booking' = [booking EXCEPT ![b] = row]
  /\ UNCHANGED demo

Move(b, slot, ref) ==
  /\ booking[b] # None
  /\ Room(b, slot) /\ Unused(b, booking[b].key, ref)
  /\ booking' = [booking EXCEPT ![b] =
       [slot |-> slot, ref |-> ref, key |-> @.key, ani |-> @.ani,
        revision |-> @.revision + 1]]
  /\ UNCHANGED demo

Cancel(b) ==
  /\ booking[b] # None
  /\ booking' = [booking EXCEPT ![b] = None]
  /\ UNCHANGED demo

Refill(month) ==
  /\ demo' \in [Slot -> Nat]
  /\ \A s \in Slot :
       \/ MonthOf[s] # month /\ demo'[s] = demo[s]
       \/ MonthOf[s] = month /\ demo'[s] = 0
       \/ MonthOf[s] = month /\ Cardinality(InSlot(s)) + demo'[s] <= Capacity[s]
  /\ UNCHANGED booking

LedgerNext ==
  \/ \E b \in Id, row \in FirstVersion : Book(b, row)
  \/ \E b \in Id, slot \in Slot, ref \in Ref : Move(b, slot, ref)
  \/ \E b \in Id : Cancel(b)
  \/ \E month \in Month : Refill(month)

LedgerSpec == LedgerInit /\ [][LedgerNext]_ledger

-----------------------------------------------------------------------------
LedgerTypeOK ==
  /\ booking \in [Id -> LedgerRow \cup {None}]
  /\ demo \in [Slot -> Nat]

\* No slot is ever overbooked, demo rows included.
WithinCapacity ==
  \A s \in Slot : Cardinality(InSlot(s)) + demo[s] <= Capacity[s]

\* An external reference of an API key names at most one booking.
OneBookingPerReference ==
  \A b, c \in Id :
    /\ booking[b] # None /\ booking[c] # None
    /\ booking[b].key = booking[c].key /\ booking[b].ref = booking[c].ref
    => b = c
=============================================================================
