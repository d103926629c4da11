----------------------------- MODULE MCReservationParts -----------------------------
(* Two instances of Reservations in one state space. *)
EXTENDS MCReservations

\* The requests compete at one instant.
Competing ==
  /\ clock = 0 /\ aborts = 0
  /\ \A t \in Tx : req[t] \in BookingRequests \cup {None}

\* One create is tried again and again.
Retried == \A t \in Tx : req[t] \in RetryRequests \cup {None}

Parts == Competing \/ Retried
=============================================================================
