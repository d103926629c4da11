--------------------------- MODULE MCReservationUsage ---------------------------
(* A small instance of ReservationUsage for TLC; every constant is in the cfg. *)
EXTENDS ReservationUsage, TLC
=============================================================================
