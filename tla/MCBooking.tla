----------------------------- MODULE MCBooking -----------------------------
(* A small instance of Booking for TLC, in one authority.                   *)
EXTENDS Booking

MCInspectorAuthority == [i \in Inspector |-> "licensing"]
MCSlotAuthority == [s \in Slot |-> "licensing"]
=============================================================================
