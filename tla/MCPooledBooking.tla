-------------------------- MODULE MCPooledBooking --------------------------
(* Two replicas: requests OnA go to one, the rest to the other. *)
EXTENDS PooledBooking, TLC

CONSTANTS podA, podB, OnA

MCReplicaOf == [r \in Req |-> IF r \in OnA THEN podA ELSE podB]
MCInspectorAuthority == [i \in Inspector |-> "licensing"]
MCSlotAuthority == [s \in Slot |-> "licensing"]

Symmetry == Permutations(Req \ OnA) \cup Permutations(User) \cup Permutations(Inspector)
=============================================================================
