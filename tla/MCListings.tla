----------------------------- MODULE MCListings -----------------------------
(* A small instance of Listings for TLC: a licensing authority that clients *)
(* look for, a fire authority they must not be shown, slots on two days of  *)
(* four hours.                                                              *)
EXTENDS Listings

CONSTANTS s1, s3, sf,         \* slots; sf is the fire authority's
          licensing, fire,
          Firemen             \* the inspectors of the fire authority

MCSlotAuthority == [s \in Slot |-> IF s = sf THEN fire ELSE licensing]
MCInspectorAuthority == [i \in Inspector |-> IF i \in Firemen THEN fire ELSE licensing]
MCTopicAuthority == [t \in Topic |-> t]

(* Away from midnight, in UTC and in the zone of the database.             *)
MCStart == [s \in Slot |-> IF s = s3 THEN 5 ELSE 1]
MCEnd == [s \in Slot |-> MCStart[s] + 1]
MCPeriod == {<<0, 7>>}

Symmetry == Permutations(Req) \cup Permutations(Look) \cup Permutations(User)
              \cup Permutations(Inspector \ Firemen)
=============================================================================
