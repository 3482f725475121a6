----------------------------- MODULE MCSessions -----------------------------
(* Two replicas whose clocks differ by one unit, of which two are a second. *)
EXTENDS Sessions

CONSTANTS n1, n2

MCOffset == [n \in Replica |-> IF n = n1 THEN 0 ELSE 1]
=============================================================================
