-------------------------- MODULE MCAuthorityUpload --------------------------
(* Three workbooks that overlap in every table: two name the same           *)
(* authorities in opposite orders, the third has one of them on two sheets. *)
EXTENDS AuthorityUpload, TLC

CONSTANTS u1, u2, u3, tax, fire, nothing, opening, permits, monday, tuesday

Auth(n)     == [table |-> "authority", authority |-> n, item |-> nothing]
Topic(n, i) == [table |-> "topic", authority |-> n, item |-> i]
Slot(n, i)  == [table |-> "slot", authority |-> n, item |-> i]

MCFile ==
  u1 :> << <<Auth(tax), Auth(fire)>>,
           <<Topic(tax, opening), Topic(fire, opening)>>,
           <<Slot(tax, monday), Slot(fire, monday)>> >> @@
  u2 :> << <<Auth(tax), Auth(tax)>>,
           <<Topic(tax, permits), Topic(tax, opening)>>,
           <<Slot(tax, tuesday), Slot(tax, monday)>> >> @@
  u3 :> << <<Auth(fire), Auth(tax)>>,
           <<Topic(fire, opening), Topic(tax, opening), Topic(tax, permits)>>,
           <<Slot(fire, monday), Slot(tax, monday), Slot(tax, tuesday)>> >>
=============================================================================
