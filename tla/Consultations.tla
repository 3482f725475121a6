--------------------------- MODULE Consultations ---------------------------
(***************************************************************************)
(* The data of the consultation service: the rows of the table             *)
(* consultation_appointment, the requests its gRPC endpoints receive, and  *)
(* the queries of storage/consultations.go over committed rows.            *)
(***************************************************************************)
CONSTANTS
  User,                \* rows of business_user; each was registered with an account
  Inspector,           \* rows of inspector_user the administrator may create
  Slot,                \* rows of authority_consultation_slots
  InspectorAuthority,  \* inspector_user.authority_id
  SlotAuthority,       \* authority_consultation_slots.authority_id
  Req,                 \* gRPC requests; an id also names the row its request inserts
  None                 \* no inspector (the zero InspectorUser)

ASSUME NoneAssumption == None \notin Inspector

(* An appointment. Its uuid is fresh for each insert, so the request that   *)
(* inserts a row identifies it. canceled is "canceled_at is not null".      *)
Appointment == [id : Req, user : User, slot : Slot, inspector : Inspector, canceled : BOOLEAN]

CreateCall == [op : {"create"}, user : User, slot : Slot]
CancelCall == [op : {"cancel"}, user : User, appt : Req]
DeleteCall == [op : {"delete"}, user : User]
Call       == CreateCall \cup CancelCall \cup DeleteCall
NoCall     == [op |-> "none"]

Answers == {"none", "ok", "unauthorized", "internal", "taken", "notfound"}

(* The partial unique index of migration 00006: rows that are not canceled  *)
(* are unique in (slot_id, inspector_user_id).                              *)
Occupied(rows, s, i) ==
  \E a \in rows : a.slot = s /\ a.inspector = i /\ ~a.canceled

(* The inspectors the booking transaction selects: those of the slot's      *)
(* authority without a live appointment for the slot.                       *)
AvailableInspectors(rows, staff, s) ==
  {i \in staff : InspectorAuthority[i] = SlotAuthority[s] /\ ~Occupied(rows, s, i)}

(* The rows the cancelation statement updates (CancelableByAnyone, a mutant, *)
(* drops the owner's condition), and the table it leaves.                   *)
CancelableByAnyone(rows, c) == {a \in rows : a.id = c.appt}
Cancelable(rows, c) == {a \in rows : a.id = c.appt /\ a.user = c.user}
Canceled(rows, c) ==
  (rows \ Cancelable(rows, c)) \cup {[a EXCEPT !.canceled = TRUE] : a \in Cancelable(rows, c)}
=============================================================================
