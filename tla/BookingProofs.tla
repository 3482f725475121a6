--------------------------- MODULE BookingProofs ---------------------------
(***************************************************************************)
(* Booking for any number of users, inspectors, slots and requests: the    *)
(* type invariant, NoDoubleBooking, AnswersMatchTable, the two action      *)
(* properties, and the refinement of AppointmentLedger.  Then its          *)
(* deployment, for any number of replicas, limit of connections and        *)
(* pattern of stops and restarts: it is Booking to its clients, its pools  *)
(* lose no connection, and its requests never wait in a circle.            *)
(***************************************************************************)
EXTENDS PooledBooking, FiniteSetTheorems, TLAPS

(* Where a handler stands says what its request is, whom it has chosen and  *)
(* whether it has answered.                                                *)
HandlerControl(r) ==
  /\ pc[r] = "idle" => call[r] = NoCall
  /\ pc[r] # "idle" => call[r] \in Call
  /\ pc[r] = "GetBusinessUser" => call[r].op \in {"create", "cancel"}
  /\ pc[r] \in {"SelectInspectors", "InsertAppointment", "Commit"} => call[r].op = "create"
  /\ pc[r] = "UpdateCanceledAt" => call[r].op = "cancel"
  /\ pc[r] = "DeleteAccount" => call[r].op = "delete"
  /\ pc[r] \in {"InsertAppointment", "Commit"} =>
       /\ chosen[r] \in hired
       /\ InspectorAuthority[chosen[r]] = SlotAuthority[call[r].slot]
  /\ reply[r] = "none" <=> pc[r] # "done"

Control == \A r \in Req : HandlerControl(r)

(* An open transaction holds exactly the row its handler is about to        *)
(* commit; a committed row belongs to a request that was answered.          *)
OpenRows ==
  /\ \A a \in uncommitted : pc[a.id] = "Commit" /\ a = NewRow(a.id)
  /\ \A r \in Req : pc[r] = "Commit" => NewRow(r) \in uncommitted

CommittedRows == \A a \in appointments : pc[a.id] = "done" /\ reply[a.id] \in {"ok", "internal"}

IInv ==
  /\ TypeOK
  /\ Control
  /\ OpenRows
  /\ CommittedRows
  /\ NoDoubleBooking
  /\ AnswersMatchTable
-----------------------------------------------------------------------------
(* A request carries the arguments its kind calls for.                     *)
LEMMA CallFields ==
  ASSUME NEW c \in Call
  PROVE  /\ c.user \in User
         /\ c.op \in {"create", "cancel", "delete"}
         /\ c # NoCall
         /\ c.op = "create" => c.slot \in Slot
         /\ c.op = "cancel" => c.appt \in Req
  <1>1. CASE c \in CreateCall BY <1>1 DEF CreateCall, NoCall
  <1>2. CASE c \in CancelCall BY <1>2 DEF CancelCall, NoCall
  <1>3. CASE c \in DeleteCall BY <1>3 DEF DeleteCall, NoCall
  <1> QED BY <1>1, <1>2, <1>3 DEF Call

(* A cancelation replaces rows by their canceled versions and nothing else. *)
LEMMA CanceledRows ==
  ASSUME NEW rows \in SUBSET Appointment, NEW c
  PROVE  /\ Canceled(rows, c) \subseteq Appointment
         /\ \A a \in rows : \/ a \in Canceled(rows, c)
                            \/ a \in Cancelable(rows, c) /\ [a EXCEPT !.canceled = TRUE] \in Canceled(rows, c)
         /\ \A b \in Canceled(rows, c) : ~b.canceled => b \in rows
         /\ \A b \in Canceled(rows, c) : b \notin rows => b.user = c.user
         /\ \A b \in Canceled(rows, c) : \E a \in rows : b.id = a.id /\ b.user = a.user
  <1>1. \A a \in Appointment : LET b == [a EXCEPT !.canceled = TRUE]
                               IN  b \in Appointment /\ b.canceled /\ b.id = a.id /\ b.user = a.user
    BY DEF Appointment
  <1>2. Cancelable(rows, c) \subseteq rows /\ \A a \in Cancelable(rows, c) : a.user = c.user
    BY DEF Cancelable
  <1>3. ASSUME NEW b \in Canceled(rows, c), b \notin rows
        PROVE  \E a \in Cancelable(rows, c) : b = [a EXCEPT !.canceled = TRUE]
    BY <1>3 DEF Canceled
  <1>4. ASSUME NEW a \in rows, a \notin Canceled(rows, c)
        PROVE  a \in Cancelable(rows, c) /\ [a EXCEPT !.canceled = TRUE] \in Canceled(rows, c)
    BY <1>4 DEF Canceled
  <1>5. ASSUME NEW b \in Canceled(rows, c), b \notin rows
        PROVE  /\ b \in Appointment
               /\ b.canceled
               /\ b.user = c.user
               /\ \E a \in rows : b.id = a.id /\ b.user = a.user
    <2>1. PICK a \in Cancelable(rows, c) : b = [a EXCEPT !.canceled = TRUE] BY <1>3, <1>5
    <2>2. a \in rows /\ a \in Appointment /\ a.user = c.user BY <1>2
    <2>3. b \in Appointment /\ b.canceled /\ b.id = a.id /\ b.user = a.user BY <1>1, <2>1, <2>2
    <2> QED BY <2>2, <2>3
  <1> QED BY <1>4, <1>5

(* No row is lost by a cancelation, and the rows it applies to are canceled. *)
LEMMA CanceledKeepsRows ==
  ASSUME NEW rows \in SUBSET Appointment, NEW c
  PROVE  /\ \A a \in rows : \E b \in Canceled(rows, c) :
              /\ b.id = a.id /\ b.user = a.user /\ b.slot = a.slot /\ b.inspector = a.inspector
              /\ a.canceled => b.canceled
         /\ \A a \in Cancelable(rows, c) : \E b \in Canceled(rows, c) :
              b.id = c.appt /\ b.user = c.user /\ b.canceled
  <1>1. \A a \in Appointment :
          LET b == [a EXCEPT !.canceled = TRUE]
          IN  /\ b.id = a.id /\ b.user = a.user /\ b.slot = a.slot /\ b.inspector = a.inspector
              /\ b.canceled
    BY DEF Appointment
  <1>2. ASSUME NEW a \in Cancelable(rows, c)
        PROVE  /\ [a EXCEPT !.canceled = TRUE] \in Canceled(rows, c)
               /\ a \in Appointment /\ a.id = c.appt /\ a.user = c.user
    BY DEF Canceled, Cancelable
  <1>3. ASSUME NEW a \in rows, a \notin Cancelable(rows, c) PROVE a \in Canceled(rows, c)
    BY <1>3 DEF Canceled
  <1>4. ASSUME NEW a \in Cancelable(rows, c)
        PROVE  \E b \in Canceled(rows, c) :
                 /\ b.id = a.id /\ b.user = a.user /\ b.slot = a.slot /\ b.inspector = a.inspector
                 /\ b.canceled
    BY <1>1, <1>2
  <1>5. ASSUME NEW a \in rows
        PROVE  \E b \in Canceled(rows, c) :
                 /\ b.id = a.id /\ b.user = a.user /\ b.slot = a.slot /\ b.inspector = a.inspector
                 /\ a.canceled => b.canceled
    <2>1. CASE a \in Cancelable(rows, c) BY <1>4, <2>1
    <2>2. CASE a \notin Cancelable(rows, c) BY <1>3, <2>2
    <2> QED BY <2>1, <2>2
  <1>6. ASSUME NEW a \in Cancelable(rows, c)
        PROVE  \E b \in Canceled(rows, c) : b.id = c.appt /\ b.user = c.user /\ b.canceled
    <2>1. PICK b \in Canceled(rows, c) : b.id = a.id /\ b.user = a.user /\ b.canceled BY <1>4
    <2> QED BY <1>2, <2>1
  <1> QED BY <1>5, <1>6

(* The row a booking inserts is an appointment with its request's arguments. *)
LEMMA NewRowType ==
  ASSUME TypeOK, Control, NEW r \in Req, pc[r] \in {"InsertAppointment", "Commit"}
  PROVE  /\ NewRow(r) \in Appointment
         /\ NewRow(r).id = r
         /\ NewRow(r).user = call[r].user
         /\ NewRow(r).slot = call[r].slot
         /\ NewRow(r).inspector = chosen[r]
         /\ NewRow(r).canceled = FALSE
  <1>1. call[r] \in Call /\ call[r].op = "create" /\ chosen[r] \in Inspector
    BY DEF TypeOK, Control, HandlerControl
  <1> QED BY <1>1, CallFields DEF NewRow, Appointment

(* The invariant holds when no request has arrived.                        *)
LEMMA InitIInv == Init => IInv
  BY DEF Init, IInv, TypeOK, Control, HandlerControl, OpenRows, CommittedRows, NoDoubleBooking,
         AnswersMatchTable, PC, Answers, OwnRows, BookingAnswered, CancelationAnswered, NoCall

(* Each step of a handler keeps the types.                                 *)
LEMMA TypeStep ==
  ASSUME TypeOK, Control, [Next]_vars
  PROVE  TypeOK'
  <1> USE DEF TypeOK, Goto, Return, PC, Answers
  <1>1. CASE UNCHANGED vars BY <1>1 DEF vars
  <1>2. ASSUME NEW i \in Inspector, CreateInspectorUser(i) PROVE TypeOK'
    BY <1>2 DEF CreateInspectorUser
  <1>3. ASSUME NEW r \in Req, NEW c \in Call, Arrive(r, c) PROVE TypeOK'
    BY <1>3 DEF Arrive
  <1>4. ASSUME NEW r \in Req, AuthorizeSession(r) PROVE TypeOK'
    BY <1>4 DEF AuthorizeSession
  <1>5. ASSUME NEW r \in Req, GetBusinessUser(r) PROVE TypeOK'
    BY <1>5 DEF GetBusinessUser
  <1>6. ASSUME NEW r \in Req, SelectInspectors(r) PROVE TypeOK'
    <2>1. AvailableInspectors(appointments, hired, call[r].slot) \subseteq Inspector
      BY DEF AvailableInspectors
    <2> QED BY <1>6, <2>1 DEF SelectInspectors
  <1>7. ASSUME NEW r \in Req, InsertAppointment(r) PROVE TypeOK'
    <2>1. NewRow(r) \in Appointment BY <1>7, NewRowType DEF InsertAppointment
    <2> QED BY <1>7, <2>1 DEF InsertAppointment
  <1>8. ASSUME NEW r \in Req, Commit(r) PROVE TypeOK'
    BY <1>8 DEF Commit, OwnRows
  <1>9. ASSUME NEW r \in Req, UpdateCanceledAt(r) PROVE TypeOK'
    BY <1>9, CanceledRows DEF UpdateCanceledAt
  <1>10. ASSUME NEW r \in Req, DeleteAccount(r) PROVE TypeOK'
    BY <1>10 DEF DeleteAccount
  <1>11. ASSUME NEW r \in Req, Fail(r) PROVE TypeOK'
    BY <1>11 DEF Fail, OwnRows
  <1> QED BY <1>1, <1>2, <1>3, <1>4, <1>5, <1>6, <1>7, <1>8, <1>9, <1>10, <1>11 DEF Next, Handle

(* Each step keeps what a handler's position says about its request.       *)
LEMMA ControlStep ==
  ASSUME TypeOK, Control, [Next]_vars
  PROVE  Control'
  <1> SUFFICES ASSUME NEW q \in Req PROVE HandlerControl(q)'
    BY DEF Control
  <1> HandlerControl(q) BY DEF Control
  <1> USE DEF TypeOK, Goto, Return, HandlerControl
  <1>1. CASE UNCHANGED vars BY <1>1 DEF vars
  <1>2. ASSUME NEW i \in Inspector, CreateInspectorUser(i) PROVE HandlerControl(q)'
    BY <1>2 DEF CreateInspectorUser
  <1>3. ASSUME NEW r \in Req, NEW c \in Call, Arrive(r, c) PROVE HandlerControl(q)'
    BY <1>3, HandlerControl(r) DEF Arrive, Control
  <1>4. ASSUME NEW r \in Req, AuthorizeSession(r) PROVE HandlerControl(q)'
    BY <1>4, CallFields DEF AuthorizeSession
  <1>5. ASSUME NEW r \in Req, GetBusinessUser(r) PROVE HandlerControl(q)'
    BY <1>5 DEF GetBusinessUser
  <1>6. ASSUME NEW r \in Req, SelectInspectors(r) PROVE HandlerControl(q)'
    BY <1>6 DEF SelectInspectors, AvailableInspectors
  <1>7. ASSUME NEW r \in Req, InsertAppointment(r) PROVE HandlerControl(q)'
    BY <1>7 DEF InsertAppointment
  <1>8. ASSUME NEW r \in Req, Commit(r) PROVE HandlerControl(q)'
    BY <1>8 DEF Commit
  <1>9. ASSUME NEW r \in Req, UpdateCanceledAt(r) PROVE HandlerControl(q)'
    BY <1>9 DEF UpdateCanceledAt
  <1>10. ASSUME NEW r \in Req, DeleteAccount(r) PROVE HandlerControl(q)'
    BY <1>10 DEF DeleteAccount
  <1>11. ASSUME NEW r \in Req, Fail(r) PROVE HandlerControl(q)'
    BY <1>11 DEF Fail
  <1> QED BY <1>1, <1>2, <1>3, <1>4, <1>5, <1>6, <1>7, <1>8, <1>9, <1>10, <1>11 DEF Next, Handle

(* A row is open exactly while its handler is about to commit it.          *)
LEMMA OpenRowsStep ==
  ASSUME TypeOK, Control, OpenRows, [Next]_vars
  PROVE  OpenRows'
  <1> USE DEF TypeOK, Goto, Return, OpenRows, NewRow
  <1>0. \A a \in Appointment : a.id \in Req BY DEF Appointment
  <1>1. CASE UNCHANGED vars BY <1>1 DEF vars
  <1>2. ASSUME NEW i \in Inspector, CreateInspectorUser(i) PROVE OpenRows'
    BY <1>2 DEF CreateInspectorUser
  <1>3. ASSUME NEW r \in Req, NEW c \in Call, Arrive(r, c) PROVE OpenRows'
    BY <1>0, <1>3 DEF Arrive
  <1>4. ASSUME NEW r \in Req, AuthorizeSession(r) PROVE OpenRows'
    BY <1>0, <1>4 DEF AuthorizeSession
  <1>5. ASSUME NEW r \in Req, GetBusinessUser(r) PROVE OpenRows'
    BY <1>0, <1>5 DEF GetBusinessUser
  <1>6. ASSUME NEW r \in Req, SelectInspectors(r) PROVE OpenRows'
    BY <1>0, <1>6 DEF SelectInspectors
  <1>7. ASSUME NEW r \in Req, InsertAppointment(r) PROVE OpenRows'
    BY <1>0, <1>7 DEF InsertAppointment
  <1>8. ASSUME NEW r \in Req, Commit(r) PROVE OpenRows'
    BY <1>0, <1>8 DEF Commit, OwnRows
  <1>9. ASSUME NEW r \in Req, UpdateCanceledAt(r) PROVE OpenRows'
    BY <1>0, <1>9 DEF UpdateCanceledAt
  <1>10. ASSUME NEW r \in Req, DeleteAccount(r) PROVE OpenRows'
    BY <1>0, <1>10 DEF DeleteAccount
  <1>11. ASSUME NEW r \in Req, Fail(r) PROVE OpenRows'
    BY <1>0, <1>11 DEF Fail, OwnRows
  <1> QED BY <1>1, <1>2, <1>3, <1>4, <1>5, <1>6, <1>7, <1>8, <1>9, <1>10, <1>11 DEF Next, Handle

(* Only an answered request has a committed row.                           *)
LEMMA CommittedRowsStep ==
  ASSUME TypeOK, CommittedRows, [Next]_vars
  PROVE  CommittedRows'
  <1> USE DEF TypeOK, Goto, Return, CommittedRows
  <1>0. \A a \in Appointment : a.id \in Req BY DEF Appointment
  <1>1. CASE UNCHANGED vars BY <1>1 DEF vars
  <1>2. ASSUME NEW i \in Inspector, CreateInspectorUser(i) PROVE CommittedRows'
    BY <1>2 DEF CreateInspectorUser
  <1>3. ASSUME NEW r \in Req, NEW c \in Call, Arrive(r, c) PROVE CommittedRows'
    BY <1>0, <1>3 DEF Arrive
  <1>4. ASSUME NEW r \in Req, AuthorizeSession(r) PROVE CommittedRows'
    BY <1>0, <1>4 DEF AuthorizeSession
  <1>5. ASSUME NEW r \in Req, GetBusinessUser(r) PROVE CommittedRows'
    BY <1>0, <1>5 DEF GetBusinessUser
  <1>6. ASSUME NEW r \in Req, SelectInspectors(r) PROVE CommittedRows'
    BY <1>0, <1>6 DEF SelectInspectors
  <1>7. ASSUME NEW r \in Req, InsertAppointment(r) PROVE CommittedRows'
    BY <1>0, <1>7 DEF InsertAppointment
  <1>8. ASSUME NEW r \in Req, Commit(r) PROVE CommittedRows'
    BY <1>0, <1>8 DEF Commit, OwnRows
  <1>9. ASSUME NEW r \in Req, UpdateCanceledAt(r) PROVE CommittedRows'
    <2>1. \A b \in Canceled(appointments, call[r]) : \E a \in appointments : b.id = a.id
      BY CanceledRows
    <2> QED BY <1>0, <1>9, <2>1 DEF UpdateCanceledAt
  <1>10. ASSUME NEW r \in Req, DeleteAccount(r) PROVE CommittedRows'
    BY <1>0, <1>10 DEF DeleteAccount
  <1>11. ASSUME NEW r \in Req, Fail(r) PROVE CommittedRows'
    BY <1>0, <1>11 DEF Fail
  <1> QED BY <1>1, <1>2, <1>3, <1>4, <1>5, <1>6, <1>7, <1>8, <1>9, <1>10, <1>11 DEF Next, Handle

(* The unique index does the work: a row is inserted only when no live row, *)
(* committed or not, has its slot and inspector; every other step leaves    *)
(* the live rows alone, moves them or takes some away.                      *)
LEMMA NoDoubleBookingStep ==
  ASSUME TypeOK, Control, NoDoubleBooking, [Next]_vars
  PROVE  NoDoubleBooking'
  <1> DEFINE rows == appointments \cup uncommitted
  <1> USE DEF Goto, Return
  <1>1. ASSUME \A b \in rows' : ~b.canceled => b \in rows
        PROVE  NoDoubleBooking'
    BY <1>1 DEF NoDoubleBooking
  <1>2. CASE rows' \subseteq rows BY <1>1, <1>2
  <1>3. CASE UNCHANGED vars BY <1>2, <1>3 DEF vars
  <1>4. ASSUME NEW i \in Inspector, CreateInspectorUser(i) PROVE NoDoubleBooking'
    BY <1>2, <1>4 DEF CreateInspectorUser
  <1>5. ASSUME NEW r \in Req, NEW c \in Call, Arrive(r, c) PROVE NoDoubleBooking'
    BY <1>2, <1>5 DEF Arrive
  <1>6. ASSUME NEW r \in Req, \/ AuthorizeSession(r) \/ GetBusinessUser(r) \/ SelectInspectors(r)
                              \/ DeleteAccount(r)
        PROVE  NoDoubleBooking'
    BY <1>2, <1>6 DEF AuthorizeSession, GetBusinessUser, SelectInspectors, DeleteAccount
  <1>7. ASSUME NEW r \in Req, InsertAppointment(r) PROVE NoDoubleBooking'
    <2>1. NewRow(r).slot = call[r].slot /\ NewRow(r).inspector = chosen[r]
      BY DEF NewRow
    <2>2. CASE rows' \subseteq rows BY <1>2, <2>2
    <2>3. CASE /\ ~Occupied(uncommitted, call[r].slot, chosen[r])
               /\ ~Occupied(appointments, call[r].slot, chosen[r])
               /\ rows' = rows \cup {NewRow(r)}
      BY <2>1, <2>3 DEF NoDoubleBooking, Occupied
    <2> QED BY <1>7, <2>2, <2>3 DEF InsertAppointment
  <1>8. ASSUME NEW r \in Req, Commit(r) PROVE NoDoubleBooking'
    BY <1>2, <1>8 DEF Commit, OwnRows
  <1>9. ASSUME NEW r \in Req, UpdateCanceledAt(r) PROVE NoDoubleBooking'
    <2>1. \A b \in Canceled(appointments, call[r]) : ~b.canceled => b \in appointments
      BY CanceledRows DEF TypeOK
    <2> QED BY <1>1, <1>9, <2>1 DEF UpdateCanceledAt
  <1>10. ASSUME NEW r \in Req, Fail(r) PROVE NoDoubleBooking'
    BY <1>2, <1>10 DEF Fail, OwnRows
  <1> QED BY <1>3, <1>4, <1>5, <1>6, <1>7, <1>8, <1>9, <1>10 DEF Next, Handle

(* What one request was told agrees with the table.                        *)
Truthful(q) ==
  /\ call[q].op = "create" => BookingAnswered(q)
  /\ call[q].op = "cancel" => CancelationAnswered(q)
  /\ call[q].op = "delete" /\ reply[q] = "ok" => call[q].user \notin alive
  /\ pc[q] = "done" => OwnRows(q) = {}

(* No step of another request makes an answer given before untrue.         *)
LEMMA AnswersStep ==
  ASSUME TypeOK, Control, OpenRows, CommittedRows, AnswersMatchTable, [Next]_vars
  PROVE  AnswersMatchTable'
  <1> SUFFICES ASSUME NEW q \in Req PROVE Truthful(q)'
    BY DEF AnswersMatchTable, Truthful
  <1>0. Truthful(q) /\ HandlerControl(q)
    BY DEF AnswersMatchTable, Truthful, Control
  <1> USE DEF TypeOK, Goto, Return, Truthful, BookingAnswered, CancelationAnswered, OwnRows, HandlerControl
  <1>1. CASE UNCHANGED vars BY <1>0, <1>1 DEF vars
  <1>2. ASSUME NEW i \in Inspector, CreateInspectorUser(i) PROVE Truthful(q)'
    BY <1>0, <1>2 DEF CreateInspectorUser
  <1>3. ASSUME NEW r \in Req, NEW c \in Call, Arrive(r, c) PROVE Truthful(q)'
    BY <1>0, <1>3 DEF Arrive
  <1>4. ASSUME NEW r \in Req, AuthorizeSession(r) PROVE Truthful(q)'
    BY <1>0, <1>4 DEF AuthorizeSession, CommittedRows, OpenRows
  <1>5. ASSUME NEW r \in Req, GetBusinessUser(r) PROVE Truthful(q)'
    BY <1>0, <1>5 DEF GetBusinessUser, OpenRows
  <1>6. ASSUME NEW r \in Req, SelectInspectors(r) PROVE Truthful(q)'
    BY <1>0, <1>6 DEF SelectInspectors, CommittedRows, OpenRows
  <1>7. ASSUME NEW r \in Req, InsertAppointment(r) PROVE Truthful(q)'
    BY <1>0, <1>7 DEF InsertAppointment, OpenRows, NewRow
  <1>8. ASSUME NEW r \in Req, Commit(r) PROVE Truthful(q)'
    <2>1. CASE q = r
      <3>1. NewRow(r) \in OwnRows(r) /\ NewRow(r).id = r /\ call[r].op = "create"
            /\ NewRow(r).user = call[r].user /\ NewRow(r).slot = call[r].slot
            /\ NewRow(r).inspector = chosen[r]
        BY <1>8, NewRowType DEF Commit, OpenRows, Control
      <3> QED BY <1>0, <1>8, <2>1, <3>1 DEF Commit
    <2>2. CASE q # r
      <3>1. \A a \in appointments' : a.id = q => a \in appointments BY <1>8, <2>2 DEF Commit
      <3>2. appointments \subseteq appointments' /\ OwnRows(q)' \subseteq OwnRows(q)
        BY <1>8 DEF Commit
      <3> QED BY <1>0, <1>8, <2>2, <3>1, <3>2 DEF Commit
    <2> QED BY <2>1, <2>2
  <1>9. ASSUME NEW r \in Req, UpdateCanceledAt(r) PROVE Truthful(q)'
    <2>1. appointments' = Canceled(appointments, call[r]) /\ call' = call /\ chosen' = chosen
          /\ alive' = alive /\ OwnRows(q)' = OwnRows(q)
      BY <1>9 DEF UpdateCanceledAt
    <2>2. \A a \in appointments : \E b \in appointments' :
            /\ b.id = a.id /\ b.user = a.user /\ b.slot = a.slot /\ b.inspector = a.inspector
            /\ a.canceled => b.canceled
      <3>1. appointments \in SUBSET Appointment OBVIOUS
      <3>2. \A a \in appointments : \E b \in Canceled(appointments, call[r]) :
              /\ b.id = a.id /\ b.user = a.user /\ b.slot = a.slot /\ b.inspector = a.inspector
              /\ a.canceled => b.canceled
        BY <3>1, CanceledKeepsRows
      <3> QED BY <2>1, <3>2
    <2>3. \A b \in appointments' : \E a \in appointments : b.id = a.id
      BY <2>1, CanceledRows
    <2>4. CASE q = r
      <3>1. reply'[r] = "ok" => \E a \in appointments' :
              a.id = call[r].appt /\ a.user = call[r].user /\ a.canceled
        BY <1>9, <2>1, CanceledKeepsRows DEF UpdateCanceledAt
      <3> QED BY <1>0, <1>9, <2>1, <2>4, <3>1 DEF UpdateCanceledAt, OpenRows
    <2>5. CASE q # r
      <3>1. pc'[q] = pc[q] /\ reply'[q] = reply[q] BY <1>9, <2>5 DEF UpdateCanceledAt
      <3>2. BookingAnswered(q) => BookingAnswered(q)' BY <2>1, <2>2, <2>3, <3>1
      <3>3. CancelationAnswered(q) => CancelationAnswered(q)' BY <2>1, <2>2, <3>1
      <3> QED BY <1>0, <2>1, <3>1, <3>2, <3>3
    <2> QED BY <2>4, <2>5
  <1>10. ASSUME NEW r \in Req, DeleteAccount(r) PROVE Truthful(q)'
    BY <1>0, <1>10 DEF DeleteAccount, OpenRows
  <1>11. ASSUME NEW r \in Req, Fail(r) PROVE Truthful(q)'
    BY <1>0, <1>11 DEF Fail, OpenRows, CommittedRows
  <1> QED BY <1>1, <1>2, <1>3, <1>4, <1>5, <1>6, <1>7, <1>8, <1>9, <1>10, <1>11 DEF Next, Handle
-----------------------------------------------------------------------------
(* IInv is inductive.                                                      *)
LEMMA IInvStep == IInv /\ [Next]_vars => IInv'
  BY TypeStep, ControlStep, OpenRowsStep, CommittedRowsStep, NoDoubleBookingStep, AnswersStep DEF IInv

(* IInv holds in every reachable state.                                    *)
LEMMA IInvInvariant == Spec => []IInv
  BY InitIInv, IInvStep, PTL DEF Spec

(* The variables keep their types, whatever the interleaving.              *)
THEOREM TypeCorrect == Spec => []TypeOK
  <1>1. IInv => TypeOK BY DEF IInv
  <1> QED BY IInvInvariant, <1>1, PTL

(* No inspector is ever booked twice in a slot, by any number of concurrent *)
(* bookings and cancelations.                                              *)
THEOREM NeverDoubleBooked == Spec => []NoDoubleBooking
  <1>1. IInv => NoDoubleBooking BY DEF IInv
  <1> QED BY IInvInvariant, <1>1, PTL

(* Replies tell the truth about the table at every later moment.           *)
THEOREM RepliesTruthful == Spec => []AnswersMatchTable
  <1>1. IInv => AnswersMatchTable BY DEF IInv
  <1> QED BY IInvInvariant, <1>1, PTL
-----------------------------------------------------------------------------
(* Only a commit and a cancelation change the table.                       *)
LEMMA TableChanges ==
  ASSUME [Next]_vars
  PROVE  \/ appointments' = appointments
         \/ \E r \in Req : Commit(r) \/ UpdateCanceledAt(r)
  BY DEF Next, Handle, vars, CreateInspectorUser, Arrive, AuthorizeSession, GetBusinessUser,
         SelectInspectors, InsertAppointment, DeleteAccount, Fail

(* The steps that change the table lose no row.                            *)
LEMMA HistoryStep ==
  ASSUME TypeOK, Control, [Next]_vars
  PROVE  \A a \in appointments :
           \/ a \in appointments'
           \/ /\ [a EXCEPT !.canceled = TRUE] \in appointments'
              /\ \E r \in Req : Owned(r, a)
  <1> SUFFICES ASSUME NEW a \in appointments, a \notin appointments'
               PROVE  /\ [a EXCEPT !.canceled = TRUE] \in appointments'
                      /\ \E r \in Req : Owned(r, a)
    OBVIOUS
  <1>1. PICK r \in Req : UpdateCanceledAt(r)
    BY TableChanges DEF Commit
  <1>2. a \in Cancelable(appointments, call[r]) /\ [a EXCEPT !.canceled = TRUE] \in appointments'
    BY <1>1, CanceledRows DEF TypeOK, UpdateCanceledAt
  <1> QED BY <1>1, <1>2 DEF UpdateCanceledAt, Owned, Cancelable, Control, HandlerControl

(* No step of any handler forgets a consultation or undoes a cancelation.  *)
THEOREM HistorySafe == Spec => HistoryKept
  <1>1. IInv /\ [Next]_vars =>
          [\A a \in appointments :
             \/ a \in appointments'
             \/ /\ [a EXCEPT !.canceled = TRUE] \in appointments'
                /\ \E r \in Req : Owned(r, a)]_vars
    BY HistoryStep DEF IInv
  <1> QED BY IInvInvariant, <1>1, PTL DEF Spec, HistoryKept

(* A row changes only by a request of its user that is under way.          *)
LEMMA FrozenStep ==
  ASSUME TypeOK, Control, OpenRows, [Next]_vars,
         NEW u \in User, u \notin alive, ~InFlight(u)
  PROVE  RowsOf(u)' = RowsOf(u)
  <1>1. CASE appointments' = appointments BY <1>1 DEF RowsOf
  <1>2. ASSUME NEW r \in Req, Commit(r) PROVE RowsOf(u)' = RowsOf(u)
    <2>1. call[r].user # u BY <1>2 DEF InFlight, Commit
    <2>2. \A a \in OwnRows(r) : a.user = call[r].user BY DEF OwnRows, OpenRows, NewRow
    <2> QED BY <1>2, <2>1, <2>2 DEF Commit, RowsOf
  <1>3. ASSUME NEW r \in Req, UpdateCanceledAt(r) PROVE RowsOf(u)' = RowsOf(u)
    <2>1. call[r].user # u BY <1>3 DEF InFlight, UpdateCanceledAt
    <2>2. \A a \in appointments : a.user = u => a \in appointments'
      <3>1. appointments \ Cancelable(appointments, call[r]) \subseteq appointments'
        BY <1>3 DEF UpdateCanceledAt, Canceled
      <3>2. \A a \in Cancelable(appointments, call[r]) : a.user = call[r].user BY DEF Cancelable
      <3> QED BY <2>1, <3>1, <3>2
    <2>3. \A b \in appointments' : b.user = u => b \in appointments
      BY <1>3, <2>1, CanceledRows DEF UpdateCanceledAt, TypeOK
    <2> QED BY <2>2, <2>3 DEF RowsOf
  <1> QED BY <1>1, <1>2, <1>3, TableChanges

(* Once an account is gone and its requests are over, the user's            *)
(* appointments never change again.                                        *)
THEOREM DeadUsersAreFrozen == Spec => DeadUserFrozen
  <1>1. IInv /\ [Next]_vars =>
          [\A u \in User : (u \notin alive /\ ~InFlight(u)) => RowsOf(u)' = RowsOf(u)]_vars
    BY FrozenStep DEF IInv
  <1> QED BY IInvInvariant, <1>1, PTL DEF Spec, DeadUserFrozen
-----------------------------------------------------------------------------
(* The ledger's operators are this module's.                               *)
LEMMA LedgerOperators ==
  /\ Ledger!Call = Call /\ Ledger!NoCall = NoCall
  /\ \A rows, staff, s : Ledger!AvailableInspectors(rows, staff, s) = AvailableInspectors(rows, staff, s)
  /\ \A rows, c : Ledger!Cancelable(rows, c) = Cancelable(rows, c)
  /\ \A rows, c : Ledger!Canceled(rows, c) = Canceled(rows, c)
  BY DEF Call, CreateCall, CancelCall, DeleteCall, NoCall, AvailableInspectors, Occupied, Cancelable,
         Canceled, Ledger!Call, Ledger!CreateCall, Ledger!CancelCall, Ledger!DeleteCall, Ledger!NoCall,
         Ledger!AvailableInspectors, Ledger!Occupied, Ledger!Cancelable, Ledger!Canceled

(* The empty tables are the empty ledger.                                  *)
LEMMA LedgerInit == Init => Ledger!Init
  BY DEF Init, Ledger!Init, Admitted, Ledger!NoCall, NoCall

(* An open booking still finds its inspector free when it commits: by the   *)
(* unique index nobody else's live row has the slot and the inspector.     *)
LEMMA ChosenIsFree ==
  ASSUME IInv, NEW r \in Req, pc[r] = "Commit"
  PROVE  /\ chosen[r] \in AvailableInspectors(appointments, hired, call[r].slot)
         /\ OwnRows(r) = {NewRow(r)}
  <1>1. NewRow(r) \in uncommitted /\ ~NewRow(r).canceled /\ NewRow(r).id = r
        /\ NewRow(r).slot = call[r].slot /\ NewRow(r).inspector = chosen[r]
    BY NewRowType DEF IInv, OpenRows
  <1>2. ~Occupied(appointments, call[r].slot, chosen[r])
    <2> SUFFICES ASSUME NEW a \in appointments, a.slot = call[r].slot,
                        a.inspector = chosen[r], ~a.canceled
                 PROVE  FALSE
      BY DEF Occupied
    <2>1. a = NewRow(r) BY <1>1 DEF IInv, NoDoubleBooking
    <2> QED BY <1>1, <2>1 DEF IInv, CommittedRows
  <1>3. chosen[r] \in hired /\ InspectorAuthority[chosen[r]] = SlotAuthority[call[r].slot]
    BY DEF IInv, Control, HandlerControl
  <1>4. OwnRows(r) = {NewRow(r)} BY <1>1 DEF IInv, OpenRows, OwnRows
  <1> QED BY <1>2, <1>3, <1>4 DEF AvailableInspectors

(* Every step of a handler is a step of the ledger or leaves it alone.     *)
LEMMA LedgerStep ==
  ASSUME IInv, [Next]_vars
  PROVE  [Ledger!Next]_(Ledger!vars)
  <1> TypeOK /\ Control BY DEF IInv
  <1> USE DEF TypeOK, Goto, Return
  <1>0. ASSUME NEW r \in Req, pc[r] \notin {"idle", "done"}
        PROVE  call[r] # NoCall /\ reply[r] = "none" /\ HandlerControl(r)
    BY <1>0, CallFields DEF Control, HandlerControl
  <1>1. CASE UNCHANGED vars BY <1>1 DEF vars, Ledger!vars, Admitted
  <1>2. ASSUME NEW i \in Inspector, CreateInspectorUser(i) PROVE Ledger!Next
    <2>1. Ledger!Hire(i) BY <1>2 DEF CreateInspectorUser, Ledger!Hire, Admitted
    <2> QED BY <2>1 DEF Ledger!Next
  <1>3. ASSUME NEW r \in Req, NEW c \in Call, Arrive(r, c) PROVE Ledger!Next
    <2>1. Admitted' = Admitted BY <1>3 DEF Arrive, Admitted
    <2>2. call[r] = NoCall BY <1>3 DEF Arrive, Control, HandlerControl
    <2>3. Ledger!Ask(r, c) BY <1>3, <2>1, <2>2, LedgerOperators DEF Arrive, Ledger!Ask
    <2> QED BY <2>3, LedgerOperators DEF Ledger!Next
  <1>4. ASSUME NEW r \in Req, pc[r] \notin {"idle", "done"},
               UNCHANGED <<alive, hired, appointments, call>>,
               Return(r, IF pc[r] = "CheckAccountExists" THEN "unauthorized" ELSE "internal")
        PROVE  Ledger!Next
    <2>1. Admitted' = Admitted /\ (r \in Admitted <=> pc[r] # "CheckAccountExists")
      BY <1>0, <1>4 DEF Admitted
    <2>2. Ledger!Answer(r, IF r \in Admitted THEN {"internal"} ELSE {"unauthorized"})
      BY <1>4, <2>1 DEF Ledger!Answer
    <2>3. Ledger!Refuse(r)
      BY <1>0, <1>4, <2>1, <2>2, LedgerOperators DEF Ledger!Refuse
    <2> QED BY <2>3 DEF Ledger!Next
  <1>5. ASSUME NEW r \in Req, AuthorizeSession(r) PROVE Ledger!Next
    <2>1. CASE call[r].user \in alive
      <3>1. Admitted' = Admitted \cup {r} /\ r \notin Admitted
        BY <1>0, <1>5, <2>1 DEF AuthorizeSession, Admitted
      <3>2. Ledger!Grant(r)
        BY <1>0, <1>5, <2>1, <3>1, LedgerOperators DEF AuthorizeSession, Ledger!Grant
      <3> QED BY <3>2 DEF Ledger!Next
    <2>2. CASE call[r].user \notin alive BY <1>4, <1>5, <2>2 DEF AuthorizeSession
    <2> QED BY <2>1, <2>2
  <1>6. ASSUME NEW r \in Req, pc[r] \notin {"idle", "CheckAccountExists", "done"}, NEW l, Goto(r, l),
               l \notin {"idle", "CheckAccountExists"},
               UNCHANGED <<alive, hired, appointments, call, reply>>
        PROVE  UNCHANGED Ledger!vars
    BY <1>6 DEF Admitted, Ledger!vars
  <1>7. ASSUME NEW r \in Req, GetBusinessUser(r) PROVE [Ledger!Next]_(Ledger!vars)
    <2>1. CASE call[r].user \in alive BY <1>6, <1>7, <2>1 DEF GetBusinessUser
    <2>2. CASE call[r].user \notin alive BY <1>4, <1>7, <2>2 DEF GetBusinessUser
    <2> QED BY <2>1, <2>2
  <1>8. ASSUME NEW r \in Req, SelectInspectors(r) PROVE [Ledger!Next]_(Ledger!vars)
    <2> DEFINE available == AvailableInspectors(appointments, hired, call[r].slot)
    <2>1. CASE available # {} BY <1>6, <1>8, <2>1 DEF SelectInspectors
    <2>2. CASE available = {}
      <3>1. Admitted' = Admitted /\ r \in Admitted BY <1>0, <1>8, <2>2 DEF SelectInspectors, Admitted
      <3>2. Ledger!Pending(r, "create")
        BY <1>0, <1>8, <3>1 DEF SelectInspectors, Ledger!Pending, HandlerControl
      <3>3. Ledger!TurnDown(r)
        BY <1>8, <2>2, <3>1, <3>2, LedgerOperators DEF SelectInspectors, Ledger!TurnDown, Ledger!Answer
      <3> QED BY <3>3 DEF Ledger!Next
    <2> QED BY <2>1, <2>2
  <1>9. ASSUME NEW r \in Req, InsertAppointment(r) PROVE [Ledger!Next]_(Ledger!vars)
    <2>1. CASE Occupied(appointments, call[r].slot, chosen[r])
      BY <1>4, <1>9, <2>1 DEF InsertAppointment
    <2>2. CASE ~Occupied(appointments, call[r].slot, chosen[r])
      BY <1>6, <1>9, <2>2 DEF InsertAppointment
    <2> QED BY <2>1, <2>2
  <1>10. ASSUME NEW r \in Req, pc[r] \in {"Commit", "UpdateCanceledAt", "DeleteAccount"}, NEW answer,
                Return(r, answer), answer # "unauthorized"
         PROVE  Admitted' = Admitted /\ r \in Admitted
    BY <1>0, <1>10 DEF Admitted
  <1>11. ASSUME NEW r \in Req, Commit(r) PROVE Ledger!Next
    <2>1. /\ chosen[r] \in AvailableInspectors(appointments, hired, call[r].slot)
          /\ appointments' = appointments \cup {NewRow(r)}
      BY <1>11, ChosenIsFree DEF Commit
    <2>2. Admitted' = Admitted /\ r \in Admitted BY <1>10, <1>11 DEF Commit
    <2>3. Ledger!Pending(r, "create") /\ Ledger!Answer(r, {"ok", "internal"})
      BY <1>0, <1>11, <2>2 DEF Commit, Ledger!Pending, Ledger!Answer, HandlerControl
    <2>4. Ledger!Book(r)
      BY <1>11, <2>1, <2>2, <2>3, LedgerOperators DEF Commit, NewRow, Ledger!Book
    <2> QED BY <2>4 DEF Ledger!Next
  <1>12. ASSUME NEW r \in Req, UpdateCanceledAt(r) PROVE Ledger!Next
    <2>1. Admitted' = Admitted /\ r \in Admitted BY <1>10, <1>12 DEF UpdateCanceledAt
    <2>2. Ledger!Pending(r, "cancel")
      BY <1>0, <1>12, <2>1 DEF UpdateCanceledAt, Ledger!Pending, HandlerControl
    <2>3. Ledger!Answer(r, {"internal", IF Cancelable(appointments, call[r]) = {} THEN "notfound" ELSE "ok"})
      BY <1>12 DEF UpdateCanceledAt, Ledger!Answer
    <2>4. Ledger!Cancel(r)
      BY <1>12, <2>1, <2>2, <2>3, LedgerOperators DEF UpdateCanceledAt, Ledger!Cancel
    <2> QED BY <2>4 DEF Ledger!Next
  <1>13. ASSUME NEW r \in Req, DeleteAccount(r) PROVE Ledger!Next
    <2>1. Admitted' = Admitted /\ r \in Admitted BY <1>10, <1>13 DEF DeleteAccount
    <2>2. Ledger!Pending(r, "delete") /\ Ledger!Answer(r, {"ok", "internal"})
      BY <1>0, <1>13, <2>1 DEF DeleteAccount, Ledger!Pending, Ledger!Answer, HandlerControl
    <2>3. Ledger!Close(r) BY <1>13, <2>1, <2>2 DEF DeleteAccount, Ledger!Close
    <2> QED BY <2>3 DEF Ledger!Next
  <1>14. ASSUME NEW r \in Req, Fail(r) PROVE Ledger!Next
    BY <1>4, <1>14 DEF Fail
  <1> QED BY <1>1, <1>2, <1>3, <1>5, <1>7, <1>8, <1>9, <1>11, <1>12, <1>13, <1>14 DEF Next, Handle

(* The handlers' interleaved statements implement the atomic ledger.       *)
THEOREM Refinement == Spec => ImplementsLedger
  <1>1. IInv /\ [Next]_vars => [Ledger!Next]_(Ledger!vars) BY LedgerStep
  <1> QED BY IInvInvariant, LedgerInit, <1>1, PTL DEF Spec, ImplementsLedger, Ledger!Spec
-----------------------------------------------------------------------------
PoolTypeOK == conns \subseteq Req /\ lost \subseteq Req /\ up \subseteq Replica

(* A connection is kept by a request with an open transaction whose replica *)
(* has not stopped under it.                                               *)
Kept ==
  /\ conns = {r \in Req : OpenTx(r) /\ r \notin lost}
  /\ \A r \in lost : pc[r] # "idle"

(* Each pool hands out finitely many connections, at most its limit.       *)
Limit == \A n \in Replica : IsFiniteSet(InUse(n)) /\ Cardinality(InUse(n)) <= MaxOpenConns

PoolInv == PoolTypeOK /\ Kept /\ Limit
-----------------------------------------------------------------------------
(* What a replica does to the tables and to a request, Booking does.       *)
LEMMA StepIsBookingStep == [PooledNext]_pooledVars => [Next]_vars
  <1> SUFFICES ASSUME [PooledNext]_pooledVars PROVE [Next]_vars OBVIOUS
  <1>1. CASE UNCHANGED pooledVars BY <1>1 DEF pooledVars
  <1>2. ASSUME NEW i \in Inspector, CreateInspectorUser(i) PROVE Next BY <1>2 DEF Next
  <1>3. ASSUME NEW r \in Req, NEW c \in Call, ArriveAt(r, c) PROVE Next BY <1>3 DEF ArriveAt, Next
  <1>4. ASSUME NEW r \in Req, PooledHandle(r) PROVE Next
    BY <1>4 DEF PooledHandle, Statement, BeginTx, ContinueTx, Next, Handle
  <1>5. ASSUME NEW r \in Req, FailAt(r) PROVE Next BY <1>5 DEF FailAt, Next
  <1>6. ASSUME NEW r \in Req, Resolve(r) PROVE Next BY <1>6 DEF Resolve, Next, Handle
  <1>7. ASSUME NEW n \in Replica, StopReplica(n) \/ StartReplica(n) PROVE UNCHANGED vars
    BY <1>7 DEF StopReplica, StartReplica
  <1> QED BY <1>1, <1>2, <1>3, <1>4, <1>5, <1>6, <1>7 DEF PooledNext

(* Replicas, pools and restarts are invisible in the tables and replies:    *)
(* what holds of Booking holds of the deployment.                           *)
THEOREM PooledImplementsBooking == PooledSpec => Spec
  BY StepIsBookingStep, PTL DEF PooledSpec, PooledInit, Spec

(* However requests are spread over replicas that stop with transactions    *)
(* open, an inspector has at most one live appointment in a slot.           *)
THEOREM PooledNeverDoubleBooked == PooledSpec => []NoDoubleBooking
  BY PooledImplementsBooking, NeverDoubleBooked, PTL

(* A reply stays true of the tables, also when its replica is gone.         *)
THEOREM PooledRepliesTruthful == PooledSpec => []AnswersMatchTable
  BY PooledImplementsBooking, RepliesTruthful, PTL
-----------------------------------------------------------------------------
(* What the steps of Booking do to where its handlers are.                 *)
LEMMA HandlerMoves ==
  ASSUME TypeOK, NEW r \in Req
  PROVE  /\ AuthorizeSession(r) \/ GetBusinessUser(r) \/ UpdateCanceledAt(r) \/ DeleteAccount(r)
              => /\ ~OpenTx(r) /\ ~OpenTx(r)' /\ pc'[r] # "idle"
                 /\ \A q \in Req \ {r} : pc'[q] = pc[q]
         /\ SelectInspectors(r)
              => /\ ~OpenTx(r) /\ (OpenTx(r)' <=> pc'[r] # "done") /\ pc'[r] # "idle"
                 /\ \A q \in Req \ {r} : pc'[q] = pc[q]
         /\ InsertAppointment(r) \/ Commit(r)
              => /\ OpenTx(r) /\ (OpenTx(r)' <=> pc'[r] # "done") /\ pc'[r] # "idle"
                 /\ \A q \in Req \ {r} : pc'[q] = pc[q]
         /\ Fail(r) => pc'[r] = "done" /\ \A q \in Req \ {r} : pc'[q] = pc[q]
  <1>0. pc \in [Req -> PC] BY DEF TypeOK
  <1>1. AuthorizeSession(r) \/ GetBusinessUser(r) \/ UpdateCanceledAt(r) \/ DeleteAccount(r)
              => /\ ~OpenTx(r) /\ ~OpenTx(r)' /\ pc'[r] # "idle"
                 /\ \A q \in Req \ {r} : pc'[q] = pc[q]
    BY <1>0 DEF AuthorizeSession, GetBusinessUser, UpdateCanceledAt, DeleteAccount, Goto, Return, OpenTx
  <1>2. SelectInspectors(r)
              => /\ ~OpenTx(r) /\ (OpenTx(r)' <=> pc'[r] # "done") /\ pc'[r] # "idle"
                 /\ \A q \in Req \ {r} : pc'[q] = pc[q]
    BY <1>0 DEF SelectInspectors, Goto, Return, OpenTx
  <1>3. InsertAppointment(r) \/ Commit(r)
              => /\ OpenTx(r) /\ (OpenTx(r)' <=> pc'[r] # "done") /\ pc'[r] # "idle"
                 /\ \A q \in Req \ {r} : pc'[q] = pc[q]
    BY <1>0 DEF InsertAppointment, Commit, Goto, Return, OpenTx
  <1>4. Fail(r) => pc'[r] = "done" /\ \A q \in Req \ {r} : pc'[q] = pc[q]
    BY <1>0 DEF Fail, Goto, Return
  <1> QED BY <1>1, <1>2, <1>3, <1>4

LEMMA PoolTypeStep == PoolTypeOK /\ [PooledNext]_pooledVars => PoolTypeOK'
  BY DEF PoolTypeOK, PooledNext, pooledVars, poolVars, ArriveAt, PooledHandle, Statement, BeginTx,
         ContinueTx, FailAt, Resolve, StopReplica, StartReplica, InFlightOn

(* One request moves, and the connections with it.                          *)
LEMMA KeptMoves ==
  ASSUME PoolTypeOK, Kept, NEW r \in Req,
         \A q \in Req \ {r} : pc'[q] = pc[q],
         pc'[r] # "idle",
         lost' = lost,
         conns' \subseteq Req,
         conns' \ {r} = conns \ {r},
         r \in conns' <=> (OpenTx(r)' /\ r \notin lost)
  PROVE  Kept'
  <1>1. ASSUME NEW q \in Req PROVE q \in conns' <=> (OpenTx(q)' /\ q \notin lost)
    <2>1. CASE q = r BY <2>1
    <2>2. CASE q # r
      <3>1. OpenTx(q)' <=> OpenTx(q) BY <2>2 DEF OpenTx
      <3>2. q \in conns' <=> q \in conns BY <2>2
      <3> QED BY <3>1, <3>2 DEF Kept
    <2> QED BY <2>1, <2>2
  <1>2. \A q \in lost : pc'[q] # "idle" BY DEF Kept, PoolTypeOK
  <1>3. conns' = {q \in Req : OpenTx(q)' /\ q \notin lost} BY <1>1
  <1> QED BY <1>2, <1>3 DEF Kept

(* Connections follow transactions: one is taken where a transaction begins *)
(* and given back wherever it ends.                                         *)
LEMMA KeptStep == TypeOK /\ PoolTypeOK /\ Kept /\ [PooledNext]_pooledVars => Kept'
  <1> SUFFICES ASSUME TypeOK, PoolTypeOK, Kept, [PooledNext]_pooledVars PROVE Kept' OBVIOUS
  <1>0. pc \in [Req -> PC] BY DEF TypeOK
  <1>1. CASE UNCHANGED pooledVars BY <1>1 DEF pooledVars, poolVars, vars, Kept, OpenTx
  <1>2. ASSUME NEW i \in Inspector, CreateInspectorUser(i), UNCHANGED poolVars PROVE Kept'
    BY <1>2 DEF CreateInspectorUser, poolVars, Kept, OpenTx
  <1>3. ASSUME NEW r \in Req, NEW c \in Call, ArriveAt(r, c) PROVE Kept'
    BY <1>0, <1>3 DEF ArriveAt, Arrive, Goto, poolVars, Kept, OpenTx, PC
  <1>4. ASSUME NEW r \in Req, Statement(r) PROVE Kept'
    <2>1. /\ ~OpenTx(r) /\ ~OpenTx(r)' /\ pc'[r] # "idle"
          /\ \A q \in Req \ {r} : pc'[q] = pc[q]
      BY <1>4, HandlerMoves DEF Statement
    <2>2. lost' = lost /\ conns' = conns BY <1>4 DEF Statement, poolVars
    <2>3. r \notin conns BY <2>1 DEF Kept
    <2> QED BY <2>1, <2>2, <2>3, KeptMoves DEF PoolTypeOK
  <1>5. ASSUME NEW r \in Req, BeginTx(r) PROVE Kept'
    <2>1. /\ ~OpenTx(r) /\ (OpenTx(r)' <=> pc'[r] # "done") /\ pc'[r] # "idle"
          /\ \A q \in Req \ {r} : pc'[q] = pc[q]
      BY <1>5, HandlerMoves DEF BeginTx
    <2>2. /\ r \notin lost /\ lost' = lost
          /\ conns' = IF pc'[r] = "done" THEN conns ELSE conns \cup {r}
      BY <1>5 DEF BeginTx, Runs
    <2>3. r \notin conns BY <2>1 DEF Kept
    <2> QED BY <2>1, <2>2, <2>3, KeptMoves DEF PoolTypeOK
  <1>6. ASSUME NEW r \in Req, ContinueTx(r) PROVE Kept'
    <2>1. /\ (OpenTx(r)' <=> pc'[r] # "done") /\ pc'[r] # "idle"
          /\ \A q \in Req \ {r} : pc'[q] = pc[q]
      BY <1>6, HandlerMoves DEF ContinueTx
    <2>2. /\ r \notin lost /\ lost' = lost /\ r \in conns
          /\ conns' = IF pc'[r] = "done" THEN conns \ {r} ELSE conns
      BY <1>6 DEF ContinueTx, Runs
    <2> QED BY <2>1, <2>2, KeptMoves DEF PoolTypeOK
  <1>7. ASSUME NEW r \in Req, FailAt(r) PROVE Kept'
    <2>1. pc'[r] = "done" /\ \A q \in Req \ {r} : pc'[q] = pc[q]
      BY <1>7, HandlerMoves DEF FailAt
    <2>2. lost' = lost /\ conns' = conns \ {r} BY <1>7 DEF FailAt
    <2>3. ~OpenTx(r)' BY <2>1 DEF OpenTx
    <2> QED BY <2>1, <2>2, <2>3, KeptMoves DEF PoolTypeOK
  <1>8. ASSUME NEW r \in Req, Resolve(r) PROVE Kept'
    <2>1. pc'[r] # "idle" /\ \A q \in Req \ {r} : pc'[q] = pc[q]
      BY <1>8, HandlerMoves DEF Resolve
    <2>2. r \in lost /\ lost' = lost /\ conns' = conns BY <1>8 DEF Resolve, poolVars
    <2>3. r \notin conns BY <2>2 DEF Kept
    <2> QED BY <2>1, <2>2, <2>3, KeptMoves DEF PoolTypeOK
  <1>9. ASSUME NEW n \in Replica, StopReplica(n) PROVE Kept'
    BY <1>9 DEF StopReplica, vars, InFlightOn, InUse, Kept, OpenTx, PoolTypeOK
  <1>10. ASSUME NEW n \in Replica, StartReplica(n) PROVE Kept'
    BY <1>10 DEF StartReplica, vars, Kept, OpenTx
  <1> QED BY <1>1, <1>2, <1>3, <1>4, <1>5, <1>6, <1>7, <1>8, <1>9, <1>10 DEF PooledNext, PooledHandle

(* Fewer connections of a pool are no more.                                *)
LEMMA LimitShrinks == Limit /\ conns' \subseteq conns => Limit'
  <1> SUFFICES ASSUME Limit, conns' \subseteq conns, NEW n \in Replica
               PROVE  IsFiniteSet(InUse(n)') /\ Cardinality(InUse(n)') <= MaxOpenConns
    BY DEF Limit
  <1>1. InUse(n)' \subseteq InUse(n) BY DEF InUse
  <1>2. IsFiniteSet(InUse(n)) /\ Cardinality(InUse(n)) <= MaxOpenConns BY DEF Limit
  <1>3. /\ IsFiniteSet(InUse(n)') /\ Cardinality(InUse(n)') <= Cardinality(InUse(n))
        /\ Cardinality(InUse(n)') \in Nat /\ Cardinality(InUse(n)) \in Nat
    BY <1>1, <1>2, FS_Subset, FS_CardinalityType
  <1> QED BY <1>2, <1>3, MaxOpenConnsAssumption

(* Only a transaction that begins takes a connection, and only a free one. *)
LEMMA LimitStep == PoolTypeOK /\ Limit /\ [PooledNext]_pooledVars => Limit'
  <1> SUFFICES ASSUME PoolTypeOK, Limit, [PooledNext]_pooledVars PROVE Limit' OBVIOUS
  <1>1. ASSUME NEW r \in Req, BeginTx(r) PROVE Limit'
    <2>1. CASE conns' = conns BY <2>1, LimitShrinks
    <2>2. CASE conns' = conns \cup {r}
      <3> SUFFICES ASSUME NEW n \in Replica
                   PROVE  IsFiniteSet(InUse(n)') /\ Cardinality(InUse(n)') <= MaxOpenConns
        BY DEF Limit
      <3>1. IsFiniteSet(InUse(n)) /\ Cardinality(InUse(n)) <= MaxOpenConns BY DEF Limit
      <3>2. CASE ReplicaOf[r] # n
        <4>1. InUse(n)' = InUse(n) BY <2>2, <3>2 DEF InUse
        <4> QED BY <3>1, <4>1
      <3>3. CASE ReplicaOf[r] = n
        <4>1. InUse(n)' = InUse(n) \cup {r} BY <2>2, <3>3 DEF InUse
        <4>2. Cardinality(InUse(n)) < MaxOpenConns BY <1>1, <3>3 DEF BeginTx, Free
        <4>3. /\ IsFiniteSet(InUse(n) \cup {r})
              /\ \/ Cardinality(InUse(n) \cup {r}) = Cardinality(InUse(n))
                 \/ Cardinality(InUse(n) \cup {r}) = Cardinality(InUse(n)) + 1
          BY <3>1, FS_AddElement
        <4>4. Cardinality(InUse(n)) \in Nat BY <3>1, FS_CardinalityType
        <4> QED BY <4>1, <4>2, <4>3, <4>4, MaxOpenConnsAssumption
      <3> QED BY <3>2, <3>3
    <2> QED BY <1>1, <2>1, <2>2 DEF BeginTx
  <1>2. CASE \A r \in Req : ~BeginTx(r)
    <2>1. conns' \subseteq conns
      BY <1>2 DEF PooledNext, pooledVars, poolVars, ArriveAt, PooledHandle, Statement, ContinueTx,
                  FailAt, Resolve, StopReplica, StartReplica
    <2> QED BY <2>1, LimitShrinks
  <1> QED BY <1>1, <1>2

LEMMA InitPoolInv == PooledInit => PoolInv
  <1> SUFFICES ASSUME PooledInit PROVE PoolInv OBVIOUS
  <1>1. PoolTypeOK /\ Kept BY DEF PooledInit, Init, PoolTypeOK, Kept, OpenTx
  <1>2. \A n \in Replica : InUse(n) = {} BY DEF PooledInit, InUse
  <1>3. IsFiniteSet({}) /\ Cardinality({}) = 0 BY FS_EmptySet
  <1>4. Limit BY <1>2, <1>3, MaxOpenConnsAssumption DEF Limit
  <1> QED BY <1>1, <1>4 DEF PoolInv

LEMMA PoolInvariant == PooledSpec => []PoolInv
  <1>1. PooledSpec => []IInv BY PooledImplementsBooking, IInvInvariant, PTL
  <1>2. IInv /\ PoolInv /\ [PooledNext]_pooledVars => PoolInv'
    BY PoolTypeStep, KeptStep, LimitStep DEF IInv, PoolInv
  <1> QED BY <1>1, <1>2, InitPoolInv, PTL DEF PooledSpec

(* Pools and transactions agree in every reachable state: no early return,  *)
(* error, rollback or stop loses a connection, no pool exceeds its limit,   *)
(* and an open row has a request behind it that will end it.                *)
THEOREM PoolsKept == PooledSpec => []PoolKept
  <1>1. PooledSpec => []IInv BY PooledImplementsBooking, IInvInvariant, PTL
  <1>2. IInv /\ PoolInv => PoolKept
    <2> SUFFICES ASSUME IInv, PoolInv PROVE PoolKept OBVIOUS
    <2>1. ASSUME NEW a \in uncommitted PROVE a.id \in conns \cup lost
      <3>1. a.id \in Req BY DEF IInv, TypeOK, Appointment
      <3>2. pc[a.id] = "Commit" BY DEF IInv, OpenRows
      <3> QED BY <3>1, <3>2 DEF PoolInv, Kept, OpenTx
    <2> QED BY <2>1 DEF PoolKept, PoolInv, Kept, Limit
  <1> QED BY <1>1, <1>2, PoolInvariant, PTL

(* Locks are taken in one order in every reachable state: a request that    *)
(* waits for a connection or a row waits, in the end, for one that is about *)
(* to commit and waits for nobody, so no set of requests is deadlocked,     *)
(* however many there are and however small the pools.                      *)
THEOREM RequestsNeverWaitInCircles == PooledSpec => []NoCircularWait
  <1>1. PooledSpec => []IInv BY PooledImplementsBooking, IInvInvariant, PTL
  <1>2. IInv /\ PoolInv => NoCircularWait
    <2> SUFFICES ASSUME IInv, PoolInv, NEW G \in SUBSET Req,
                        \A r \in G : pc[r] = "done" \/ WaitsWithin(r, G)
                 PROVE  \A r \in G : pc[r] = "done"
      BY DEF NoCircularWait
    <2>1. ASSUME NEW r \in G PROVE ~OpenTx(r)
      <3>1. pc[r] # "Commit" BY DEF WaitsWithin, WaitsForConn, OpenTx
      <3>2. ASSUME pc[r] = "InsertAppointment" PROVE FALSE
        <4>1. PICK q \in G : Occupied(OwnRows(q), call[r].slot, chosen[r])
          BY <3>2 DEF WaitsWithin, WaitsForConn, OpenTx
        <4>2. PICK a \in uncommitted : a.id = q BY <4>1 DEF Occupied, OwnRows
        <4>3. pc[q] = "Commit" BY <4>2 DEF IInv, OpenRows
        <4> QED BY <4>3 DEF WaitsWithin, WaitsForConn, OpenTx
      <3> QED BY <3>1, <3>2 DEF OpenTx
    <2>2. ASSUME NEW r \in G, WaitsForConn(r), InUse(ReplicaOf[r]) \subseteq G PROVE FALSE
      <3> DEFINE n == ReplicaOf[r]
      <3>1. n \in Replica /\ ~(Cardinality(InUse(n)) < MaxOpenConns)
        BY <2>2, ReplicaAssumption DEF WaitsForConn, Free
      <3>2. PICK q \in InUse(n) : TRUE
        <4>1. InUse(n) # {} BY <3>1, FS_EmptySet, MaxOpenConnsAssumption
        <4> QED BY <4>1
      <3>3. OpenTx(q) BY <3>2 DEF InUse, PoolInv, Kept
      <3> QED BY <2>1, <2>2, <3>2, <3>3
    <2>3. ASSUME NEW r \in G, WaitsWithin(r, G) PROVE FALSE
      BY <2>1, <2>2, <2>3 DEF WaitsWithin, OpenTx
    <2> QED BY <2>3
  <1> QED BY <1>1, <1>2, PoolInvariant, PTL

(* Replicas that stop with transactions open, whose commits may still be     *)
(* carried out, forget no consultation, undo no cancelation and cancel for  *)
(* nobody else.                                                             *)
THEOREM PooledHistorySafe == PooledSpec => HistoryKept
  BY PooledImplementsBooking, HistorySafe, PTL

(* Neither do they touch the appointments of a user whose account and       *)
(* admitted requests were over before.                                      *)
THEOREM PooledDeadUsersAreFrozen == PooledSpec => DeadUserFrozen
  BY PooledImplementsBooking, DeadUsersAreFrozen, PTL

(* Replicas with pools of any size, stopped and started at any point,       *)
(* implement the ledger of atomic, truthfully answered requests.            *)
THEOREM PooledRefinement == PooledSpec => ImplementsLedger
  BY PooledImplementsBooking, Refinement, PTL
=============================================================================
