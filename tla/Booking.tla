------------------------------ MODULE Booking ------------------------------
(***************************************************************************)
(* Booking, canceling and account deletion as the API server runs them:    *)
(* every request is a goroutine of one of the replicas, its handler issues *)
(* one SQL statement after another, and statements of different requests   *)
(* interleave.  A statement sees the committed rows only (READ COMMITTED,  *)
(* the default of the empty sql.TxOptions); the booking transaction holds  *)
(* an uncommitted row between its insert and its commit.                   *)
(***************************************************************************)
EXTENDS Consultations

CONSTANT FaultyReq     \* requests whose database calls may fail

ASSUME FaultyAssumption == FaultyReq \subseteq Req

VARIABLES
  alive,         \* users whose account row exists and whose business_user row links to it
  hired,         \* committed rows of inspector_user
  appointments,  \* committed rows of consultation_appointment
  uncommitted,   \* rows inserted by transactions that are still open
  pc,            \* the next database call of each request's handler
  call,          \* the request's session user and arguments
  chosen,        \* chosenInspector of the booking transaction
  reply          \* what the handler returned

vars == <<alive, hired, appointments, uncommitted, pc, call, chosen, reply>>

PC == {"idle", "CheckAccountExists", "GetBusinessUser", "SelectInspectors",
       "InsertAppointment", "Commit", "UpdateCanceledAt", "DeleteAccount", "done"}

TypeOK ==
  /\ alive \subseteq User
  /\ hired \subseteq Inspector
  /\ appointments \subseteq Appointment
  /\ uncommitted \subseteq Appointment
  /\ pc \in [Req -> PC]
  /\ call \in [Req -> Call \cup {NoCall}]
  /\ chosen \in [Req -> Inspector \cup {None}]
  /\ reply \in [Req -> Answers]

Init ==
  /\ alive = User
  /\ hired = {}
  /\ appointments = {}
  /\ uncommitted = {}
  /\ pc = [r \in Req |-> "idle"]
  /\ call = [r \in Req |-> NoCall]
  /\ chosen = [r \in Req |-> None]
  /\ reply = [r \in Req |-> "none"]

Goto(r, l) == pc' = [pc EXCEPT ![r] = l]
Return(r, answer) == Goto(r, "done") /\ reply' = [reply EXCEPT ![r] = answer]

(* A client with the session token of c.user sends a request; tokens never  *)
(* expire, so the account may be gone by now.                               *)
Arrive(r, c) ==
  /\ pc[r] = "idle"
  /\ call' = [call EXCEPT ![r] = c]
  /\ Goto(r, "CheckAccountExists")
  /\ UNCHANGED <<alive, hired, appointments, uncommitted, chosen, reply>>

(* The administrator registers an inspector (one transaction).             *)
CreateInspectorUser(i) ==
  /\ i \notin hired
  /\ hired' = hired \cup {i}
  /\ UNCHANGED <<alive, appointments, uncommitted, pc, call, chosen, reply>>

(* Mutant: the token alone is enough.                                      *)
AuthorizeSessionByToken(r) ==
  /\ pc[r] = "CheckAccountExists"
  /\ Goto(r, IF call[r].op = "delete" THEN "DeleteAccount" ELSE "GetBusinessUser")
  /\ UNCHANGED <<alive, hired, appointments, uncommitted, call, chosen, reply>>

(* authorizeSession: the token is honoured while its account exists.       *)
AuthorizeSession(r) ==
  /\ pc[r] = "CheckAccountExists"
  /\ \/ /\ call[r].user \in alive
        /\ Goto(r, IF call[r].op = "delete" THEN "DeleteAccount" ELSE "GetBusinessUser")
        /\ UNCHANGED reply
     \/ /\ call[r].user \notin alive
        /\ Return(r, "unauthorized")
  /\ UNCHANGED <<alive, hired, appointments, uncommitted, call, chosen>>

(* The business_user row is looked up by account id; a deletion that was    *)
(* committed in the meantime has cleared the link.                          *)
GetBusinessUser(r) ==
  /\ pc[r] = "GetBusinessUser"
  /\ \/ /\ call[r].user \in alive
        /\ Goto(r, IF call[r].op = "create" THEN "SelectInspectors" ELSE "UpdateCanceledAt")
        /\ UNCHANGED reply
     \/ /\ call[r].user \notin alive
        /\ Return(r, "internal")
  /\ UNCHANGED <<alive, hired, appointments, uncommitted, call, chosen>>

(* Mutant: no check for an empty selection; the zero inspector is inserted. *)
SelectInspectorsUnchecked(r) ==
  LET available == AvailableInspectors(appointments, hired, call[r].slot)
  IN /\ pc[r] = "SelectInspectors"
     /\ \E i \in IF available = {} THEN {None} ELSE available : chosen' = [chosen EXCEPT ![r] = i]
     /\ Goto(r, "InsertAppointment")
     /\ UNCHANGED <<alive, hired, appointments, uncommitted, call, reply>>

(* First statement of the booking transaction: select the available         *)
(* inspectors, pick one at random; without any, roll back.                  *)
SelectInspectors(r) ==
  LET available == AvailableInspectors(appointments, hired, call[r].slot)
  IN /\ pc[r] = "SelectInspectors"
     /\ \/ /\ \E i \in available : chosen' = [chosen EXCEPT ![r] = i]
           /\ Goto(r, "InsertAppointment")
           /\ UNCHANGED reply
        \/ /\ available = {}
           /\ Return(r, "taken")
           /\ UNCHANGED chosen
     /\ UNCHANGED <<alive, hired, appointments, uncommitted, call>>

NewRow(r) == [id |-> r, user |-> call[r].user, slot |-> call[r].slot,
              inspector |-> chosen[r], canceled |-> FALSE]

(* Mutant: no unique index, only a check of the committed rows.             *)
InsertAppointmentNoIndex(r) ==
  /\ pc[r] = "InsertAppointment"
  /\ ~Occupied(appointments, call[r].slot, chosen[r])
  /\ uncommitted' = uncommitted \cup {NewRow(r)}
  /\ Goto(r, "Commit")
  /\ UNCHANGED <<alive, hired, appointments, call, chosen, reply>>

(* Second statement. The unique index makes the insert wait for an open     *)
(* transaction that holds the same key; a committed live row is a unique    *)
(* violation, which rolls back and surfaces as an internal error.           *)
InsertAppointment(r) ==
  /\ pc[r] = "InsertAppointment"
  /\ ~Occupied(uncommitted, call[r].slot, chosen[r])
  /\ \/ /\ ~Occupied(appointments, call[r].slot, chosen[r])
        /\ uncommitted' = uncommitted \cup {NewRow(r)}
        /\ Goto(r, "Commit")
        /\ UNCHANGED <<chosen, reply>>
     \/ /\ Occupied(appointments, call[r].slot, chosen[r])
        /\ Return(r, "internal")
        /\ chosen' = [chosen EXCEPT ![r] = None]
        /\ UNCHANGED uncommitted
  /\ UNCHANGED <<alive, hired, appointments, call>>

OwnRows(r) == {a \in uncommitted : a.id = r}

(* The commit makes the row visible. When its acknowledgement is lost the   *)
(* handler reports an error although the row is there.                      *)
Commit(r) ==
  /\ pc[r] = "Commit"
  /\ appointments' = appointments \cup OwnRows(r)
  /\ uncommitted' = uncommitted \ OwnRows(r)
  /\ \/ /\ Return(r, "ok")
        /\ UNCHANGED chosen
     \/ /\ r \in FaultyReq
        /\ Return(r, "internal")
        /\ chosen' = [chosen EXCEPT ![r] = None]
  /\ UNCHANGED <<alive, hired, call>>

(* Mutant: RowsAffected is not looked at.                                   *)
UpdateCanceledAtBlind(r) ==
  /\ pc[r] = "UpdateCanceledAt"
  /\ appointments' = Canceled(appointments, call[r])
  /\ Return(r, "ok")
  /\ UNCHANGED <<alive, hired, uncommitted, call, chosen>>

(* One UPDATE labels the row canceled, a second time too, or reports that   *)
(* no row of this user has the id.                                          *)
UpdateCanceledAt(r) ==
  /\ pc[r] = "UpdateCanceledAt"
  /\ appointments' = Canceled(appointments, call[r])
  /\ \/ Return(r, IF Cancelable(appointments, call[r]) = {} THEN "notfound" ELSE "ok")
     \/ r \in FaultyReq /\ Return(r, "internal")
  /\ UNCHANGED <<alive, hired, uncommitted, call, chosen>>

(* Mutant: the user's consultations are deleted with the account.           *)
DeleteAccountCascade(r) ==
  /\ pc[r] = "DeleteAccount"
  /\ alive' = alive \ {call[r].user}
  /\ appointments' = {a \in appointments : a.user # call[r].user}
  /\ Return(r, "ok")
  /\ UNCHANGED <<hired, uncommitted, call, chosen>>

(* The deletion transaction unlinks the business_user row and deletes the   *)
(* account; other requests see both at its commit.                          *)
DeleteAccount(r) ==
  /\ pc[r] = "DeleteAccount"
  /\ alive' = alive \ {call[r].user}
  /\ \/ Return(r, "ok")
     \/ r \in FaultyReq /\ Return(r, "internal")
  /\ UNCHANGED <<hired, appointments, uncommitted, call, chosen>>

(* Mutant: the transaction is left open when a statement fails.             *)
FailNoRollback(r) ==
  /\ r \in FaultyReq
  /\ pc[r] \notin {"idle", "done"}
  /\ Return(r, "internal")
  /\ UNCHANGED <<alive, hired, appointments, uncommitted, call, chosen>>

(* A statement fails without effect: the connection breaks, the client goes *)
(* away and its context is canceled, or the replica stops. An open          *)
(* transaction is rolled back.                                              *)
Fail(r) ==
  /\ r \in FaultyReq
  /\ pc[r] \notin {"idle", "done"}
  /\ uncommitted' = uncommitted \ OwnRows(r)
  /\ chosen' = [chosen EXCEPT ![r] = None]
  /\ Return(r, IF pc[r] = "CheckAccountExists" THEN "unauthorized" ELSE "internal")
  /\ UNCHANGED <<alive, hired, appointments, call>>

Handle(r) ==
  \/ AuthorizeSession(r)
  \/ GetBusinessUser(r)
  \/ SelectInspectors(r)
  \/ InsertAppointment(r)
  \/ Commit(r)
  \/ UpdateCanceledAt(r)
  \/ DeleteAccount(r)

Next ==
  \/ \E i \in Inspector : CreateInspectorUser(i)
  \/ \E r \in Req :
       \/ \E c \in Call : Arrive(r, c)
       \/ Handle(r)
       \/ Fail(r)

Spec == Init /\ [][Next]_vars

-----------------------------------------------------------------------------
(* Nobody is in two places: for one slot an inspector has at most one live  *)
(* appointment, counting rows whose transaction has yet to commit           *)
(* (select-then-insert of concurrent bookings, cancelation in between).     *)
NoDoubleBooking ==
  \A a, b \in appointments \cup uncommitted :
    (a.slot = b.slot /\ a.inspector = b.inspector /\ ~a.canceled /\ ~b.canceled) => a = b

(* Replies tell the truth about the table: a booking answered ok has its    *)
(* row, with the inspector named to the user; one answered taken or         *)
(* unauthorized has none; a cancelation answered ok stays canceled; after   *)
(* a deletion answered ok the account is gone; a request that was answered  *)
(* leaves no transaction open.                                              *)
BookingAnswered(r) ==
  /\ reply[r] = "ok" =>
       \E a \in appointments : /\ a.id = r
                               /\ a.user = call[r].user
                               /\ a.slot = call[r].slot
                               /\ a.inspector = chosen[r]
  /\ reply[r] \in {"taken", "unauthorized"} => \A a \in appointments : a.id # r

CancelationAnswered(r) ==
  reply[r] = "ok" => \E a \in appointments : a.id = call[r].appt /\ a.user = call[r].user /\ a.canceled

AnswersMatchTable ==
  \A r \in Req :
    /\ call[r].op = "create" => BookingAnswered(r)
    /\ call[r].op = "cancel" => CancelationAnswered(r)
    /\ call[r].op = "delete" /\ reply[r] = "ok" => call[r].user \notin alive
    /\ pc[r] = "done" => OwnRows(r) = {}

(* A deleted account acts no more: once the account is gone and the         *)
(* requests that were authorized before are over, the user's appointments   *)
(* stay as they are, whatever tokens are still around.                      *)
InFlight(u) == \E r \in Req : pc[r] \notin {"idle", "CheckAccountExists", "done"} /\ call[r].user = u
RowsOf(u) == {a \in appointments : a.user = u}

DeadUserFrozen ==
  [][\A u \in User : (u \notin alive /\ ~InFlight(u)) => RowsOf(u)' = RowsOf(u)]_vars

(* Consultations are never forgotten: a step of any request, the deletion   *)
(* of an account included, keeps every row with its parties, and undoes no  *)
(* cancelation; only a request of the owner cancels.                        *)
Owned(r, a) == call[r].op = "cancel" /\ call[r].user = a.user /\ pc[r] = "UpdateCanceledAt"

HistoryKept ==
  [][\A a \in appointments :
       \/ a \in appointments'
       \/ /\ [a EXCEPT !.canceled = TRUE] \in appointments'
          /\ \E r \in Req : Owned(r, a)]_vars

(* The interleaved statements of the handlers add up to a ledger that       *)
(* changes in atomic steps: an appointment is made when its transaction     *)
(* commits, with an inspector who is free at that moment, for a request     *)
(* that was admitted while its account existed.                             *)
Admitted == {r \in Req : pc[r] \notin {"idle", "CheckAccountExists"} /\ reply[r] # "unauthorized"}

Ledger == INSTANCE AppointmentLedger
            WITH ledger <- appointments, staff <- hired, asked <- call,
                 granted <- Admitted, answer <- reply

ImplementsLedger == Ledger!Spec

(* Every request is answered: no two bookings wait for each other's rows.  *)
EveryRequestAnswered == \A r \in Req : pc[r] # "idle" ~> pc[r] = "done"

(* consultations.go:68-69: an appointment is created "with a random         *)
(* available inspector": a booking that is turned down at its insert finds  *)
(* no inspector available.                                                  *)
AvailableInspectorIsBooked ==
  [][\A r \in Req :
       pc[r] = "InsertAppointment" /\ pc'[r] = "done" =>
         AvailableInspectors(appointments, hired, call[r].slot) = {}]_vars
=============================================================================
