------------------------- MODULE AppointmentLedger -------------------------
(***************************************************************************)
(* What the consultation service promises, without the steps of its         *)
(* handlers: a ledger of appointments that each request changes at most     *)
(* once, in one atomic step, together with its answer.                      *)
(***************************************************************************)
EXTENDS Consultations

VARIABLES
  alive,    \* users with an account
  staff,    \* registered inspectors
  ledger,   \* all appointments ever made
  asked,    \* what each request asks for
  granted,  \* requests admitted while their user's account existed
  answer    \* what each request was answered

vars == <<alive, staff, ledger, asked, granted, answer>>

Init ==
  /\ alive = User
  /\ staff = {}
  /\ ledger = {}
  /\ asked = [r \in Req |-> NoCall]
  /\ granted = {}
  /\ answer = [r \in Req |-> "none"]

Ask(r, c) ==
  /\ asked[r] = NoCall
  /\ asked' = [asked EXCEPT ![r] = c]
  /\ UNCHANGED <<alive, staff, ledger, granted, answer>>

Hire(i) ==
  /\ i \notin staff
  /\ staff' = staff \cup {i}
  /\ UNCHANGED <<alive, ledger, asked, granted, answer>>

(* Only a request whose account exists is admitted.                        *)
Grant(r) ==
  /\ asked[r] # NoCall /\ answer[r] = "none" /\ r \notin granted
  /\ asked[r].user \in alive
  /\ granted' = granted \cup {r}
  /\ UNCHANGED <<alive, staff, ledger, asked, answer>>

Pending(r, op) == r \in granted /\ answer[r] = "none" /\ asked[r].op = op
Answer(r, answers) == \E a \in answers : answer' = [answer EXCEPT ![r] = a]

(* Turned away: never admitted, or an admitted request that failed without  *)
(* any effect.                                                              *)
Refuse(r) ==
  /\ asked[r] # NoCall /\ answer[r] = "none"
  /\ Answer(r, IF r \in granted THEN {"internal"} ELSE {"unauthorized"})
  /\ UNCHANGED <<alive, staff, ledger, asked, granted>>

(* An appointment with an inspector who is free in the slot now. An error   *)
(* answer leaves open whether the appointment was made.                     *)
Book(r) ==
  /\ Pending(r, "create")
  /\ \E i \in AvailableInspectors(ledger, staff, asked[r].slot) :
       ledger' = ledger \cup {[id |-> r, user |-> asked[r].user, slot |-> asked[r].slot,
                               inspector |-> i, canceled |-> FALSE]}
  /\ Answer(r, {"ok", "internal"})
  /\ UNCHANGED <<alive, staff, asked, granted>>

(* "Slot taken" is said only when nobody is free in it.                    *)
TurnDown(r) ==
  /\ Pending(r, "create")
  /\ AvailableInspectors(ledger, staff, asked[r].slot) = {}
  /\ Answer(r, {"taken"})
  /\ UNCHANGED <<alive, staff, ledger, asked, granted>>

Cancel(r) ==
  /\ Pending(r, "cancel")
  /\ ledger' = Canceled(ledger, asked[r])
  /\ Answer(r, {"internal", IF Cancelable(ledger, asked[r]) = {} THEN "notfound" ELSE "ok"})
  /\ UNCHANGED <<alive, staff, asked, granted>>

Close(r) ==
  /\ Pending(r, "delete")
  /\ alive' = alive \ {asked[r].user}
  /\ Answer(r, {"ok", "internal"})
  /\ UNCHANGED <<staff, ledger, asked, granted>>

Next ==
  \/ \E i \in Inspector : Hire(i)
  \/ \E r \in Req :
       \/ \E c \in Call : Ask(r, c)
       \/ Grant(r)
       \/ Refuse(r)
       \/ Book(r)
       \/ TurnDown(r)
       \/ Cancel(r)
       \/ Close(r)

Spec == Init /\ [][Next]_vars
=============================================================================
