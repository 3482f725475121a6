------------------------------ MODULE Listings ------------------------------
(***************************************************************************)
(* What a client sees of the consultations while others book, cancel and   *)
(* leave: the listings of dates, of slots and of appointments, and a       *)
(* client that fills in its requests from them (app.proto: "using the      *)
(* information received via prior requests").  Bookings, cancelations and  *)
(* deletions are the atomic steps of AppointmentLedger, which Booking      *)
(* implements; a listing checks the account and then reads, with the other *)
(* requests in between.                                                    *)
(***************************************************************************)
EXTENDS Consultations, Integers, SequencesExt

CONSTANTS
  Authority,
  Topic, TopicAuthority,   \* authority_consultation_topic
  Start, End,              \* from_time and to_time of each slot, in hours
  DayLength,               \* hours of a day
  Zone,                    \* offset of the database session's time zone from UTC
  Horizon,                 \* bound on the clock
  Period,                  \* the <<from_date, to_date>> clients ask for
  Look                     \* listing requests

ASSUME TimeAssumption ==
  /\ DayLength \in Nat \ {0} /\ Zone \in Int /\ Horizon \in Nat
  /\ Start \in [Slot -> Nat] /\ End \in [Slot -> Nat]
  /\ Period \subseteq Nat \X Nat
ASSUME SlotAssumption == IsFiniteSet(Slot)
ASSUME TopicAssumption == TopicAuthority \in [Topic -> Authority]

VARIABLES
  alive, staff, ledger, asked, granted, answer,  \* as in AppointmentLedger
  now,      \* the database's clock
  basis,    \* the topic and the slot listing each booking was filled in from
  state,    \* how far each listing is
  query,    \* what it asks for
  page,     \* the list it was answered with
  before,   \* the appointments there were at that moment
  at        \* and the time it was

L == INSTANCE AppointmentLedger

ledgerVars == <<alive, staff, ledger, asked, granted, answer>>
lookVars == <<state, query, page, before, at>>
vars == <<ledgerVars, now, basis, lookVars>>

Time == 0 .. Horizon
Dates  == [op : {"dates"}, user : User, authority : Authority, range : Period]
Slots  == [op : {"slots"}, user : User, authority : Authority, date : Nat, dates : Look]
Mine   == [op : {"mine"}, user : User]
Visits == [op : {"visits"}, inspector : Inspector]
Query  == Dates \cup Slots \cup Mine \cup Visits

TypeOK ==
  /\ ledger \subseteq Appointment
  /\ now \in Time
  /\ \A r \in Req : basis[r] = <<>> \/ basis[r] \in Topic \X Look
  /\ state \in [Look -> {"idle", "authorized", "shown", "refused"}]
  /\ \A l \in Look :
       /\ state[l] # "idle" => query[l] \in Query
       /\ state[l] = "shown" =>
            page[l] \in Seq(CASE query[l].op = "dates" -> [date : Nat]
                              [] query[l].op = "slots" -> [slot : Slot]
                              [] OTHER -> [id : Req, canceled : BOOLEAN])
  /\ before \in [Look -> SUBSET Req]
  /\ at \in [Look -> Time]

Init ==
  /\ L!Init
  /\ now = 0
  /\ basis = [r \in Req |-> <<>>]
  /\ state = [l \in Look |-> "idle"]
  /\ query = [l \in Look |-> NoCall]
  /\ page = [l \in Look |-> <<>>]
  /\ before = [l \in Look |-> {}]
  /\ at = [l \in Look |-> 0]

(* timestamptz::date is a date in the session's zone; the date of a          *)
(* parameter, which the driver writes in UTC, is the date that is written.  *)
DbDate(t) == (t + Zone) \div DayLength
ArgDate(t) == t \div DayLength

(* Mutant: slots of every authority.                                        *)
FreeRowsOfAll(a) ==
  {x \in Slot \X staff : /\ InspectorAuthority[x[2]] = SlotAuthority[x[1]]
                         /\ Start[x[1]] > now
                         /\ ~Occupied(ledger, x[1], x[2])}

(* Mutant: occupied slots are listed too.                                   *)
FreeRowsUnjoined(a) ==
  {x \in Slot \X staff : /\ SlotAuthority[x[1]] = a /\ InspectorAuthority[x[2]] = a
                         /\ Start[x[1]] > now}

(* The joins both queries share: a row for each future slot and inspector   *)
(* of the authority without a live appointment.                             *)
FreeRows(a) ==
  {x \in Slot \X staff : /\ SlotAuthority[x[1]] = a /\ InspectorAuthority[x[2]] = a
                         /\ Start[x[1]] > now
                         /\ ~Occupied(ledger, x[1], x[2])}

(* lo.UniqBy keeps one time of each day, the first in whatever order the    *)
(* database returned them.                                                  *)
UniqByDay(times) ==
  {kept \in SUBSET times : \A t \in times :
     Cardinality({k \in kept : DbDate(k) = DbDate(t)}) = 1}

(* The orders a sort by start may leave rows of the same start in.          *)
SortedByStart(rows, start) ==
  {s \in SetToSeqs(rows) : \A i, j \in DOMAIN s : i < j => start[s[i]] <= start[s[j]]}

(* Mutant: the dates of occupied slots too.                                 *)
DatePagesUnjoined(q) ==
  LET times == {Start[s] : s \in {z \in Slot : /\ SlotAuthority[z] = q.authority /\ Start[z] > now
                                               /\ DbDate(Start[z]) >= ArgDate(q.range[1])
                                               /\ DbDate(End[z]) <= ArgDate(q.range[2])}}
  IN UNION {{[k \in DOMAIN s |-> [date |-> s[k]]] : s \in SortedByStart(kept, [t \in kept |-> t])} :
              kept \in UniqByDay(times)}

(* ListAvailableConsultationDates: one start of each day with a free row.   *)
DatePages(q) ==
  LET rows == {x \in FreeRows(q.authority) : /\ DbDate(Start[x[1]]) >= ArgDate(q.range[1])
                                             /\ DbDate(End[x[1]]) <= ArgDate(q.range[2])}
  IN UNION {{[k \in DOMAIN s |-> [date |-> s[k]]] : s \in SortedByStart(kept, [t \in kept |-> t])} :
              kept \in UniqByDay({Start[x[1]] : x \in rows})}

(* Mutant: the zero slot when there is none.                                *)
SlotPagesOrZero(q) ==
  LET rows == {x \in FreeRows(q.authority) : DbDate(Start[x[1]]) = ArgDate(q.date)}
      start == [x \in rows |-> Start[x[1]]]
  IN IF rows = {} THEN {<<[slot |-> None]>>}
     ELSE {[k \in DOMAIN s |-> [slot |-> s[k][1]]] : s \in SortedByStart(rows, start)}

(* Mutant: later days too.                                                  *)
SlotPagesFrom(q) ==
  LET rows == {x \in FreeRows(q.authority) : DbDate(Start[x[1]]) >= ArgDate(q.date)}
      start == [x \in rows |-> Start[x[1]]]
  IN {[k \in DOMAIN s |-> [slot |-> s[k][1]]] : s \in SortedByStart(rows, start)}

(* ListAvailableConsultationSlots: a slot for each free row of the day.     *)
SlotPages(q) ==
  LET rows == {x \in FreeRows(q.authority) : DbDate(Start[x[1]]) = ArgDate(q.date)}
      start == [x \in rows |-> Start[x[1]]]
  IN {[k \in DOMAIN s |-> [slot |-> s[k][1]]] : s \in SortedByStart(rows, start)}

(* Mutants: without the owner, and live appointments only.                  *)
PartOfAnyone(a, q) == q.op = "visits" \/ q.user \in alive
PartOfLive(a, q) ==
  IF q.op = "visits" THEN a.inspector = q.inspector /\ ~a.canceled /\ a.user \in alive
  ELSE q.user \in alive /\ a.user = q.user

(* A user is found by account, an inspector likewise; the user's account    *)
(* may be gone by now.                                                      *)
PartOf(a, q) ==
  IF q.op = "visits" THEN a.inspector = q.inspector
  ELSE q.user \in alive /\ a.user = q.user

(* ListConsultationAppointments of either party.                            *)
AppointmentPages(q) ==
  LET rows == {a \in ledger : PartOf(a, q)}
      start == [a \in rows |-> Start[a.slot]]
  IN {[k \in DOMAIN s |-> [id |-> s[k].id, canceled |-> s[k].canceled]] :
        s \in SortedByStart(rows, start)}

(* What the handler of a listing may answer now.                            *)
Pages(q) ==
  CASE q.op = "dates" -> DatePages(q)
    [] q.op = "slots" -> SlotPages(q)
    [] OTHER -> AppointmentPages(q)

(* A listing is requested and authorized: the account must exist.          *)
Authorize(l, q) ==
  /\ state[l] = "idle"
  /\ query' = [query EXCEPT ![l] = q]
  /\ state' = [state EXCEPT ![l] =
       IF (IF q.op = "visits" THEN q.inspector \in staff ELSE q.user \in alive)
         THEN "authorized" ELSE "refused"]
  /\ UNCHANGED <<ledgerVars, now, basis, page, before, at>>

(* The query and the reply.                                                 *)
Show(l) ==
  /\ state[l] = "authorized"
  /\ \E p \in Pages(query[l]) : page' = [page EXCEPT ![l] = p]
  /\ before' = [before EXCEPT ![l] = {a.id : a \in ledger}]
  /\ at' = [at EXCEPT ![l] = now]
  /\ state' = [state EXCEPT ![l] = "shown"]
  /\ UNCHANGED <<ledgerVars, now, basis, query>>

(* The database fails: an internal error.                                   *)
Fail(l) ==
  /\ state[l] = "authorized"
  /\ state' = [state EXCEPT ![l] = "refused"]
  /\ UNCHANGED <<ledgerVars, now, basis, query, page, before, at>>

Shown(l, op) == state[l] = "shown" /\ query[l].op = op

(* ListConsultationTopics: the topics grouped by authority.                 *)
AuthorityTopics ==
  {[authority |-> TopicAuthority[t], topics |-> {u \in Topic : TopicAuthority[u] = TopicAuthority[t]}] :
     t \in Topic}

(* The client: it asks for the dates of an authority it was shown a topic   *)
(* of, for the slots of a date it was shown, for a slot it was shown.       *)
LookForDates(l) ==
  \E u \in User, g \in AuthorityTopics, f \in Period :
    Authorize(l, [op |-> "dates", user |-> u, authority |-> g.authority, range |-> f])

LookForSlots(l) ==
  \E d \in Look : \E k \in DOMAIN page[d] :
    /\ Shown(d, "dates")
    /\ Authorize(l, [op |-> "slots", user |-> query[d].user, authority |-> query[d].authority,
                     date |-> page[d][k].date, dates |-> d])

LookForAppointments(l) ==
  \E q \in Mine \cup Visits : Authorize(l, q)

AskToBook(r, l) ==
  /\ Shown(l, "slots")
  /\ \E k \in DOMAIN page[l], g \in AuthorityTopics : \E t \in g.topics :
       /\ g.authority = query[l].authority
       /\ L!Ask(r, [op |-> "create", user |-> query[l].user, slot |-> page[l][k].slot])
       /\ basis' = [basis EXCEPT ![r] = <<t, l>>]
  /\ UNCHANGED <<now, lookVars>>

AskToCancel(r, l) ==
  /\ Shown(l, "mine")
  /\ \E k \in DOMAIN page[l] :
       L!Ask(r, [op |-> "cancel", user |-> query[l].user, appt |-> page[l][k].id])
  /\ UNCHANGED <<now, basis, lookVars>>

AskToLeave(r, u) ==
  L!Ask(r, [op |-> "delete", user |-> u]) /\ UNCHANGED <<now, basis, lookVars>>

LedgerStep ==
  /\ \/ \E i \in Inspector : L!Hire(i)
     \/ \E r \in Req :
          L!Grant(r) \/ L!Refuse(r) \/ L!Book(r) \/ L!TurnDown(r) \/ L!Cancel(r) \/ L!Close(r)
  /\ UNCHANGED <<now, basis, lookVars>>

Tick ==
  /\ now < Horizon
  /\ now' = now + 1
  /\ UNCHANGED <<ledgerVars, basis, lookVars>>

Next ==
  \/ LedgerStep
  \/ Tick
  \/ \E l \in Look :
       \/ LookForDates(l) \/ LookForSlots(l) \/ LookForAppointments(l)
       \/ Show(l) \/ Fail(l)
  \/ \E r \in Req :
       \/ \E l \in Look : AskToBook(r, l) \/ AskToCancel(r, l)
       \/ \E u \in User : AskToLeave(r, u)

Spec == Init /\ [][Next]_vars
-----------------------------------------------------------------------------
(* A booking made since the listing l, of the slot s.                       *)
NewerBooking(s, l) == \E a \in ledger : a.slot = s /\ a.id \notin before[l]

(* A slot that was listed can be booked unless somebody was faster: "taken" *)
(* is answered only when an appointment for the slot was made after the     *)
(* listing the client chose it from, whatever was canceled in between.      *)
TakenOnlyByNewer ==
  \A r \in Req : answer[r] = "taken" => NewerBooking(asked[r].slot, basis[r][2])

(* A date that was listed has its slots: asking for them with the listed    *)
(* time shows a slot that starts then, unless it was booked or has started  *)
(* in the meantime.                                                         *)
DatesHaveSlots ==
  \A l \in Look : Shown(l, "slots") =>
    \E s \in Slot :
      /\ SlotAuthority[s] = query[l].authority /\ Start[s] = query[l].date
      /\ \/ \E k \in DOMAIN page[l] : page[l][k].slot = s
         \/ Start[s] <= at[l]
         \/ \E a \in ledger : a.slot = s /\ a.id \in before[l] \ before[query[l].dates]

(* The booking endpoint does not compare the topic with the slot, but a     *)
(* client that follows the listings never mixes authorities: topic, slot    *)
(* and inspector of an appointment belong together.                         *)
OneAuthority ==
  \A a \in ledger : /\ TopicAuthority[basis[a.id][1]] = SlotAuthority[a.slot]
                    /\ InspectorAuthority[a.inspector] = SlotAuthority[a.slot]

(* An appointment that a user was shown can be canceled by that user (or    *)
(* the account is gone), however many times it was canceled before.         *)
ListedCanBeCanceled == \A r \in Req : asked[r].op = "cancel" => answer[r] # "notfound"

(* Parties that list their appointments get all there were, also those of    *)
(* users and inspectors that have left, and what was shown as canceled      *)
(* never comes back to life. Only a user whose account goes between the     *)
(* check and the query sees nothing.                                        *)
HistoryShown ==
  \A l \in Look, a \in ledger :
    /\ a.id \in before[l]
    /\ \/ Shown(l, "visits") /\ query[l].inspector = a.inspector
       \/ Shown(l, "mine") /\ query[l].user = a.user /\ a.user \in alive
    => \E k \in DOMAIN page[l] : page[l][k].id = a.id /\ (page[l][k].canceled => a.canceled)

(* app.proto:172: the times of a listed slot "are guaranteed to have the    *)
(* same date as the one that was specified in the request". The code        *)
(* compares the start only, and in the session's zone: it relies on slots   *)
(* that have one date there and in UTC, from their start to their end.      *)
SlotsOnDate ==
  \A l \in Look : Shown(l, "slots") => \A k \in DOMAIN page[l] :
    LET s == page[l][k].slot
    IN ArgDate(Start[s]) = ArgDate(query[l].date) /\ ArgDate(End[s]) = ArgDate(query[l].date)
=============================================================================
