--------------------------- MODULE ListingsProofs ---------------------------
(***************************************************************************)
(* Listings for any authorities, slots, users, requests and listings: a    *)
(* client that follows the listings is answered consistently with them,    *)
(* whatever others book, cancel and delete in between.                     *)
(***************************************************************************)
EXTENDS Listings, FiniteSetTheorems, SequenceTheorems, TLAPS

LEMMA ListOf ==
  ASSUME NEW n \in Nat, NEW T, NEW p \in [1 .. n -> T]
  PROVE  p \in Seq(T)
  BY SeqDef

LEMMA ElementOf ==
  ASSUME NEW T, NEW p \in Seq(T), NEW k \in DOMAIN p
  PROVE  p[k] \in T
  OBVIOUS

(* A sort leaves out nothing and invents nothing.                           *)
LEMMA SortedRows ==
  ASSUME NEW rows, IsFiniteSet(rows), NEW start, NEW s \in SortedByStart(rows, start)
  PROVE  /\ Cardinality(rows) \in Nat
         /\ s \in [1 .. Cardinality(rows) -> rows]
         /\ \A x \in rows : \E k \in DOMAIN s : s[k] = x
  <1> DEFINE n == Cardinality(rows)
  <1>1. n \in Nat BY FS_CardinalityType
  <1>2. s \in [1 .. n -> rows] /\ \A i, j \in 1 .. n : i # j => s[i] # s[j]
    BY DEF SortedByStart, SetToSeqs
  <1>3. s \in Injection(1 .. n, rows) BY <1>2 DEF Injection, IsInjective
  <1>4. Cardinality(1 .. n) = n BY <1>1, FS_Interval
  <1>5. s \in Surjection(1 .. n, rows) BY <1>3, <1>4, FS_Injection
  <1> QED BY <1>1, <1>2, <1>5 DEF Surjection

LEMMA FreeRowsFinite ==
  ASSUME IsFiniteSet(staff), NEW a
  PROVE  IsFiniteSet(FreeRows(a))
  <1>1. IsFiniteSet(Slot \X staff) BY SlotAssumption, FS_Product
  <1> QED BY <1>1, FS_Subset DEF FreeRows

LEMMA TimesFinite ==
  ASSUME NEW rows, IsFiniteSet(rows)
  PROVE  IsFiniteSet({Start[x[1]] : x \in rows})
  <1> DEFINE f == [x \in rows |-> Start[x[1]]]
  <1>1. f \in Surjection(rows, {Start[x[1]] : x \in rows}) BY DEF Surjection
  <1> QED BY <1>1, FS_Surjection

(* The slots listed are those free rows, all of them.                       *)
LEMMA SlotPage ==
  ASSUME IsFiniteSet(staff), NEW q, NEW p \in SlotPages(q)
  PROVE  LET rows == {x \in FreeRows(q.authority) : DbDate(Start[x[1]]) = ArgDate(q.date)} IN
         /\ p \in Seq([slot : Slot])
         /\ \A k \in DOMAIN p : \E x \in rows : p[k].slot = x[1]
         /\ \A x \in rows : \E k \in DOMAIN p : p[k].slot = x[1]
  <1> DEFINE rows == {x \in FreeRows(q.authority) : DbDate(Start[x[1]]) = ArgDate(q.date)}
  <1>1. IsFiniteSet(rows) BY FreeRowsFinite, FS_Subset
  <1>2. PICK s \in SortedByStart(rows, [x \in rows |-> Start[x[1]]]) :
          p = [k \in DOMAIN s |-> [slot |-> s[k][1]]]
    BY DEF SlotPages
  <1>3. \A x \in rows : x[1] \in Slot BY DEF FreeRows
  <1> HIDE DEF rows
  <1>4. /\ Cardinality(rows) \in Nat
        /\ s \in [1 .. Cardinality(rows) -> rows]
        /\ \A x \in rows : \E k \in DOMAIN s : s[k] = x
    BY <1>1, SortedRows
  <1>5. p \in [1 .. Cardinality(rows) -> [slot : Slot]] BY <1>2, <1>3, <1>4
  <1>6. p \in Seq([slot : Slot]) BY <1>4, <1>5, ListOf
  <1>7. \A k \in DOMAIN p : \E x \in rows : p[k].slot = x[1] BY <1>2, <1>4
  <1>8. \A x \in rows : \E k \in DOMAIN p : p[k].slot = x[1] BY <1>2, <1>4
  <1> QED BY <1>6, <1>7, <1>8 DEF rows

LEMMA DatePage ==
  ASSUME IsFiniteSet(staff), NEW q, NEW p \in DatePages(q)
  PROVE  /\ p \in Seq([date : Nat])
         /\ \A k \in DOMAIN p : \E x \in FreeRows(q.authority) : p[k].date = Start[x[1]]
  <1> DEFINE rows == {x \in FreeRows(q.authority) : /\ DbDate(Start[x[1]]) >= ArgDate(q.range[1])
                                                   /\ DbDate(End[x[1]]) <= ArgDate(q.range[2])}
  <1> DEFINE times == {Start[x[1]] : x \in rows}
  <1>1. IsFiniteSet(rows) BY FreeRowsFinite, FS_Subset
  <1>2. IsFiniteSet(times) BY <1>1, TimesFinite
  <1>3. PICK kept \in UniqByDay(times) :
          p \in {[k \in DOMAIN s |-> [date |-> s[k]]] : s \in SortedByStart(kept, [t \in kept |-> t])}
    BY DEF DatePages
  <1>4. kept \subseteq times BY <1>3 DEF UniqByDay
  <1>5. PICK s \in SortedByStart(kept, [t \in kept |-> t]) : p = [k \in DOMAIN s |-> [date |-> s[k]]]
    BY <1>3
  <1>6. \A t \in times : t \in Nat /\ \E x \in FreeRows(q.authority) : t = Start[x[1]]
    BY TimeAssumption DEF FreeRows
  <1> HIDE DEF rows, times
  <1>7. IsFiniteSet(kept) BY <1>2, <1>4, FS_Subset
  <1>8. Cardinality(kept) \in Nat /\ s \in [1 .. Cardinality(kept) -> kept] BY <1>7, SortedRows
  <1>9. p \in [1 .. Cardinality(kept) -> [date : Nat]] BY <1>4, <1>5, <1>6, <1>8
  <1>10. p \in Seq([date : Nat]) BY <1>8, <1>9, ListOf
  <1>11. \A k \in DOMAIN p : \E x \in FreeRows(q.authority) : p[k].date = Start[x[1]]
    BY <1>4, <1>5, <1>6, <1>8
  <1> QED BY <1>10, <1>11

(* Appointments are listed all, as they are.                                *)
LEMMA AppointmentPage ==
  ASSUME IsFiniteSet(ledger), ledger \subseteq Appointment, NEW q, NEW p \in AppointmentPages(q)
  PROVE  /\ p \in Seq([id : Req, canceled : BOOLEAN])
         /\ \A k \in DOMAIN p : \E a \in ledger : PartOf(a, q) /\ p[k].id = a.id /\ p[k].canceled = a.canceled
         /\ \A a \in ledger : PartOf(a, q) => \E k \in DOMAIN p : p[k].id = a.id /\ p[k].canceled = a.canceled
  <1> DEFINE rows == {a \in ledger : PartOf(a, q)}
  <1>1. IsFiniteSet(rows) BY FS_Subset
  <1>2. PICK s \in SortedByStart(rows, [a \in rows |-> Start[a.slot]]) :
          p = [k \in DOMAIN s |-> [id |-> s[k].id, canceled |-> s[k].canceled]]
    BY DEF AppointmentPages
  <1>3. \A a \in rows : a \in ledger /\ PartOf(a, q) /\ a.id \in Req /\ a.canceled \in BOOLEAN
    BY DEF Appointment
  <1>4. \A a \in ledger : PartOf(a, q) => a \in rows OBVIOUS
  <1> HIDE DEF rows
  <1>5. /\ Cardinality(rows) \in Nat
        /\ s \in [1 .. Cardinality(rows) -> rows]
        /\ \A a \in rows : \E k \in DOMAIN s : s[k] = a
    BY <1>1, SortedRows
  <1>6. p \in [1 .. Cardinality(rows) -> [id : Req, canceled : BOOLEAN]] BY <1>2, <1>3, <1>5
  <1>7. p \in Seq([id : Req, canceled : BOOLEAN]) BY <1>5, <1>6, ListOf
  <1>8. \A k \in DOMAIN p : s[k] \in rows /\ p[k].id = s[k].id /\ p[k].canceled = s[k].canceled
    BY <1>2, <1>5
  <1>9. \A a \in rows : \E k \in DOMAIN p : p[k].id = a.id /\ p[k].canceled = a.canceled
    BY <1>2, <1>5
  <1> QED BY <1>3, <1>4, <1>7, <1>8, <1>9
-----------------------------------------------------------------------------
(* The ledger a client looks at: an appointment is what its request asked   *)
(* for, with an inspector of the slot's authority.                          *)
LedgerOK ==
  /\ staff \subseteq Inspector /\ IsFiniteSet(staff)
  /\ ledger \subseteq Appointment /\ IsFiniteSet(ledger)
  /\ asked \in [Req -> Call \cup {NoCall}] /\ answer \in [Req -> Answers]
  /\ \A r \in Req : asked[r] = NoCall => answer[r] = "none"
  /\ \A a \in ledger : /\ asked[a.id].op = "create" /\ asked[a.id].slot = a.slot
                       /\ answer[a.id] # "none"
                       /\ InspectorAuthority[a.inspector] = SlotAuthority[a.slot]

Booked == {a.id : a \in ledger}

(* What requests do to the ledger while clients look at it.                 *)
LedgerAction ==
  \/ LedgerStep
  \/ \E r \in Req : \E c \in Call : L!Ask(r, c)

Same(a, b) ==
  /\ b.id = a.id /\ b.user = a.user /\ b.slot = a.slot /\ b.inspector = a.inspector
  /\ a.canceled => b.canceled

LEMMA LedgerOperators ==
  /\ L!Call = Call /\ L!NoCall = NoCall
  /\ \A rows, inspectors, s : L!AvailableInspectors(rows, inspectors, s) = AvailableInspectors(rows, inspectors, s)
  /\ \A rows, c : L!Cancelable(rows, c) = Cancelable(rows, c)
  /\ \A rows, c : L!Canceled(rows, c) = Canceled(rows, c)
  BY DEF Call, CreateCall, CancelCall, DeleteCall, NoCall, AvailableInspectors, Occupied, Cancelable,
         Canceled, L!Call, L!CreateCall, L!CancelCall, L!DeleteCall, L!NoCall,
         L!AvailableInspectors, L!Occupied, L!Cancelable, L!Canceled

LEMMA CanceledRow ==
  ASSUME NEW a \in Appointment
  PROVE  LET b == [a EXCEPT !.canceled = TRUE] IN b \in Appointment /\ b.canceled /\ Same(a, b)
  BY DEF Appointment, Same

LEMMA CanceledRows ==
  ASSUME NEW rows \in SUBSET Appointment, IsFiniteSet(rows), NEW c
  PROVE  /\ Canceled(rows, c) \subseteq Appointment /\ IsFiniteSet(Canceled(rows, c))
         /\ \A a \in rows : \E b \in Canceled(rows, c) : Same(a, b)
         /\ \A b \in Canceled(rows, c) :
              /\ \E a \in rows : Same(a, b)
              /\ b \in rows \/ b.canceled
  <1> DEFINE cancel(a) == [a EXCEPT !.canceled = TRUE]
  <1> DEFINE f == [a \in rows |-> IF a \in Cancelable(rows, c) THEN cancel(a) ELSE a]
  <1>1. Cancelable(rows, c) \subseteq rows BY DEF Cancelable
  <1>2. \A a \in rows : cancel(a) \in Appointment /\ cancel(a).canceled /\ Same(a, cancel(a)) /\ Same(a, a)
    <2> TAKE a \in rows
    <2>1. a \in Appointment OBVIOUS
    <2> QED BY <2>1, CanceledRow DEF Same
  <1> HIDE DEF cancel
  <1>3. Canceled(rows, c) = (rows \ Cancelable(rows, c)) \cup {cancel(a) : a \in Cancelable(rows, c)}
    BY DEF Canceled, cancel
  <1>4. f \in Surjection(rows, Canceled(rows, c)) BY <1>1, <1>3 DEF Surjection
  <1>5. IsFiniteSet(Canceled(rows, c)) BY <1>4, FS_Surjection
  <1> HIDE DEF f
  <1>6. \A a \in rows : \E b \in Canceled(rows, c) : Same(a, b) BY <1>1, <1>2, <1>3
  <1>7. \A b \in Canceled(rows, c) : (\E a \in rows : Same(a, b)) /\ (b \in rows \/ b.canceled)
    BY <1>1, <1>2, <1>3
  <1>8. Canceled(rows, c) \subseteq Appointment BY <1>1, <1>2, <1>3
  <1> QED BY <1>5, <1>6, <1>7, <1>8

(* What may happen to the ledger: an appointment is added, or some are      *)
(* canceled; and a refusal tells the truth.                                 *)
Moves ==
  /\ alive' \subseteq alive /\ staff \subseteq staff'
  /\ \A a \in ledger : \E b \in ledger' : Same(a, b)
  /\ \A b \in ledger' : \/ (\E a \in ledger : Same(a, b)) /\ (b \in ledger \/ b.canceled)
                       \/ b.id \notin Booked
  /\ \A r \in Req : asked[r] # NoCall => asked'[r] = asked[r]
  /\ \A r \in Req : answer[r] = "none" \/ answer'[r] = answer[r]
  /\ \A r \in Req : answer'[r] = "taken" =>
       \/ answer[r] = "taken"
       \/ /\ asked[r].op = "create" /\ ledger' = ledger /\ staff' = staff
          /\ AvailableInspectors(ledger, staff, asked[r].slot) = {}
  /\ \A r \in Req : answer'[r] = "notfound" =>
       \/ answer[r] = "notfound"
       \/ asked[r].op = "cancel" /\ Cancelable(ledger, asked[r]) = {}

LEMMA LedgerMoves ==
  ASSUME LedgerOK, LedgerAction
  PROVE  LedgerOK' /\ Moves
  <1> USE DEF LedgerOK
  <1>0. \A a \in ledger : Same(a, a) /\ a.id \in Req BY DEF Same, Appointment
  <1>a. CASE ledger' = ledger /\ alive' = alive /\ staff' = staff /\ UNCHANGED <<asked, answer>>
    BY <1>0, <1>a DEF Moves
  <1>1. ASSUME NEW i \in Inspector, L!Hire(i) PROVE LedgerOK' /\ Moves
    <2>1. staff' = staff \cup {i} /\ ledger' = ledger /\ alive' = alive /\ UNCHANGED <<asked, answer>>
      BY <1>1 DEF L!Hire
    <2>2. IsFiniteSet(staff') BY <2>1, FS_AddElement
    <2> QED BY <1>0, <2>1, <2>2 DEF Moves
  <1>2. ASSUME NEW r \in Req, NEW c \in Call, L!Ask(r, c) PROVE LedgerOK' /\ Moves
    <2>1. asked[r] = NoCall /\ asked' = [asked EXCEPT ![r] = c] /\ UNCHANGED <<alive, staff, ledger, answer>>
      BY <1>2, LedgerOperators DEF L!Ask
    <2>2. c # NoCall BY DEF Call, CreateCall, CancelCall, DeleteCall, NoCall
    <2>3. \A a \in ledger : a.id # r BY <2>1
    <2>4. LedgerOK' BY <2>1, <2>2, <2>3, <1>0
    <2>5. Moves BY <1>0, <2>1 DEF Moves
    <2> QED BY <2>4, <2>5
  <1>3. ASSUME NEW r \in Req, L!Grant(r) PROVE LedgerOK' /\ Moves BY <1>a, <1>3 DEF L!Grant
  <1>b. ASSUME NEW r \in Req, NEW x \in Answers \ {"none"},
               asked[r] # NoCall, answer[r] = "none", answer' = [answer EXCEPT ![r] = x]
        PROVE  /\ answer' \in [Req -> Answers]
               /\ \A q \in Req : asked[q] = NoCall => answer'[q] = "none"
               /\ \A q \in Req : answer[q] = "none" \/ answer'[q] = answer[q]
               /\ \A q \in Req : answer'[q] = answer[q] \/ (q = r /\ answer'[q] = x)
               /\ \A a \in ledger : answer'[a.id] # "none"
    BY <1>b, <1>0
  <1>4. ASSUME NEW r \in Req, L!Refuse(r) PROVE LedgerOK' /\ Moves
    <2>1. PICK x \in {"internal", "unauthorized"} : answer' = [answer EXCEPT ![r] = x]
      BY <1>4 DEF L!Refuse, L!Answer
    <2>2. x \in Answers \ {"none"} BY DEF Answers
    <2>3. asked[r] # NoCall /\ answer[r] = "none" /\ UNCHANGED <<alive, staff, ledger, asked>>
      BY <1>4, LedgerOperators DEF L!Refuse
    <2> QED BY <1>0, <1>b, <2>1, <2>2, <2>3 DEF Moves
  <1>5. ASSUME NEW r \in Req, L!Book(r) PROVE LedgerOK' /\ Moves
    <2>1. asked[r].op = "create" /\ answer[r] = "none" /\ UNCHANGED <<alive, staff, asked>>
      BY <1>5 DEF L!Book, L!Pending
    <2>2. asked[r] # NoCall /\ asked[r].user \in User /\ asked[r].slot \in Slot
      BY <2>1 DEF Call, CreateCall, CancelCall, DeleteCall, NoCall
    <2>3. PICK i \in AvailableInspectors(ledger, staff, asked[r].slot) :
            ledger' = ledger \cup {[id |-> r, user |-> asked[r].user, slot |-> asked[r].slot,
                                    inspector |-> i, canceled |-> FALSE]}
      BY <1>5, LedgerOperators DEF L!Book
    <2>4. PICK x \in {"ok", "internal"} : answer' = [answer EXCEPT ![r] = x]
      BY <1>5 DEF L!Book, L!Answer
    <2>5. x \in Answers \ {"none"} BY DEF Answers
    <2>6. i \in staff /\ InspectorAuthority[i] = SlotAuthority[asked[r].slot] BY DEF AvailableInspectors
    <2> DEFINE n == [id |-> r, user |-> asked[r].user, slot |-> asked[r].slot, inspector |-> i, canceled |-> FALSE]
    <2>7. n \in Appointment /\ n.id = r /\ n.slot = asked[r].slot /\ n.inspector = i
      BY <2>2, <2>6 DEF Appointment
    <2>8. ledger' = ledger \cup {n} BY <2>3
    <2> HIDE DEF n
    <2>9. IsFiniteSet(ledger') BY <2>8, FS_AddElement
    <2>10. r \notin Booked BY <2>1 DEF Booked
    <2>11. answer'[r] # "none" BY <2>4
    <2>12. LedgerOK' BY <1>b, <2>1, <2>2, <2>4, <2>5, <2>6, <2>7, <2>8, <2>9, <2>11
    <2>13. Moves BY <1>0, <1>b, <2>1, <2>2, <2>4, <2>5, <2>7, <2>8, <2>10 DEF Moves
    <2> QED BY <2>12, <2>13
  <1>6. ASSUME NEW r \in Req, L!TurnDown(r) PROVE LedgerOK' /\ Moves
    <2>1. asked[r].op = "create" /\ answer[r] = "none" /\ UNCHANGED <<alive, staff, ledger, asked>>
          /\ AvailableInspectors(ledger, staff, asked[r].slot) = {}
      BY <1>6, LedgerOperators DEF L!TurnDown, L!Pending
    <2>2. answer' = [answer EXCEPT ![r] = "taken"] BY <1>6 DEF L!TurnDown, L!Answer
    <2>3. asked[r] # NoCall /\ "taken" \in Answers \ {"none"} BY <2>1 DEF NoCall, Answers
    <2> QED BY <1>0, <1>b, <2>1, <2>2, <2>3 DEF Moves
  <1>7. ASSUME NEW r \in Req, L!Cancel(r) PROVE LedgerOK' /\ Moves
    <2>1. asked[r].op = "cancel" /\ answer[r] = "none" /\ UNCHANGED <<alive, staff, asked>>
          /\ ledger' = Canceled(ledger, asked[r])
      BY <1>7, LedgerOperators DEF L!Cancel, L!Pending
    <2>2. PICK x \in {"internal", IF Cancelable(ledger, asked[r]) = {} THEN "notfound" ELSE "ok"} :
            answer' = [answer EXCEPT ![r] = x]
      BY <1>7, LedgerOperators DEF L!Cancel, L!Answer
    <2>3. asked[r] # NoCall /\ x \in Answers \ {"none"} BY <2>1 DEF NoCall, Answers
    <2>4. /\ ledger' \subseteq Appointment /\ IsFiniteSet(ledger')
          /\ \A a \in ledger : \E b \in ledger' : Same(a, b)
          /\ \A b \in ledger' : (\E a \in ledger : Same(a, b)) /\ (b \in ledger \/ b.canceled)
      BY <2>1, CanceledRows
    <2>5. \A b \in ledger' : /\ asked[b.id].op = "create" /\ asked[b.id].slot = b.slot
                           /\ answer'[b.id] # "none"
                           /\ InspectorAuthority[b.inspector] = SlotAuthority[b.slot]
      BY <1>b, <2>1, <2>2, <2>3, <2>4 DEF Same
    <2>6. x = "notfound" => Cancelable(ledger, asked[r]) = {} BY <2>2
    <2>7. LedgerOK' BY <1>b, <2>1, <2>2, <2>3, <2>4, <2>5
    <2>8. Moves BY <1>b, <2>1, <2>2, <2>3, <2>4, <2>6 DEF Moves
    <2> QED BY <2>7, <2>8
  <1>8. ASSUME NEW r \in Req, L!Close(r) PROVE LedgerOK' /\ Moves
    <2>1. asked[r].op = "delete" /\ answer[r] = "none" /\ UNCHANGED <<staff, ledger, asked>>
          /\ alive' \subseteq alive
      BY <1>8 DEF L!Close, L!Pending
    <2>2. PICK x \in {"ok", "internal"} : answer' = [answer EXCEPT ![r] = x]
      BY <1>8 DEF L!Close, L!Answer
    <2>3. asked[r] # NoCall /\ x \in Answers \ {"none"} BY <2>1 DEF NoCall, Answers
    <2> QED BY <1>0, <1>b, <2>1, <2>2, <2>3 DEF Moves
  <1> QED BY <1>1, <1>2, <1>3, <1>4, <1>5, <1>6, <1>7, <1>8 DEF LedgerAction, LedgerStep
-----------------------------------------------------------------------------
(* A slot that was free when l was answered: it still is, or somebody has   *)
(* booked it since.                                                         *)
Bookable(s, l) ==
  \/ NewerBooking(s, l)
  \/ \E i \in staff : InspectorAuthority[i] = SlotAuthority[s] /\ ~Occupied(ledger, s, i)

Functions == DOMAIN query = Look /\ DOMAIN page = Look /\ DOMAIN basis = Req

Seen == \A l \in Look : before[l] \subseteq Booked

SlotsShown ==
  \A l \in Look : Shown(l, "slots") => \A k \in DOMAIN page[l] :
    /\ SlotAuthority[page[l][k].slot] = query[l].authority
    /\ DbDate(Start[page[l][k].slot]) = ArgDate(query[l].date)
    /\ Bookable(page[l][k].slot, l)

DatesShown ==
  \A l \in Look : Shown(l, "dates") => \A k \in DOMAIN page[l] : \E s \in Slot :
    Start[s] = page[l][k].date /\ SlotAuthority[s] = query[l].authority /\ Bookable(s, l)

MineShown ==
  \A l \in Look : Shown(l, "mine") => \A k \in DOMAIN page[l] : \E a \in ledger :
    a.id = page[l][k].id /\ a.user = query[l].user

(* What a request was filled in from.                                       *)
SlotQueries ==
  \A l \in Look : state[l] # "idle" /\ query[l].op = "slots" =>
    /\ query[l].dates \in Look /\ Shown(query[l].dates, "dates")
    /\ query[query[l].dates].authority = query[l].authority
    /\ \E k \in DOMAIN page[query[l].dates] : page[query[l].dates][k].date = query[l].date

Bookings ==
  \A r \in Req : asked[r].op = "create" => \E t \in Topic, l \in Look :
    /\ basis[r] = <<t, l>> /\ Shown(l, "slots") /\ TopicAuthority[t] = query[l].authority
    /\ \E k \in DOMAIN page[l] : page[l][k].slot = asked[r].slot

Cancelations ==
  \A r \in Req : asked[r].op = "cancel" => \E a \in ledger : a.id = asked[r].appt /\ a.user = asked[r].user

Refusals == \A r \in Req : answer[r] = "taken" => asked[r].op = "create"

LInv ==
  /\ TypeOK /\ Functions /\ LedgerOK
  /\ Seen /\ SlotsShown /\ DatesShown /\ MineShown /\ HistoryShown /\ SlotQueries
  /\ Bookings /\ Cancelations /\ Refusals /\ TakenOnlyByNewer /\ ListedCanBeCanceled
-----------------------------------------------------------------------------
LEMMA BookableStays ==
  ASSUME LedgerOK, Moves, before' = before, Seen, NEW l \in Look, NEW s, Bookable(s, l)
  PROVE  Bookable(s, l)'
  <1>1. CASE NewerBooking(s, l) BY <1>1 DEF Bookable, NewerBooking, Moves, Same
  <1>2. CASE \E i \in staff : InspectorAuthority[i] = SlotAuthority[s] /\ ~Occupied(ledger, s, i)
    <2>1. PICK i \in staff : InspectorAuthority[i] = SlotAuthority[s] /\ ~Occupied(ledger, s, i) BY <1>2
    <2>2. CASE Occupied(ledger', s, i)
      <3>1. PICK b \in ledger' : b.slot = s /\ b.inspector = i /\ ~b.canceled BY <2>2 DEF Occupied
      <3>2. b \notin ledger BY <2>1, <3>1 DEF Occupied
      <3>3. b.id \notin Booked BY <3>1, <3>2 DEF Moves
      <3> QED BY <3>1, <3>3 DEF Bookable, NewerBooking, Seen
    <2>3. CASE ~Occupied(ledger', s, i) BY <2>1, <2>3 DEF Bookable, Moves
    <2> QED BY <2>2, <2>3
  <1> QED BY <1>1, <1>2 DEF Bookable

(* What was shown stays true while others change the ledger.                *)
LEMMA ShownStays ==
  ASSUME LInv, Moves, UNCHANGED lookVars
  PROVE  Seen' /\ SlotsShown' /\ DatesShown' /\ MineShown' /\ HistoryShown' /\ SlotQueries'
  <1> USE DEF LInv, lookVars
  <1>0. \A l \in Look : \A op : Shown(l, op)' <=> Shown(l, op) BY DEF Shown
  <1>1. Seen' BY DEF Seen, Booked, Moves, Same
  <1>2. SlotsShown' BY <1>0, BookableStays DEF SlotsShown
  <1>3. DatesShown' BY <1>0, BookableStays DEF DatesShown
  <1>4. MineShown' BY <1>0 DEF MineShown, Moves, Same
  <1>5. HistoryShown'
    <2> SUFFICES ASSUME NEW l \in Look, NEW b \in ledger', b.id \in before[l],
                        \/ Shown(l, "visits") /\ query[l].inspector = b.inspector
                        \/ Shown(l, "mine") /\ query[l].user = b.user /\ b.user \in alive'
                 PROVE  \E k \in DOMAIN page[l] : page[l][k].id = b.id /\ (page[l][k].canceled => b.canceled)
      BY <1>0 DEF HistoryShown
    <2>1. b.id \in Booked BY DEF Seen
    <2>2. PICK a \in ledger : Same(a, b) BY <2>1 DEF Moves
    <2>3. b.user \in alive' => a.user \in alive BY <2>2 DEF Moves, Same
    <2> QED BY <2>2, <2>3 DEF HistoryShown, Same
  <1>6. SlotQueries' BY <1>0 DEF SlotQueries
  <1> QED BY <1>1, <1>2, <1>3, <1>4, <1>5, <1>6

(* The answers to requests that were filled in from listings.               *)
LEMMA AnswersStay ==
  ASSUME LInv, Moves, LedgerOK', UNCHANGED lookVars,
         \A r \in Req : asked[r] # NoCall => basis'[r] = basis[r]
  PROVE  TakenOnlyByNewer' /\ ListedCanBeCanceled' /\ Refusals'
  <1> USE DEF LInv
  <1>1. TakenOnlyByNewer'
    <2> SUFFICES ASSUME NEW r \in Req, answer'[r] = "taken"
                 PROVE  NewerBooking(asked[r].slot, basis[r][2])'
      BY DEF TakenOnlyByNewer
    <2>1. CASE answer[r] = "taken"
      <3>1. asked[r] # NoCall BY <2>1 DEF LedgerOK
      <3>2. NewerBooking(asked[r].slot, basis[r][2]) BY <2>1 DEF TakenOnlyByNewer
      <3>3. asked'[r] = asked[r] /\ basis'[r] = basis[r] /\ before' = before BY <3>1 DEF Moves, lookVars
      <3> QED BY <3>2, <3>3 DEF NewerBooking, Moves, Same
    <2>2. CASE answer[r] # "taken"
      <3>1. /\ asked[r].op = "create" /\ ledger' = ledger
            /\ AvailableInspectors(ledger, staff, asked[r].slot) = {}
        BY <2>2 DEF Moves
      <3>2. asked[r] # NoCall BY <3>1 DEF NoCall
      <3>3. asked'[r] = asked[r] /\ basis'[r] = basis[r] /\ before' = before BY <3>2 DEF Moves, lookVars
      <3>4. PICK t \in Topic, l \in Look :
              /\ basis[r] = <<t, l>> /\ Shown(l, "slots")
              /\ \E k \in DOMAIN page[l] : page[l][k].slot = asked[r].slot
        BY <3>1 DEF Bookings
      <3>5. Bookable(asked[r].slot, l) BY <3>4 DEF SlotsShown
      <3>6. NewerBooking(asked[r].slot, l) BY <3>1, <3>5 DEF Bookable, AvailableInspectors
      <3>7. basis[r][2] = l BY <3>4
      <3> QED BY <3>1, <3>3, <3>6, <3>7 DEF NewerBooking
    <2> QED BY <2>1, <2>2
  <1>2. ListedCanBeCanceled'
    <2> SUFFICES ASSUME NEW r \in Req, asked'[r].op = "cancel", answer'[r] = "notfound" PROVE FALSE
      BY DEF ListedCanBeCanceled
    <2>1. CASE asked[r] = NoCall
      <3>1. answer[r] = "none" BY <2>1 DEF LedgerOK
      <3> QED BY <2>1, <3>1 DEF Moves, NoCall
    <2>2. CASE asked[r] # NoCall
      <3>1. asked'[r] = asked[r] BY <2>2 DEF Moves
      <3>2. answer[r] # "notfound" BY <3>1 DEF ListedCanBeCanceled
      <3>3. Cancelable(ledger, asked[r]) = {} BY <3>2 DEF Moves
      <3>4. \E a \in ledger : a.id = asked[r].appt /\ a.user = asked[r].user BY <3>1 DEF Cancelations
      <3> QED BY <3>3, <3>4 DEF Cancelable
    <2> QED BY <2>1, <2>2
  <1>3. Refusals'
    <2> SUFFICES ASSUME NEW r \in Req, answer'[r] = "taken" PROVE asked'[r].op = "create"
      BY DEF Refusals
    <2>1. asked[r].op = "create" BY DEF Moves, Refusals
    <2>2. asked[r] # NoCall BY <2>1 DEF NoCall
    <2> QED BY <2>1, <2>2 DEF Moves
  <1> QED BY <1>1, <1>2, <1>3

LEMMA StaysFilledIn ==
  ASSUME LInv, Moves, UNCHANGED lookVars, NEW r \in Req, asked'[r] = asked[r], basis'[r] = basis[r]
  PROVE  /\ asked'[r].op = "create" => \E t \in Topic, l \in Look :
              /\ basis'[r] = <<t, l>> /\ Shown(l, "slots")' /\ TopicAuthority[t] = query'[l].authority
              /\ \E k \in DOMAIN page'[l] : page'[l][k].slot = asked'[r].slot
         /\ asked'[r].op = "cancel" => \E a \in ledger' : a.id = asked'[r].appt /\ a.user = asked'[r].user
  <1>1. \A l \in Look : Shown(l, "slots")' <=> Shown(l, "slots") BY DEF Shown, lookVars
  <1>2. asked[r].op = "create" => \E t \in Topic, l \in Look :
          /\ basis[r] = <<t, l>> /\ Shown(l, "slots") /\ TopicAuthority[t] = query[l].authority
          /\ \E k \in DOMAIN page[l] : page[l][k].slot = asked[r].slot
    BY DEF LInv, Bookings
  <1>3. asked[r].op = "cancel" => \E a \in ledger : a.id = asked[r].appt /\ a.user = asked[r].user
    BY DEF LInv, Cancelations
  <1>4. asked'[r].op = "create" => \E t \in Topic, l \in Look :
              /\ basis'[r] = <<t, l>> /\ Shown(l, "slots")' /\ TopicAuthority[t] = query'[l].authority
              /\ \E k \in DOMAIN page'[l] : page'[l][k].slot = asked'[r].slot
    BY <1>1, <1>2 DEF lookVars
  <1>5. asked'[r].op = "cancel" => \E a \in ledger' : a.id = asked'[r].appt /\ a.user = asked'[r].user
    BY <1>3 DEF Moves, Same
  <1> QED BY <1>4, <1>5

LEMMA TypeStays ==
  ASSUME LInv, LedgerOK', now' \in Time, UNCHANGED lookVars,
         \A r \in Req : basis'[r] = <<>> \/ basis'[r] \in Topic \X Look
  PROVE  TypeOK'
  BY DEF LInv, TypeOK, LedgerOK, lookVars, Time

(* Bookings, cancelations and deletions, as far as they have been asked for. *)
LEMMA LedgerStepKeeps ==
  ASSUME LInv, LedgerStep
  PROVE  LInv'
  <1>1. LedgerOK' /\ Moves BY LedgerMoves DEF LInv, LedgerAction
  <1>2. UNCHANGED lookVars /\ basis' = basis /\ now' = now BY DEF LedgerStep
  <1>3. asked' = asked BY DEF LedgerStep, L!Hire, L!Grant, L!Refuse, L!Book, L!TurnDown, L!Cancel, L!Close
  <1>4. TypeOK' BY <1>1, <1>2, TypeStays DEF LInv, TypeOK
  <1>5. Bookings' /\ Cancelations' BY <1>1, <1>2, <1>3, StaysFilledIn DEF Bookings, Cancelations
  <1>6. Functions' BY <1>2 DEF LInv, Functions, lookVars
  <1> QED BY <1>1, <1>2, <1>4, <1>5, <1>6, ShownStays, AnswersStay DEF LInv

(* A new request: what it asks for was shown to its user.                   *)
LEMMA AskKeeps ==
  ASSUME LInv, NEW r \in Req, NEW c \in Call, L!Ask(r, c), UNCHANGED <<now, lookVars>>,
         DOMAIN basis' = Req, \A q \in Req : q # r => basis'[q] = basis[q],
         basis'[r] = <<>> \/ basis'[r] \in Topic \X Look,
         c.op = "create" => \E t \in Topic, l \in Look :
           /\ basis'[r] = <<t, l>> /\ Shown(l, "slots") /\ TopicAuthority[t] = query[l].authority
           /\ \E k \in DOMAIN page[l] : page[l][k].slot = c.slot,
         c.op = "cancel" => \E a \in ledger : a.id = c.appt /\ a.user = c.user
  PROVE  LInv'
  <1>1. LedgerOK' /\ Moves BY LedgerMoves DEF LInv, LedgerAction
  <1>2. asked[r] = NoCall /\ asked' = [asked EXCEPT ![r] = c] /\ ledger' = ledger
    BY LedgerOperators DEF L!Ask
  <1>3. asked'[r] = c /\ \A q \in Req : q # r => asked'[q] = asked[q] BY <1>2 DEF LInv, LedgerOK
  <1>4. TypeOK' BY <1>1, TypeStays DEF LInv, TypeOK
  <1>5. \A l \in Look : Shown(l, "slots")' <=> Shown(l, "slots") BY DEF Shown, lookVars
  <1>6. Bookings'
    <2> SUFFICES ASSUME NEW q \in Req, asked'[q].op = "create"
                 PROVE  \E t \in Topic, l \in Look :
                          /\ basis'[q] = <<t, l>> /\ Shown(l, "slots")' /\ TopicAuthority[t] = query'[l].authority
                          /\ \E k \in DOMAIN page'[l] : page'[l][k].slot = asked'[q].slot
      BY DEF Bookings
    <2>1. CASE q = r BY <1>3, <1>5, <2>1 DEF lookVars
    <2>2. CASE q # r BY <1>1, <1>3, <2>2, StaysFilledIn
    <2> QED BY <2>1, <2>2
  <1>7. Cancelations'
    <2> SUFFICES ASSUME NEW q \in Req, asked'[q].op = "cancel"
                 PROVE  \E a \in ledger' : a.id = asked'[q].appt /\ a.user = asked'[q].user
      BY DEF Cancelations
    <2>1. CASE q = r BY <1>2, <1>3, <2>1
    <2>2. CASE q # r BY <1>1, <1>3, <2>2, StaysFilledIn
    <2> QED BY <2>1, <2>2
  <1>8. \A q \in Req : asked[q] # NoCall => basis'[q] = basis[q] BY <1>2
  <1>9. Functions' BY DEF LInv, Functions, lookVars
  <1> QED BY <1>1, <1>4, <1>6, <1>7, <1>8, <1>9, ShownStays, AnswersStay DEF LInv

LEMMA ShownQuery ==
  ASSUME TypeOK, NEW l \in Look, NEW op, Shown(l, op)
  PROVE  /\ query[l] \in Query
         /\ op = "dates" => query[l] \in Dates /\ page[l] \in Seq([date : Nat])
         /\ op = "slots" => query[l] \in Slots /\ page[l] \in Seq([slot : Slot])
         /\ op = "mine" => query[l] \in Mine /\ page[l] \in Seq([id : Req, canceled : BOOLEAN])
  <1>1. query[l] \in Query /\ query[l].op = op /\ state[l] = "shown" BY DEF Shown, TypeOK
  <1>2. page[l] \in Seq(CASE query[l].op = "dates" -> [date : Nat]
                           [] query[l].op = "slots" -> [slot : Slot]
                           [] OTHER -> [id : Req, canceled : BOOLEAN])
    BY <1>1 DEF TypeOK
  <1>3. CASE op = "dates" BY <1>1, <1>2, <1>3 DEF Query, Slots, Mine, Visits
  <1>4. CASE op = "slots" BY <1>1, <1>2, <1>4 DEF Query, Dates, Mine, Visits
  <1>5. CASE op = "mine" BY <1>1, <1>2, <1>5 DEF Query, Dates, Slots, Visits
  <1> QED BY <1>1, <1>3, <1>4, <1>5

LEMMA AskToBookKeeps ==
  ASSUME LInv, NEW r \in Req, NEW l \in Look, AskToBook(r, l)
  PROVE  LInv'
  <1>1. PICK k \in DOMAIN page[l], g \in AuthorityTopics : \E t \in g.topics :
          /\ g.authority = query[l].authority
          /\ L!Ask(r, [op |-> "create", user |-> query[l].user, slot |-> page[l][k].slot])
          /\ basis' = [basis EXCEPT ![r] = <<t, l>>]
    BY DEF AskToBook
  <1>2. PICK t \in g.topics :
          /\ g.authority = query[l].authority
          /\ L!Ask(r, [op |-> "create", user |-> query[l].user, slot |-> page[l][k].slot])
          /\ basis' = [basis EXCEPT ![r] = <<t, l>>]
    BY <1>1
  <1>3. t \in Topic /\ TopicAuthority[t] = g.authority BY DEF AuthorityTopics
  <1>4. Shown(l, "slots") /\ UNCHANGED <<now, lookVars>> BY DEF AskToBook
  <1>5. query[l] \in Slots /\ page[l] \in Seq([slot : Slot]) BY <1>4, ShownQuery DEF LInv
  <1> DEFINE c == [op |-> "create", user |-> query[l].user, slot |-> page[l][k].slot]
  <1>6. page[l][k].slot \in Slot
    <2>1. page[l][k] \in [slot : Slot] BY <1>5, ElementOf
    <2> QED BY <2>1
  <1>7. query[l].user \in User BY <1>5 DEF Slots
  <1>8. c \in Call /\ c.op = "create" /\ c.slot = page[l][k].slot BY <1>6, <1>7 DEF Call, CreateCall
  <1> HIDE DEF c
  <1>9. L!Ask(r, c) BY <1>2 DEF c
  <1>10. DOMAIN basis' = Req /\ basis'[r] = <<t, l>> /\ \A q \in Req : q # r => basis'[q] = basis[q]
    BY <1>2 DEF LInv, Functions
  <1> QED BY <1>2, <1>3, <1>4, <1>8, <1>9, <1>10, AskKeeps

LEMMA AskToCancelKeeps ==
  ASSUME LInv, NEW r \in Req, NEW l \in Look, AskToCancel(r, l)
  PROVE  LInv'
  <1>1. PICK k \in DOMAIN page[l] :
          L!Ask(r, [op |-> "cancel", user |-> query[l].user, appt |-> page[l][k].id])
    BY DEF AskToCancel
  <1>2. Shown(l, "mine") /\ UNCHANGED <<now, basis, lookVars>> BY DEF AskToCancel
  <1>3. query[l] \in Mine /\ page[l] \in Seq([id : Req, canceled : BOOLEAN]) BY <1>2, ShownQuery DEF LInv
  <1> DEFINE c == [op |-> "cancel", user |-> query[l].user, appt |-> page[l][k].id]
  <1>4. page[l][k].id \in Req
    <2>1. page[l][k] \in [id : Req, canceled : BOOLEAN] BY <1>3, ElementOf
    <2> QED BY <2>1
  <1>5. query[l].user \in User BY <1>3 DEF Mine
  <1>6. c \in Call /\ c.op = "cancel" /\ c.appt = page[l][k].id /\ c.user = query[l].user
    BY <1>4, <1>5 DEF Call, CancelCall
  <1> HIDE DEF c
  <1>7. L!Ask(r, c) BY <1>1 DEF c
  <1>8. \E a \in ledger : a.id = c.appt /\ a.user = c.user BY <1>2, <1>6 DEF LInv, MineShown
  <1> QED BY <1>2, <1>6, <1>7, <1>8, AskKeeps DEF LInv, Functions, TypeOK

LEMMA AskToLeaveKeeps ==
  ASSUME LInv, NEW r \in Req, NEW u \in User, AskToLeave(r, u)
  PROVE  LInv'
  <1> DEFINE c == [op |-> "delete", user |-> u]
  <1>1. c \in Call /\ c.op = "delete" BY DEF Call, DeleteCall
  <1>2. L!Ask(r, c) /\ UNCHANGED <<now, basis, lookVars>> BY DEF AskToLeave
  <1> HIDE DEF c
  <1> QED BY <1>1, <1>2, AskKeeps DEF LInv, Functions, TypeOK

LEMMA UnchangedKeeps ==
  ASSUME LInv, UNCHANGED <<ledgerVars, basis, lookVars>>, now' \in Time
  PROVE  LInv'
  <1> USE DEF LInv, ledgerVars, lookVars
  <1>1. TypeOK' BY DEF TypeOK, Time
  <1>2. LedgerOK' BY DEF LedgerOK
  <1>3. \A l \in Look : \A op : Shown(l, op)' <=> Shown(l, op) BY DEF Shown
  <1>4. \A s, l : Bookable(s, l)' <=> Bookable(s, l) BY DEF Bookable, NewerBooking
  <1>5. Seen' BY DEF Seen, Booked
  <1>6. SlotsShown' /\ DatesShown' BY <1>3, <1>4 DEF SlotsShown, DatesShown
  <1>7. MineShown' /\ HistoryShown' /\ SlotQueries' BY <1>3 DEF MineShown, HistoryShown, SlotQueries
  <1>8. Bookings' /\ Cancelations' BY <1>3 DEF Bookings, Cancelations
  <1>9. TakenOnlyByNewer' /\ ListedCanBeCanceled' /\ Refusals'
    BY DEF TakenOnlyByNewer, NewerBooking, ListedCanBeCanceled, Refusals
  <1>10. Functions' BY DEF Functions
  <1> QED BY <1>1, <1>2, <1>5, <1>6, <1>7, <1>8, <1>9, <1>10

LEMMA TickKeeps ==
  ASSUME LInv, Tick
  PROVE  LInv'
  <1>1. now' \in Time BY TimeAssumption DEF Tick, LInv, TypeOK, Time
  <1> QED BY <1>1, UnchangedKeeps DEF Tick
-----------------------------------------------------------------------------
(* A step of a listing: the ledger and the other listings stay.             *)
ListingStep(l) ==
  \/ \E q \in Query : /\ Authorize(l, q)
                      /\ q.op = "slots" =>
                           /\ q.dates \in Look /\ Shown(q.dates, "dates")
                           /\ query[q.dates].authority = q.authority
                           /\ \E k \in DOMAIN page[q.dates] : page[q.dates][k].date = q.date
  \/ Show(l)
  \/ Fail(l)

LEMMA ListingKeepsOthers ==
  ASSUME LInv, NEW l \in Look, ListingStep(l)
  PROVE  /\ UNCHANGED <<ledgerVars, now, basis>>
         /\ state[l] \in {"idle", "authorized"}
         /\ \A m \in Look : m # l =>
              /\ state'[m] = state[m] /\ query'[m] = query[m] /\ page'[m] = page[m]
              /\ before'[m] = before[m] /\ at'[m] = at[m]
         /\ \A m \in Look : \A op : Shown(m, op) => m # l /\ Shown(m, op)'
  <1> USE DEF LInv, TypeOK, Functions
  <1>1. ASSUME NEW q, Authorize(l, q)
        PROVE  /\ UNCHANGED <<ledgerVars, now, basis>>
               /\ state[l] \in {"idle", "authorized"}
               /\ \A m \in Look : m # l =>
                    /\ state'[m] = state[m] /\ query'[m] = query[m] /\ page'[m] = page[m]
                    /\ before'[m] = before[m] /\ at'[m] = at[m]
    BY <1>1 DEF Authorize
  <1>2. ASSUME Show(l) \/ Fail(l)
        PROVE  /\ UNCHANGED <<ledgerVars, now, basis>>
               /\ state[l] \in {"idle", "authorized"}
               /\ \A m \in Look : m # l =>
                    /\ state'[m] = state[m] /\ query'[m] = query[m] /\ page'[m] = page[m]
                    /\ before'[m] = before[m] /\ at'[m] = at[m]
    <2>1. CASE Show(l) BY <2>1 DEF Show
    <2>2. CASE Fail(l) BY <2>2 DEF Fail
    <2> QED BY <1>2, <2>1, <2>2
  <1>3. /\ UNCHANGED <<ledgerVars, now, basis>>
        /\ state[l] \in {"idle", "authorized"}
        /\ \A m \in Look : m # l =>
             /\ state'[m] = state[m] /\ query'[m] = query[m] /\ page'[m] = page[m]
             /\ before'[m] = before[m] /\ at'[m] = at[m]
    BY <1>1, <1>2 DEF ListingStep
  <1>4. \A m \in Look : \A op : Shown(m, op) => m # l /\ Shown(m, op)' BY <1>3 DEF Shown
  <1> QED BY <1>3, <1>4

(* What l shows once it is answered.                                        *)
LEMMA FreshPage ==
  ASSUME LInv, NEW l \in Look, Show(l)
  PROVE  /\ state'[l] = "shown" /\ query' = query /\ query[l] \in Query /\ at'[l] = now
         /\ page'[l] \in Pages(query[l]) /\ before'[l] = Booked
  BY DEF LInv, TypeOK, Functions, Show, Booked

(* A slot that a new request would get.                                     *)
Free(s) == \E i \in staff : InspectorAuthority[i] = SlotAuthority[s] /\ ~Occupied(ledger, s, i)

LEMMA FreeRowIsFree ==
  ASSUME NEW a, NEW x \in FreeRows(a)
  PROVE  x[1] \in Slot /\ SlotAuthority[x[1]] = a /\ Free(x[1])
  BY DEF FreeRows, Free

LEMMA PageOf ==
  ASSUME LInv, NEW q \in Query, NEW p \in Pages(q)
  PROVE  /\ q.op = "dates" => q \in Dates /\ p \in DatePages(q)
         /\ q.op = "slots" => q \in Slots /\ p \in SlotPages(q)
         /\ q.op \notin {"dates", "slots"} => q \in Mine \cup Visits /\ p \in AppointmentPages(q)
  <1>1. CASE q \in Dates BY <1>1 DEF Dates, Pages
  <1>2. CASE q \in Slots BY <1>2 DEF Slots, Pages
  <1>3. CASE q \in Mine \cup Visits BY <1>3 DEF Mine, Visits, Pages
  <1> QED BY <1>1, <1>2, <1>3 DEF Query

(* An answer of each kind, as the queries give it.                          *)
LEMMA MinePage ==
  ASSUME LInv, NEW q \in Query, NEW p \in Pages(q), q.op \notin {"dates", "slots"}
  PROVE  /\ p \in Seq([id : Req, canceled : BOOLEAN])
         /\ q.op = "mine" => \A k \in DOMAIN p : \E a \in ledger : a.id = p[k].id /\ a.user = q.user
         /\ \A a \in ledger :
              \/ q.op = "visits" /\ q.inspector = a.inspector
              \/ q.op = "mine" /\ q.user = a.user /\ a.user \in alive
              => \E k \in DOMAIN p : p[k].id = a.id /\ (p[k].canceled => a.canceled)
  <1>1. p \in AppointmentPages(q) BY PageOf
  <1>2. IsFiniteSet(ledger) /\ ledger \subseteq Appointment BY DEF LInv, LedgerOK
  <1>3. /\ p \in Seq([id : Req, canceled : BOOLEAN])
        /\ \A k \in DOMAIN p : \E a \in ledger : PartOf(a, q) /\ p[k].id = a.id /\ p[k].canceled = a.canceled
        /\ \A a \in ledger : PartOf(a, q) => \E k \in DOMAIN p : p[k].id = a.id /\ p[k].canceled = a.canceled
    BY <1>1, <1>2, AppointmentPage, ZenonT(60)
  <1>4. ASSUME q.op = "mine", NEW k \in DOMAIN p PROVE \E a \in ledger : a.id = p[k].id /\ a.user = q.user
    <2>1. PICK a \in ledger : PartOf(a, q) /\ p[k].id = a.id BY <1>3
    <2>2. a.user = q.user BY <1>4, <2>1 DEF PartOf
    <2> QED BY <2>1, <2>2
  <1>5. ASSUME NEW a \in ledger,
               \/ q.op = "visits" /\ q.inspector = a.inspector
               \/ q.op = "mine" /\ q.user = a.user /\ a.user \in alive
        PROVE  \E k \in DOMAIN p : p[k].id = a.id /\ (p[k].canceled => a.canceled)
    <2>1. PartOf(a, q) BY <1>5 DEF PartOf
    <2>2. PICK k \in DOMAIN p : p[k].id = a.id /\ p[k].canceled = a.canceled BY <1>3, <2>1
    <2> QED BY <2>2
  <1> QED BY <1>3, <1>4, <1>5

LEMMA SlotsPage ==
  ASSUME LInv, NEW q \in Query, NEW p \in Pages(q), q.op = "slots"
  PROVE  /\ p \in Seq([slot : Slot])
         /\ \A k \in DOMAIN p : /\ SlotAuthority[p[k].slot] = q.authority
                                /\ DbDate(Start[p[k].slot]) = ArgDate(q.date)
                                /\ Free(p[k].slot)
  <1>1. p \in SlotPages(q) BY PageOf
  <1>2. IsFiniteSet(staff) /\ LedgerOK BY DEF LInv, LedgerOK
  <1>3. /\ p \in Seq([slot : Slot])
        /\ \A k \in DOMAIN p : \E x \in FreeRows(q.authority) :
             p[k].slot = x[1] /\ DbDate(Start[x[1]]) = ArgDate(q.date)
    BY <1>1, <1>2, SlotPage
  <1>4. \A x \in FreeRows(q.authority) : SlotAuthority[x[1]] = q.authority /\ Free(x[1])
    BY <1>2, FreeRowIsFree
  <1>5. ASSUME NEW k \in DOMAIN p
        PROVE  /\ SlotAuthority[p[k].slot] = q.authority
               /\ DbDate(Start[p[k].slot]) = ArgDate(q.date)
               /\ Free(p[k].slot)
    <2>1. PICK x \in FreeRows(q.authority) : p[k].slot = x[1] /\ DbDate(Start[x[1]]) = ArgDate(q.date)
      BY <1>3
    <2> QED BY <1>4, <2>1
  <1> QED BY <1>3, <1>5

LEMMA DatesPage ==
  ASSUME LInv, NEW q \in Query, NEW p \in Pages(q), q.op = "dates"
  PROVE  /\ p \in Seq([date : Nat])
         /\ \A k \in DOMAIN p : \E s \in Slot :
              Start[s] = p[k].date /\ SlotAuthority[s] = q.authority /\ Free(s)
  <1>1. p \in DatePages(q) BY PageOf
  <1>2. IsFiniteSet(staff) /\ LedgerOK BY DEF LInv, LedgerOK
  <1>3. p \in Seq([date : Nat]) /\ \A k \in DOMAIN p : \E x \in FreeRows(q.authority) : p[k].date = Start[x[1]]
    BY <1>1, <1>2, DatePage
  <1>4. \A x \in FreeRows(q.authority) : x[1] \in Slot /\ SlotAuthority[x[1]] = q.authority /\ Free(x[1])
    BY <1>2, FreeRowIsFree
  <1> QED BY <1>3, <1>4

(* The page of a listing that has just been answered.                       *)
LEMMA ShowPage ==
  ASSUME LInv, NEW l \in Look, Show(l)
  PROVE  \E p \in Pages(query[l]) : page'[l] = p
  BY FreshPage

LEMMA ListingTypeKeeps ==
  ASSUME LInv, NEW l \in Look, ListingStep(l)
  PROVE  TypeOK' /\ Functions' /\ Seen'
  <1> USE DEF LInv
  <1> DEFINE PageType(m) == page[m] \in Seq(CASE query[m].op = "dates" -> [date : Nat]
                              [] query[m].op = "slots" -> [slot : Slot]
                              [] OTHER -> [id : Req, canceled : BOOLEAN])
  <1>1. Functions' BY DEF Functions, ListingStep, Authorize, Show, Fail, ListingStep
  <1>2. state' \in [Look -> {"idle", "authorized", "shown", "refused"}]
    BY DEF TypeOK, ListingStep, Authorize, Show, Fail
  <1>3. UNCHANGED <<ledgerVars, now, basis>> BY ListingKeepsOthers
  <1>4. before' \in [Look -> SUBSET Req] /\ Seen'
    <2>1. CASE Show(l)
      <3>1. Booked \subseteq Req BY DEF LedgerOK, Appointment, Booked
      <3>2. before' = [before EXCEPT ![l] = Booked] BY <2>1 DEF Show, Booked
      <3>3. Booked' = Booked BY <1>3 DEF Booked, ledgerVars
      <3> QED BY <3>1, <3>2, <3>3 DEF TypeOK, Seen
    <2>2. CASE ~Show(l)
      <3>1. before' = before BY <2>2 DEF ListingStep, Authorize, Fail
      <3> QED BY <1>3, <3>1 DEF TypeOK, Seen, Booked, ledgerVars
    <2> QED BY <2>1, <2>2
  <1>5. at' \in [Look -> Time]
    <2>1. CASE Show(l) BY <2>1 DEF Show, TypeOK
    <2>2. CASE ~Show(l) BY <2>2 DEF ListingStep, Authorize, Fail, TypeOK
    <2> QED BY <2>1, <2>2
  <1>6. \A m \in Look : state'[m] # "idle" => query'[m] \in Query
    BY DEF TypeOK, Functions, ListingStep, Authorize, Show, Fail
  <1>7. \A m \in Look : state'[m] = "shown" => PageType(m)'
    <2>1. \A m \in Look : m # l => (state'[m] = "shown" => PageType(m)')
      <3>1. \A m \in Look : state[m] = "shown" => PageType(m) BY DEF TypeOK
      <3>2. TAKE m \in Look
      <3>3. HAVE m # l
      <3>4. HAVE state'[m] = "shown"
      <3>5. state[m] = "shown" /\ page'[m] = page[m] /\ query'[m] = query[m] BY <3>3, <3>4, ListingKeepsOthers
      <3> QED BY <3>1, <3>5
    <2>2. CASE Show(l)
      <3>1. query' = query /\ query[l] \in Query BY <2>2, FreshPage
      <3>2. PICK p \in Pages(query[l]) : page'[l] = p BY <2>2, ShowPage
      <3>3. PageType(l)'
        <4>1. CASE query[l].op = "dates" BY <3>1, <3>2, <4>1, DatesPage
        <4>2. CASE query[l].op = "slots" BY <3>1, <3>2, <4>2, SlotsPage
        <4>3. CASE query[l].op \notin {"dates", "slots"} BY <3>1, <3>2, <4>3, MinePage
        <4> QED BY <4>1, <4>2, <4>3
      <3> QED BY <2>1, <3>3
    <2>3. CASE ~Show(l)
      <3>1. state'[l] # "shown" BY <2>3 DEF ListingStep, Authorize, Fail, TypeOK
      <3> QED BY <2>1, <3>1
    <2> QED BY <2>2, <2>3
  <1>8. ledger' \subseteq Appointment /\ now' \in Time
        /\ \A r \in Req : basis'[r] = <<>> \/ basis'[r] \in Topic \X Look
    BY <1>3 DEF TypeOK, ledgerVars
  <1> QED BY <1>1, <1>2, <1>4, <1>5, <1>6, <1>7, <1>8 DEF TypeOK

LEMMA ListingKeeps ==
  ASSUME LInv, NEW l \in Look, ListingStep(l)
  PROVE  LInv'
  <1> USE DEF LInv
  <1>1. /\ UNCHANGED <<ledgerVars, now, basis>>
        /\ \A m \in Look : m # l =>
             /\ state'[m] = state[m] /\ query'[m] = query[m] /\ page'[m] = page[m]
             /\ before'[m] = before[m] /\ at'[m] = at[m]
        /\ \A m \in Look : \A op : Shown(m, op) => m # l /\ Shown(m, op)'
    BY ListingKeepsOthers
  <1>2. /\ alive' = alive /\ staff' = staff /\ ledger' = ledger /\ asked' = asked /\ answer' = answer
        /\ basis' = basis
    BY <1>1 DEF ledgerVars
  <1>3. \A m \in Look : \A op : Shown(m, op)' => Shown(m, op) \/ (m = l /\ Show(l) /\ query[l].op = op)
    <2> SUFFICES ASSUME NEW m \in Look, NEW op, Shown(m, op)'
                 PROVE  Shown(m, op) \/ (m = l /\ Show(l) /\ query[l].op = op)
      OBVIOUS
    <2>1. CASE m # l BY <1>1, <2>1 DEF Shown
    <2>2. CASE m = l /\ Show(l) BY <2>2, FreshPage DEF Shown
    <2>3. CASE m = l /\ ~Show(l) BY <2>3 DEF Shown, ListingStep, Authorize, Fail, TypeOK
    <2> QED BY <2>1, <2>2, <2>3
  <1>4. \A s : \A m \in Look : m # l /\ Bookable(s, m) => Bookable(s, m)'
    BY <1>1, <1>2 DEF Bookable, NewerBooking
  <1>5. \A s, m : Free(s) => Bookable(s, m)' BY <1>2 DEF Bookable, Free
  <1>6. TypeOK' /\ Functions' /\ Seen' BY ListingTypeKeeps
  <1>7. LedgerOK' BY <1>2 DEF LedgerOK
  <1>8. SlotsShown'
    <2> SUFFICES ASSUME NEW m \in Look, Shown(m, "slots")', NEW k \in DOMAIN page'[m]
                 PROVE  /\ SlotAuthority[page'[m][k].slot] = query'[m].authority
                        /\ DbDate(Start[page'[m][k].slot]) = ArgDate(query'[m].date)
                        /\ Bookable(page[m][k].slot, m)'
      BY DEF SlotsShown
    <2>1. CASE Shown(m, "slots") BY <1>1, <1>4, <2>1 DEF SlotsShown
    <2>2. CASE m = l /\ Show(l) /\ query[l].op = "slots"
      <3>1. query' = query /\ query[l] \in Query BY <2>2, FreshPage
      <3>2. PICK p \in Pages(query[l]) : page'[l] = p BY <2>2, ShowPage
      <3> QED BY <1>5, <2>2, <3>1, <3>2, SlotsPage
    <2> QED BY <1>3, <2>1, <2>2
  <1>9. DatesShown'
    <2> SUFFICES ASSUME NEW m \in Look, Shown(m, "dates")', NEW k \in DOMAIN page'[m]
                 PROVE  \E s \in Slot : /\ Start[s] = page'[m][k].date
                                        /\ SlotAuthority[s] = query'[m].authority
                                        /\ Bookable(s, m)'
      BY DEF DatesShown
    <2>1. CASE Shown(m, "dates") BY <1>1, <1>4, <2>1 DEF DatesShown
    <2>2. CASE m = l /\ Show(l) /\ query[l].op = "dates"
      <3>1. query' = query /\ query[l] \in Query BY <2>2, FreshPage
      <3>2. PICK p \in Pages(query[l]) : page'[l] = p BY <2>2, ShowPage
      <3>3. \A i \in DOMAIN p : \E s \in Slot :
              /\ SlotAuthority[s] = query[l].authority /\ Start[s] = p[i].date /\ Free(s)
        BY <2>2, <3>1, <3>2, DatesPage
      <3> QED BY <1>5, <2>2, <3>1, <3>2, <3>3
    <2> QED BY <1>3, <2>1, <2>2
  <1>10. MineShown'
    <2> SUFFICES ASSUME NEW m \in Look, Shown(m, "mine")', NEW k \in DOMAIN page'[m]
                 PROVE  \E a \in ledger : a.id = page'[m][k].id /\ a.user = query'[m].user
      BY <1>2 DEF MineShown
    <2>1. CASE Shown(m, "mine") BY <1>1, <2>1 DEF MineShown
    <2>2. CASE m = l /\ Show(l) /\ query[l].op = "mine"
      <3>1. query' = query /\ query[l] \in Query BY <2>2, FreshPage
      <3>2. PICK p \in Pages(query[l]) : page'[l] = p BY <2>2, ShowPage
      <3> QED BY <2>2, <3>1, <3>2, MinePage
    <2> QED BY <1>3, <2>1, <2>2
  <1>11. HistoryShown'
    <2> SUFFICES ASSUME NEW m \in Look, NEW a \in ledger, a.id \in before'[m],
                        \/ Shown(m, "visits")' /\ query'[m].inspector = a.inspector
                        \/ Shown(m, "mine")' /\ query'[m].user = a.user /\ a.user \in alive
                 PROVE  \E k \in DOMAIN page'[m] : page'[m][k].id = a.id /\ (page'[m][k].canceled => a.canceled)
      BY <1>2 DEF HistoryShown
    <2>1. CASE Shown(m, "visits") \/ Shown(m, "mine")
      <3>1. m # l /\ query'[m] = query[m] /\ page'[m] = page[m] /\ before'[m] = before[m] BY <1>1, <2>1
      <3>2. \/ Shown(m, "visits") /\ query[m].inspector = a.inspector
            \/ Shown(m, "mine") /\ query[m].user = a.user /\ a.user \in alive
        BY <1>3, <3>1
      <3> QED BY <3>1, <3>2 DEF HistoryShown
    <2>2. CASE m = l /\ Show(l) /\ ~Shown(m, "visits") /\ ~Shown(m, "mine")
      <3>1. query' = query /\ query[l] \in Query BY <2>2, FreshPage
      <3>2. PICK p \in Pages(query[l]) : page'[l] = p BY <2>2, ShowPage
      <3>3. \/ query[l].op = "visits" /\ query[l].inspector = a.inspector
            \/ query[l].op = "mine" /\ query[l].user = a.user /\ a.user \in alive
        BY <1>3, <2>2, <3>1
      <3>4. \E k \in DOMAIN p : p[k].id = a.id /\ (p[k].canceled => a.canceled) BY <3>1, <3>3, MinePage
      <3> QED BY <2>2, <3>2, <3>4
    <2> QED BY <1>3, <2>1, <2>2
  <1>12. SlotQueries'
    <2> SUFFICES ASSUME NEW m \in Look, state'[m] # "idle", query'[m].op = "slots"
                 PROVE  \E d \in Look :
                          /\ d = query'[m].dates /\ Shown(d, "dates")
                          /\ query[d].authority = query'[m].authority
                          /\ \E k \in DOMAIN page[d] : page[d][k].date = query'[m].date
      BY <1>1 DEF SlotQueries
    <2>1. CASE m # l \/ Show(l) \/ Fail(l)
      <3>1. query'[m] = query[m] /\ state[m] # "idle" BY <1>1, <2>1 DEF Show, Fail
      <3> QED BY <3>1 DEF SlotQueries
    <2>2. CASE m = l /\ ~Show(l) /\ ~Fail(l)
      <3>1. PICK q \in Query : /\ Authorize(l, q)
                               /\ q.op = "slots" =>
                                    /\ q.dates \in Look /\ Shown(q.dates, "dates")
                                    /\ query[q.dates].authority = q.authority
                                    /\ \E k \in DOMAIN page[q.dates] : page[q.dates][k].date = q.date
        BY <2>2 DEF ListingStep
      <3>2. query'[m] = q BY <2>2, <3>1 DEF Authorize, Functions
      <3> QED BY <3>1, <3>2
    <2> QED BY <2>1, <2>2
  <1>13. Bookings' BY <1>1, <1>2 DEF Bookings
  <1>14. Cancelations' BY <1>2 DEF Cancelations
  <1>15. ListedCanBeCanceled' /\ Refusals' BY <1>2 DEF ListedCanBeCanceled, Refusals
  <1>16. TakenOnlyByNewer'
    <2> SUFFICES ASSUME NEW r \in Req, answer[r] = "taken"
                 PROVE  \E a \in ledger : a.slot = asked[r].slot /\ a.id \notin before'[basis[r][2]]
      BY <1>2 DEF TakenOnlyByNewer, NewerBooking
    <2>1. asked[r].op = "create" BY DEF Refusals
    <2>2. PICK t \in Topic, m \in Look : basis[r] = <<t, m>> /\ Shown(m, "slots") BY <2>1 DEF Bookings
    <2>3. basis[r][2] = m /\ before'[m] = before[m] BY <1>1, <2>2
    <2> QED BY <2>3 DEF TakenOnlyByNewer, NewerBooking
  <1> QED BY <1>6, <1>7, <1>8, <1>9, <1>10, <1>11, <1>12, <1>13, <1>14, <1>15, <1>16
-----------------------------------------------------------------------------
(* A client asks for what it was shown: each of its listings is a step of   *)
(* that kind.                                                               *)
LEMMA ClientListings ==
  ASSUME LInv, NEW l \in Look,
         LookForDates(l) \/ LookForSlots(l) \/ LookForAppointments(l) \/ Show(l) \/ Fail(l)
  PROVE  ListingStep(l)
  <1>1. CASE LookForDates(l)
    <2>1. PICK u \in User, g \in AuthorityTopics, f \in Period :
            Authorize(l, [op |-> "dates", user |-> u, authority |-> g.authority, range |-> f])
      BY <1>1 DEF LookForDates
    <2> DEFINE q == [op |-> "dates", user |-> u, authority |-> g.authority, range |-> f]
    <2>2. g.authority \in Authority BY TopicAssumption DEF AuthorityTopics
    <2>3. q \in Query /\ q.op = "dates" BY <2>2 DEF Query, Dates
    <2> HIDE DEF q
    <2>4. Authorize(l, q) BY <2>1 DEF q
    <2> QED BY <2>3, <2>4 DEF ListingStep
  <1>2. CASE LookForSlots(l)
    <2>1. PICK d \in Look : \E k \in DOMAIN page[d] :
            /\ Shown(d, "dates")
            /\ Authorize(l, [op |-> "slots", user |-> query[d].user, authority |-> query[d].authority,
                             date |-> page[d][k].date, dates |-> d])
      BY <1>2 DEF LookForSlots
    <2>2. PICK k \in DOMAIN page[d] :
            /\ Shown(d, "dates")
            /\ Authorize(l, [op |-> "slots", user |-> query[d].user, authority |-> query[d].authority,
                             date |-> page[d][k].date, dates |-> d])
      BY <2>1
    <2>3. query[d] \in Dates /\ page[d] \in Seq([date : Nat]) BY <2>2, ShownQuery DEF LInv
    <2>4. page[d][k] \in [date : Nat] BY <2>3, ElementOf
    <2>5. page[d][k].date \in Nat BY <2>4
    <2> DEFINE q == [op |-> "slots", user |-> query[d].user, authority |-> query[d].authority,
                     date |-> page[d][k].date, dates |-> d]
    <2>6. q \in Query BY <2>3, <2>5 DEF Query, Slots, Dates
    <2>7. q.dates = d /\ q.authority = query[d].authority /\ q.date = page[d][k].date OBVIOUS
    <2> HIDE DEF q
    <2>8. Authorize(l, q) BY <2>2 DEF q
    <2> QED BY <2>2, <2>6, <2>7, <2>8 DEF ListingStep
  <1>3. CASE LookForAppointments(l)
    <2>1. PICK q \in Mine \cup Visits : Authorize(l, q) BY <1>3 DEF LookForAppointments
    <2>2. q \in Query /\ q.op # "slots" BY DEF Query, Mine, Visits
    <2> QED BY <2>1, <2>2 DEF ListingStep
  <1>4. CASE Show(l) \/ Fail(l) BY <1>4 DEF ListingStep
  <1> QED BY <1>1, <1>2, <1>3, <1>4

LEMMA LInvInit ==
  ASSUME Init
  PROVE  LInv
  <1>1. /\ alive = User /\ staff = {} /\ ledger = {}
        /\ asked = [r \in Req |-> NoCall] /\ answer = [r \in Req |-> "none"]
    BY LedgerOperators DEF Init, L!Init
  <1>2. \A r \in Req : asked[r] = NoCall /\ answer[r] = "none" BY <1>1
  <1>3. \A l \in Look : state[l] = "idle" /\ before[l] = {} BY DEF Init
  <1>4. NoCall.op \notin {"create", "cancel"} BY DEF NoCall
  <1>5. LedgerOK
    <2>1. IsFiniteSet(staff) /\ IsFiniteSet(ledger) BY <1>1, FS_EmptySet
    <2> QED BY <1>1, <2>1 DEF LedgerOK, Answers
  <1>6. TypeOK
    <2>1. now \in Time BY TimeAssumption DEF Init, Time
    <2> QED BY <1>1, <2>1 DEF Init, TypeOK
  <1>7. Functions BY DEF Init, Functions
  <1>8. Seen /\ SlotsShown /\ DatesShown /\ MineShown /\ SlotQueries
    BY <1>3 DEF Seen, SlotsShown, DatesShown, MineShown, SlotQueries, Shown
  <1>9. HistoryShown BY <1>1 DEF HistoryShown
  <1>10. Bookings /\ Cancelations /\ Refusals /\ TakenOnlyByNewer /\ ListedCanBeCanceled
    BY <1>2, <1>4 DEF Bookings, Cancelations, Refusals, TakenOnlyByNewer, ListedCanBeCanceled
  <1> QED BY <1>5, <1>6, <1>7, <1>8, <1>9, <1>10 DEF LInv

LEMMA LInvStep ==
  ASSUME LInv, [Next]_vars
  PROVE  LInv'
  <1>1. CASE UNCHANGED vars
    <2>1. now' \in Time BY <1>1 DEF vars, LInv, TypeOK, Time
    <2>2. UNCHANGED <<ledgerVars, basis, lookVars>> BY <1>1 DEF vars
    <2> QED BY <2>1, <2>2, UnchangedKeeps
  <1>2. CASE LedgerStep BY <1>2, LedgerStepKeeps
  <1>3. CASE Tick BY <1>3, TickKeeps
  <1>4. ASSUME NEW l \in Look,
               LookForDates(l) \/ LookForSlots(l) \/ LookForAppointments(l) \/ Show(l) \/ Fail(l)
        PROVE  LInv'
    BY <1>4, ClientListings, ListingKeeps
  <1>5. ASSUME NEW r \in Req, NEW l \in Look, AskToBook(r, l) PROVE LInv' BY <1>5, AskToBookKeeps
  <1>6. ASSUME NEW r \in Req, NEW l \in Look, AskToCancel(r, l) PROVE LInv' BY <1>6, AskToCancelKeeps
  <1>7. ASSUME NEW r \in Req, NEW u \in User, AskToLeave(r, u) PROVE LInv' BY <1>7, AskToLeaveKeeps
  <1> QED BY <1>1, <1>2, <1>3, <1>4, <1>5, <1>6, <1>7 DEF Next

LEMMA LInvAlways == Spec => []LInv
  <1>1. Init => LInv BY LInvInit
  <1>2. LInv /\ [Next]_vars => LInv' BY LInvStep
  <1> QED BY <1>1, <1>2, PTL DEF Spec
-----------------------------------------------------------------------------
(* Requests, listings and their pages are what the API promises.            *)
THEOREM ListingsTypeCorrect == Spec => []TypeOK
  <1>1. LInv => TypeOK BY DEF LInv
  <1> QED BY <1>1, LInvAlways, PTL

(* A booking of a listed slot is refused only because somebody was faster,  *)
(* although the listing and the booking are separate requests.              *)
THEOREM RefusedOnlyWhenOvertaken == Spec => []TakenOnlyByNewer
  <1>1. LInv => TakenOnlyByNewer BY DEF LInv
  <1> QED BY <1>1, LInvAlways, PTL

(* What ListConsultationAppointments shows, CancelConsultationAppointment   *)
(* finds.                                                                   *)
THEOREM ShownAppointmentsAreFound == Spec => []ListedCanBeCanceled
  <1>1. LInv => ListedCanBeCanceled BY DEF LInv
  <1> QED BY <1>1, LInvAlways, PTL

(* A list of appointments is complete, and canceled stays canceled.         *)
THEOREM HistoriesAreComplete == Spec => []HistoryShown
  <1>1. LInv => HistoryShown BY DEF LInv
  <1> QED BY <1>1, LInvAlways, PTL

(* A client that follows the listings mixes no authorities, although the    *)
(* booking endpoint does not compare the topic with the slot.               *)
THEOREM FollowersNeverMixAuthorities == Spec => []OneAuthority
  <1>1. ASSUME LInv PROVE OneAuthority
    <2> SUFFICES ASSUME NEW a \in ledger
                 PROVE  /\ TopicAuthority[basis[a.id][1]] = SlotAuthority[a.slot]
                        /\ InspectorAuthority[a.inspector] = SlotAuthority[a.slot]
      BY DEF OneAuthority
    <2>1. /\ asked[a.id].op = "create" /\ asked[a.id].slot = a.slot /\ a.id \in Req
          /\ InspectorAuthority[a.inspector] = SlotAuthority[a.slot]
      BY <1>1 DEF LInv, LedgerOK, Appointment
    <2>2. PICK t \in Topic, l \in Look :
            /\ basis[a.id] = <<t, l>> /\ Shown(l, "slots") /\ TopicAuthority[t] = query[l].authority
            /\ \E k \in DOMAIN page[l] : page[l][k].slot = a.slot
      BY <1>1, <2>1 DEF LInv, Bookings
    <2>3. SlotAuthority[a.slot] = query[l].authority BY <1>1, <2>2 DEF LInv, SlotsShown
    <2>4. basis[a.id][1] = t BY <2>2
    <2> QED BY <2>1, <2>2, <2>3, <2>4
  <1> QED BY <1>1, LInvAlways, PTL
-----------------------------------------------------------------------------
(* What the date comparisons rely on: a slot begins and ends on one date,   *)
(* the same in the database's time zone and in UTC.                         *)
OneDate ==
  \A s \in Slot : DbDate(Start[s]) = ArgDate(Start[s]) /\ ArgDate(End[s]) = ArgDate(Start[s])

(* If that holds of all slots, app.proto's guarantee does: the times of a   *)
(* listed slot are on the date that was asked for.                          *)
THEOREM SlotsAreOnTheirDate ==
  ASSUME OneDate
  PROVE  Spec => []SlotsOnDate
  <1>1. ASSUME LInv PROVE SlotsOnDate
    <2> SUFFICES ASSUME NEW l \in Look, Shown(l, "slots"), NEW k \in DOMAIN page[l]
                 PROVE  /\ ArgDate(Start[page[l][k].slot]) = ArgDate(query[l].date)
                        /\ ArgDate(End[page[l][k].slot]) = ArgDate(query[l].date)
      BY DEF SlotsOnDate
    <2>1. DbDate(Start[page[l][k].slot]) = ArgDate(query[l].date) BY <1>1 DEF LInv, SlotsShown
    <2>2. page[l] \in Seq([slot : Slot]) BY <1>1, ShownQuery DEF LInv
    <2>3. page[l][k] \in [slot : Slot] BY <2>2, ElementOf
    <2>4. page[l][k].slot \in Slot BY <2>3
    <2> QED BY <1>1, <2>1, <2>4 DEF OneDate
  <1> QED BY <1>1, LInvAlways, PTL

(* What a client was shown of its dates stays, while the ledger moves on.   *)
LEMMA DatesHaveSlotsStays ==
  ASSUME LInv, DatesHaveSlots, UNCHANGED lookVars, \A a \in ledger : \E b \in ledger' : Same(a, b)
  PROVE  DatesHaveSlots'
  <1> SUFFICES ASSUME NEW l \in Look, Shown(l, "slots")'
               PROVE  \E s \in Slot :
                        /\ SlotAuthority[s] = query'[l].authority /\ Start[s] = query'[l].date
                        /\ \/ \E k \in DOMAIN page'[l] : page'[l][k].slot = s
                           \/ Start[s] <= at'[l]
                           \/ \E a \in ledger' : a.slot = s /\ a.id \in before'[l] \ before'[query'[l].dates]
    BY DEF DatesHaveSlots
  <1>1. Shown(l, "slots") BY DEF Shown, lookVars
  <1>2. PICK s \in Slot :
          /\ SlotAuthority[s] = query[l].authority /\ Start[s] = query[l].date
          /\ \/ \E k \in DOMAIN page[l] : page[l][k].slot = s
             \/ Start[s] <= at[l]
             \/ \E a \in ledger : a.slot = s /\ a.id \in before[l] \ before[query[l].dates]
    BY <1>1 DEF DatesHaveSlots
  <1> QED BY <1>2 DEF lookVars, Same

(* A slot of a listed date, when the slots of that date are listed.         *)
LEMMA DatesHaveSlotsShown ==
  ASSUME OneDate, LInv, NEW l \in Look, Show(l), query[l].op = "slots"
  PROVE  \E s \in Slot :
           /\ SlotAuthority[s] = query[l].authority /\ Start[s] = query[l].date
           /\ \/ \E k \in DOMAIN page'[l] : page'[l][k].slot = s
              \/ Start[s] <= now
              \/ \E a \in ledger : a.slot = s /\ a.id \in Booked \ before[query[l].dates]
  <1>1. query[l] \in Query BY FreshPage
  <1>2. PICK p \in Pages(query[l]) : page'[l] = p BY ShowPage
  <1> DEFINE q == query[l]
  <1>3. q \in Slots /\ p \in SlotPages(q) BY <1>1, PageOf
  <1>4. q.date \in Nat /\ now \in Nat BY <1>3, TimeAssumption DEF Slots, LInv, TypeOK, Time
  <1>5. state[l] # "idle" BY DEF Show
  <1>6. /\ q.dates \in Look /\ Shown(q.dates, "dates") /\ query[q.dates].authority = q.authority
        /\ \E k \in DOMAIN page[q.dates] : page[q.dates][k].date = q.date
    BY <1>5 DEF LInv, SlotQueries
  <1>7. PICK s \in Slot : Start[s] = q.date /\ SlotAuthority[s] = q.authority /\ Bookable(s, q.dates)
    BY <1>6 DEF LInv, DatesShown
  <1>8. CASE NewerBooking(s, q.dates) BY <1>7, <1>8 DEF NewerBooking, Booked
  <1>9. CASE Free(s) /\ ~(Start[s] <= now)
    <2>1. PICK i \in staff : InspectorAuthority[i] = SlotAuthority[s] /\ ~Occupied(ledger, s, i)
      BY <1>9 DEF Free
    <2>2. Start[s] > now BY <1>4, <1>7, <1>9
    <2> DEFINE x == <<s, i>>
    <2>3. x \in FreeRows(q.authority) BY <1>7, <2>1, <2>2 DEF FreeRows
    <2>4. DbDate(Start[x[1]]) = ArgDate(q.date) BY <1>7 DEF OneDate
    <2>5. IsFiniteSet(staff) BY DEF LInv, LedgerOK
    <2>6. x[1] = s OBVIOUS
    <2> HIDE DEF x
    <2>7. \E k \in DOMAIN p : p[k].slot = x[1] BY <1>3, <2>3, <2>4, <2>5, SlotPage
    <2> QED BY <1>2, <1>7, <2>6, <2>7
  <1>10. CASE Start[s] <= now BY <1>7, <1>10
  <1> QED BY <1>7, <1>8, <1>9, <1>10 DEF Bookable, Free

LEMMA DatesHaveSlotsListing ==
  ASSUME OneDate, LInv, DatesHaveSlots, NEW l \in Look, ListingStep(l)
  PROVE  DatesHaveSlots'
  <1>1. /\ UNCHANGED <<ledgerVars, now, basis>>
        /\ \A m \in Look : m # l =>
             /\ state'[m] = state[m] /\ query'[m] = query[m] /\ page'[m] = page[m]
             /\ before'[m] = before[m] /\ at'[m] = at[m]
        /\ \A m \in Look : \A op : Shown(m, op) => m # l /\ Shown(m, op)'
    BY ListingKeepsOthers
  <1>2. ledger' = ledger BY <1>1 DEF ledgerVars
  <1> SUFFICES ASSUME NEW m \in Look, Shown(m, "slots")'
               PROVE  \E s \in Slot :
                        /\ SlotAuthority[s] = query'[m].authority /\ Start[s] = query'[m].date
                        /\ \/ \E k \in DOMAIN page'[m] : page'[m][k].slot = s
                           \/ Start[s] <= at'[m]
                           \/ \E a \in ledger : a.slot = s /\ a.id \in before'[m] \ before'[query'[m].dates]
    BY <1>2 DEF DatesHaveSlots
  <1>3. CASE m # l
    <2>1. Shown(m, "slots") /\ state[m] # "idle" BY <1>1, <1>3 DEF Shown
    <2>2. query[m].dates # l /\ query[m].dates \in Look
      BY <1>1, <2>1 DEF LInv, SlotQueries, Shown
    <2>3. before'[query[m].dates] = before[query[m].dates] BY <1>1, <2>2
    <2>4. query'[m] = query[m] /\ page'[m] = page[m] /\ before'[m] = before[m] /\ at'[m] = at[m]
      BY <1>1, <1>3
    <2> QED BY <2>1, <2>3, <2>4 DEF DatesHaveSlots
  <1>4. CASE m = l
    <2>1. Show(l) BY <1>4 DEF Shown, ListingStep, Authorize, Fail, LInv, TypeOK
    <2>2. query' = query /\ at'[l] = now /\ before'[l] = Booked /\ query[l].op = "slots"
      BY <1>4, <2>1, FreshPage DEF Shown
    <2>3. query[l].dates # l /\ query[l].dates \in Look
      BY <1>1, <2>1, <2>2 DEF LInv, SlotQueries, Show
    <2>4. before'[query[l].dates] = before[query[l].dates] BY <1>1, <2>3
    <2> QED BY <1>4, <2>1, <2>2, <2>4, DatesHaveSlotsShown
  <1> QED BY <1>3, <1>4

(* If slots have one date, a date that was listed leads to a slot, unless   *)
(* it was booked or has started in the meantime.                            *)
THEOREM ListedDatesLeadToSlots ==
  ASSUME OneDate
  PROVE  Spec => []DatesHaveSlots
  <1>1. Init => DatesHaveSlots BY DEF Init, DatesHaveSlots, Shown
  <1>2. ASSUME LInv, DatesHaveSlots, [Next]_vars PROVE DatesHaveSlots'
    <2>1. CASE UNCHANGED vars
      BY <1>2, <2>1 DEF vars, ledgerVars, lookVars, DatesHaveSlots, Shown
    <2>2. CASE LedgerStep
      <3>1. Moves BY <1>2, <2>2, LedgerMoves DEF LInv, LedgerAction
      <3>2. UNCHANGED lookVars BY <2>2 DEF LedgerStep
      <3> QED BY <1>2, <3>1, <3>2, DatesHaveSlotsStays DEF Moves
    <2>3. ASSUME UNCHANGED <<ledger, lookVars>> PROVE DatesHaveSlots'
      BY <1>2, <2>3 DEF lookVars, DatesHaveSlots, Shown
    <2>4. CASE Tick BY <2>3, <2>4 DEF Tick, ledgerVars
    <2>5. ASSUME NEW l \in Look,
                 LookForDates(l) \/ LookForSlots(l) \/ LookForAppointments(l) \/ Show(l) \/ Fail(l)
          PROVE  DatesHaveSlots'
      BY <1>2, <2>5, ClientListings, DatesHaveSlotsListing
    <2>6. ASSUME NEW r \in Req, NEW l \in Look, AskToBook(r, l) PROVE DatesHaveSlots'
      BY <2>3, <2>6 DEF AskToBook, L!Ask
    <2>7. ASSUME NEW r \in Req, NEW l \in Look, AskToCancel(r, l) PROVE DatesHaveSlots'
      BY <2>3, <2>7 DEF AskToCancel, L!Ask
    <2>8. ASSUME NEW r \in Req, NEW u \in User, AskToLeave(r, u) PROVE DatesHaveSlots'
      BY <2>3, <2>8 DEF AskToLeave, L!Ask
    <2> QED BY <1>2, <2>1, <2>2, <2>4, <2>5, <2>6, <2>7, <2>8 DEF Next
  <1> QED BY <1>1, <1>2, LInvAlways, PTL DEF Spec
-----------------------------------------------------------------------------
(* What a client asks for after a listing is a call of the API: with a slot *)
(* or an appointment of a page, and the user the page was shown to.         *)
LEMMA ClientCalls ==
  ASSUME LInv, NEW r \in Req,
         \/ \E l \in Look : AskToBook(r, l) \/ AskToCancel(r, l)
         \/ \E u \in User : AskToLeave(r, u)
  PROVE  \E c \in Call : L!Ask(r, c)
  <1>1. ASSUME NEW l \in Look, AskToBook(r, l) PROVE \E c \in Call : L!Ask(r, c)
    <2>1. Shown(l, "slots") BY <1>1 DEF AskToBook
    <2>2. query[l] \in Slots /\ page[l] \in Seq([slot : Slot]) BY <2>1, ShownQuery DEF LInv
    <2>3. PICK k \in DOMAIN page[l] :
            L!Ask(r, [op |-> "create", user |-> query[l].user, slot |-> page[l][k].slot])
      BY <1>1 DEF AskToBook
    <2>4. page[l][k] \in [slot : Slot] BY <2>2, ElementOf
    <2>5. page[l][k].slot \in Slot /\ query[l].user \in User BY <2>2, <2>4 DEF Slots
    <2>6. [op |-> "create", user |-> query[l].user, slot |-> page[l][k].slot] \in Call
      BY <2>5 DEF Call, CreateCall
    <2> QED BY <2>3, <2>6
  <1>2. ASSUME NEW l \in Look, AskToCancel(r, l) PROVE \E c \in Call : L!Ask(r, c)
    <2>1. Shown(l, "mine") BY <1>2 DEF AskToCancel
    <2>2. query[l] \in Mine /\ page[l] \in Seq([id : Req, canceled : BOOLEAN]) BY <2>1, ShownQuery DEF LInv
    <2>3. PICK k \in DOMAIN page[l] :
            L!Ask(r, [op |-> "cancel", user |-> query[l].user, appt |-> page[l][k].id])
      BY <1>2 DEF AskToCancel
    <2>4. page[l][k] \in [id : Req, canceled : BOOLEAN] BY <2>2, ElementOf
    <2>5. page[l][k].id \in Req /\ query[l].user \in User BY <2>2, <2>4 DEF Mine
    <2>6. [op |-> "cancel", user |-> query[l].user, appt |-> page[l][k].id] \in Call
      BY <2>5 DEF Call, CancelCall
    <2> QED BY <2>3, <2>6
  <1>3. ASSUME NEW u \in User, AskToLeave(r, u) PROVE \E c \in Call : L!Ask(r, c)
    <2>1. [op |-> "delete", user |-> u] \in Call BY DEF Call, DeleteCall
    <2> QED BY <1>3, <2>1 DEF AskToLeave
  <1> QED BY <1>1, <1>2, <1>3

(* Clients that follow the listings, their listings and the passing of time *)
(* take no step that the ledger does not know, so that Booking, which       *)
(* implements the ledger with its statements, has all they need: nothing    *)
(* they are shown makes them ask for what the API does not take.            *)
THEOREM ListingsKeepToTheLedger == Spec => L!Spec
  <1>1. Init => L!Init BY DEF Init
  <1>2. ASSUME LInv, [Next]_vars PROVE [L!Next]_(L!vars)
    <2> USE DEF ledgerVars, L!vars
    <2>1. CASE UNCHANGED vars BY <2>1 DEF vars
    <2>2. CASE LedgerStep BY <2>2 DEF LedgerStep, L!Next
    <2>3. CASE Tick BY <2>3 DEF Tick
    <2>4. ASSUME NEW l \in Look,
                 LookForDates(l) \/ LookForSlots(l) \/ LookForAppointments(l) \/ Show(l) \/ Fail(l)
          PROVE  UNCHANGED ledgerVars
      <3>1. ListingStep(l) BY <1>2, <2>4, ClientListings
      <3> QED BY <1>2, <3>1, ListingKeepsOthers
    <2>5. ASSUME NEW r \in Req,
                 \/ \E l \in Look : AskToBook(r, l) \/ AskToCancel(r, l)
                 \/ \E u \in User : AskToLeave(r, u)
          PROVE  L!Next
      <3>1. PICK c \in Call : L!Ask(r, c) BY <1>2, <2>5, ClientCalls
      <3>2. c \in L!Call BY LedgerOperators
      <3> QED BY <3>1, <3>2 DEF L!Next
    <2> QED BY <1>2, <2>1, <2>2, <2>3, <2>4, <2>5 DEF Next
  <1> QED BY <1>1, <1>2, LInvAlways, PTL DEF Spec, L!Spec
=============================================================================
