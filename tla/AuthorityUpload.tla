--------------------------- MODULE AuthorityUpload ---------------------------
(***************************************************************************)
(* Uploads of authority workbooks through the admin panel. Each parsed     *)
(* workbook is stored by one transaction of three multi-row inserts with   *)
(* ON CONFLICT DO NOTHING: the authorities, whose ids are then selected,   *)
(* their topics and their slots. Uploads of overlapping workbooks run at   *)
(* the same time, wait for each other's rows and may deadlock.             *)
(***************************************************************************)
EXTENDS Naturals, Sequences, FiniteSets

CONSTANTS
  Upload,     \* requests to POST a workbook
  Name,       \* authority names
  Item,       \* topic names and time ranges, and what authority rows have instead
  File,       \* File[u][k]: the rows of u's k-th insert, in the workbook's order
  Faulty      \* uploads whose database calls may fail

Table == {"authority", "topic", "slot"}
Row   == [table : Table, authority : Name, item : Item]
Stage == 1 .. 3

AuthorityRows(rows) == {r \in rows : r.table = "authority"}
NamesIn(rows) == {r.authority : r \in AuthorityRows(rows)}
RowsOf(f, k) == {f[k][i] : i \in DOMAIN f[k]}

(* A workbook with an authority's sheet. What the parser guarantees: every  *)
(* such sheet names its authority and has a topic and a slot.               *)
ASSUME FileAssumption ==
  /\ File \in [Upload -> [Stage -> Seq(Row)]]
  /\ \A u \in Upload :
       /\ \A k \in Stage : File[u][k] # <<>>
       /\ \A r \in RowsOf(File[u], 1) : r.table = "authority"
       /\ \A k \in {2, 3} : \A r \in RowsOf(File[u], k) :
            r.table # "authority" /\ r.authority \in NamesIn(RowsOf(File[u], 1))
ASSUME FaultyAssumption == Faulty \subseteq Upload
ASSUME FiniteAssumption == IsFiniteSet(Upload)

VARIABLES
  committed,   \* rows of authority, authority_consultation_topic and _slots
  inserted,    \* the rows each open transaction has inserted
  known,       \* the keys of each upload's authorityIDByName
  stage,       \* the insert each upload is at
  at,          \* and the row of it that comes next
  pc           \* "idle", a statement of the transaction, or how it ended

vars == <<committed, inserted, known, stage, at, pc>>

TypeOK ==
  /\ committed \subseteq Row
  /\ inserted \in [Upload -> SUBSET Row]
  /\ known \in [Upload -> SUBSET Name]
  /\ stage \in [Upload -> Stage]
  /\ at \in [Upload -> Nat]
  /\ pc \in [Upload -> {"idle", "insert", "select", "commit", "stored", "rolledback"}]
  /\ \A u \in Upload : pc[u] = "insert" => at[u] \in DOMAIN File[u][stage[u]]

Init ==
  /\ committed = {}
  /\ inserted = [u \in Upload |-> {}]
  /\ known = [u \in Upload |-> {}]
  /\ stage = [u \in Upload |-> 1]
  /\ at = [u \in Upload |-> 1]
  /\ pc = [u \in Upload |-> "idle"]

AllRows(u) == UNION {RowsOf(File[u], k) : k \in Stage}
Current(u) == File[u][stage[u]][at[u]]

Post(u) ==
  /\ pc[u] = "idle"
  /\ pc' = [pc EXCEPT ![u] = "insert"]
  /\ UNCHANGED <<committed, inserted, known, stage, at>>

(* The next row of the insert, or the end of it. The row after the last one *)
(* of the topics is the first one of the slots.                             *)
Advance(u) ==
  IF at[u] < Len(File[u][stage[u]])
    THEN /\ at' = [at EXCEPT ![u] = @ + 1]
         /\ UNCHANGED <<stage, pc>>
    ELSE /\ at' = [at EXCEPT ![u] = 1]
         /\ stage' = [stage EXCEPT ![u] = IF @ = 2 THEN 3 ELSE @]
         /\ pc' = [pc EXCEPT ![u] = CASE stage[u] = 1 -> "select"
                                       [] stage[u] = 2 -> "insert"
                                       [] stage[u] = 3 -> "commit"]

RollBack(u) ==
  /\ inserted' = [inserted EXCEPT ![u] = {}]
  /\ pc' = [pc EXCEPT ![u] = "rolledback"]
  /\ UNCHANGED <<committed, known, stage, at>>

(* u's next row has been inserted by v, whose transaction is still open.    *)
WaitsFor(u, v) == u # v /\ pc[u] = "insert" /\ Current(u) \in inserted[v]
Blocked(u) == \E v \in Upload : WaitsFor(u, v)

(* A topic or slot gets the id of its authority, zero if the name is not    *)
(* known, which no authority has.                                           *)
Resolved(u) == stage[u] = 1 \/ Current(u).authority \in known[u]

(* Mutant: a row another upload is inserting is taken for present.          *)
InsertRowSkipping(u) ==
  /\ pc[u] = "insert" /\ Resolved(u)
  /\ inserted' = [inserted EXCEPT ![u] = IF Current(u) \in committed \/ Blocked(u)
                                           THEN @ ELSE @ \cup {Current(u)}]
  /\ Advance(u)
  /\ UNCHANGED <<committed, known>>

(* One row of a multi-row insert: left out when it is there already, waited *)
(* for while an open transaction holds its unique key, inserted otherwise.  *)
InsertRow(u) ==
  /\ pc[u] = "insert" /\ Resolved(u) /\ ~Blocked(u)
  /\ inserted' = [inserted EXCEPT ![u] = IF Current(u) \in committed THEN @ ELSE @ \cup {Current(u)}]
  /\ Advance(u)
  /\ UNCHANGED <<committed, known>>

(* Mutant: only the authorities this upload has inserted are returned.      *)
SelectOwnAuthorities(u) ==
  /\ pc[u] = "select"
  /\ known' = [known EXCEPT ![u] = NamesIn(inserted[u])]
  /\ stage' = [stage EXCEPT ![u] = 2]
  /\ pc' = [pc EXCEPT ![u] = "insert"]
  /\ UNCHANGED <<committed, inserted, at>>

(* The authorities are selected after the insert: its own rows and those    *)
(* committed by now.                                                        *)
SelectAuthorities(u) ==
  /\ pc[u] = "select"
  /\ known' = [known EXCEPT ![u] = NamesIn(committed \cup inserted[u])]
  /\ stage' = [stage EXCEPT ![u] = 2]
  /\ pc' = [pc EXCEPT ![u] = "insert"]
  /\ UNCHANGED <<committed, inserted, at>>

Commit(u) ==
  /\ pc[u] = "commit"
  /\ committed' = committed \cup inserted[u]
  /\ inserted' = [inserted EXCEPT ![u] = {}]
  /\ pc' = [pc EXCEPT ![u] = "stored"]
  /\ UNCHANGED <<known, stage, at>>

(* Uploads that wait for each other in a cycle. An upload waits for one     *)
(* other at most, so a set in which everyone waits and everyone is waited   *)
(* for consists of cycles.                                                  *)
Deadlocked(u) ==
  \E group \in SUBSET Upload :
    /\ u \in group
    /\ \A v \in group : (\E w \in group : WaitsFor(v, w)) /\ (\E w \in group : WaitsFor(w, v))

(* Postgres ends a deadlock by failing one of its transactions.             *)
BreakDeadlock(u) == Deadlocked(u) /\ RollBack(u)

(* Mutant: a failed transaction is not rolled back.                         *)
FailNoRollback(u) ==
  /\ u \in Faulty
  /\ pc[u] \in {"insert", "select", "commit"}
  /\ pc' = [pc EXCEPT ![u] = "rolledback"]
  /\ UNCHANGED <<committed, inserted, known, stage, at>>

(* A statement, or the connection, fails; so does the insert of a row whose *)
(* foreign key is not the id of an authority.                               *)
MayFail(u) == u \in Faulty \/ (pc[u] = "insert" /\ ~Resolved(u))

Fail(u) ==
  /\ MayFail(u)
  /\ pc[u] \in {"insert", "select", "commit"}
  /\ RollBack(u)

Handle(u) == InsertRow(u) \/ SelectAuthorities(u) \/ Commit(u)

Next == \E u \in Upload : Post(u) \/ Handle(u) \/ BreakDeadlock(u) \/ Fail(u)

Spec == Init /\ [][Next]_vars

(* The server runs its handlers; the database looks for deadlocks after     *)
(* deadlock_timeout.                                                        *)
Fairness ==
  /\ \A u \in Upload : WF_vars(Handle(u))
  /\ WF_vars(\E u \in Upload : BreakDeadlock(u))
FairSpec == Spec /\ Fairness
-----------------------------------------------------------------------------
(* All or nothing: the tables change only when an upload commits, and then  *)
(* its whole workbook is there, the rows it left to other uploads included. *)
WholeWorkbooks ==
  [][committed' # committed =>
       \E u \in Upload : pc[u] = "commit" /\ committed' = committed \cup AllRows(u)]_vars

(* An upload finds the id of each authority of its workbook, those that     *)
(* another upload created in the meantime included, so that no topic and no *)
(* slot goes to authority zero.                                             *)
NamesResolve ==
  \A u \in Upload :
    (pc[u] = "insert" /\ stage[u] \in {2, 3}) \/ pc[u] = "commit" =>
      NamesIn(RowsOf(File[u], 1)) \subseteq known[u]

(* Uploads that get nowhere, waiting only for each other or for what one    *)
(* that has ended has left behind, have a deadlock among them that the      *)
(* database finds: no other wait in a circle is possible, whatever rows     *)
(* their workbooks share and in whatever order they list them.              *)
Ended(u) == pc[u] \in {"stored", "rolledback"}

OnlyDeadlocksBlock ==
  \A group \in SUBSET Upload :
    (\A u \in group : Ended(u) \/ \E v \in group : WaitsFor(u, v)) =>
      (\A u \in group : Ended(u)) \/ (\E u \in group : Deadlocked(u))

(* Every upload ends, also when several wait for each other.                *)
EveryUploadEnds == \A u \in Upload : pc[u] # "idle" ~> pc[u] \in {"stored", "rolledback"}
=============================================================================
