--------------------------- MODULE SlotSheetProofs ---------------------------
(***************************************************************************)
(* SlotSheet for workbooks of any number of sheets, rows and columns: what  *)
(* the parser accepts, returns and rejects is what the sheets say.  The     *)
(* loops' counters take the place of an induction over the rows: the        *)
(* invariant says what has been found above and to the left of them.        *)
(***************************************************************************)
EXTENDS SlotSheet, FiniteSetTheorems, TLAPS

Sheet == Seq(Seq(Cell))
Info == [topics : Seq(Nat), slots : Seq(Nat \X Nat)]
Inside == phase \in {"name", "topics", "slots", "columns"}

Position ==
  /\ book \in Seq(Sheet)
  /\ phase \in {"sheets", "name", "topics", "slots", "columns", "parsed", "rejected", "unreadable"}
  /\ sheet \in Nat \ {0} /\ row \in Nat /\ column \in Nat /\ rowIndex \in Nat /\ error \in Nat
  /\ sheet \in DOMAIN book \/ (sheet = 1 /\ phase \in {"sheets", "parsed"})
  /\ Inside \/ phase \in {"rejected", "unreadable"} => sheet >= 2
  /\ phase = "parsed" => sheet >= Len(book)
  /\ sheet = 1 => info = NoInfo

(* The sheets behind the parser are well formed and have their result.      *)
Read(n) == WellFormed(book[n + 1]) /\ Describes(infos[n], book[n + 1])

Behind ==
  /\ infos \in Seq(Info)
  /\ phase \in {"sheets", "parsed"} => Len(infos) = sheet - 1
  /\ phase \in {"name", "topics", "slots", "columns", "rejected", "unreadable"} => Len(infos) = sheet - 2
  /\ \A n \in DOMAIN infos : /\ infos[n].topics # <<>> /\ infos[n].slots # <<>>
                             /\ Read(n)

TopicRows(n) == [k \in 1 .. n |-> k + 1]

InName == phase = "name" => row = 0 /\ info = NoInfo

(* Among the topics every row so far has one column and is in the result.   *)
InTopics ==
  phase = "topics" =>
    /\ row \in 1 .. Len(Rows)
    /\ \A k \in 1 .. row : OneColumn(Rows[k])
    /\ info.topics = TopicRows(row - 1) /\ info.slots = <<>>
    /\ rowIndex = row + 1

(* The dates above the position, and those to the left of it in its row.    *)
Passed ==
  {x \in SlotCells(Rows) : x[1] < row \/ (x[1] = row /\ (phase = "columns" => x[2] < column))}

(* In the schedule the topics are complete, and the slots found are the     *)
(* dates passed, in order, each followed by its range; the row the messages *)
(* would name has fallen behind by the row that ended the topics.           *)
InSchedule ==
  phase \in {"slots", "columns"} =>
    /\ Rows # <<>> /\ OneColumn(Rows[1])
    /\ Ending(Rows) \in 3 .. Len(Rows) + 1
    /\ info.topics = TopicRows(Ending(Rows) - 2)
    /\ row <= Len(Rows)
    /\ Ending(Rows) <= row \/ row = Len(Rows)
    /\ Range(info.slots) = Passed
    /\ \A j, k \in DOMAIN info.slots : j < k => Before(info.slots[j], info.slots[k])
    /\ \A x \in Passed : x[2] < Len(Rows[x[1]]) /\ Rows[x[1]][x[2] + 1] = "range"
    /\ phase = "columns" => /\ row > Ending(Rows)
                            /\ column \in 1 .. Len(Cells) + 1
                            /\ rowIndex = row - 1
    /\ phase = "slots" /\ Ending(Rows) <= Len(Rows) => rowIndex = row

Rejected ==
  phase = "rejected" =>
    /\ ~WellFormed(Rows)
    /\ error \in {0, 1} \/ error = row - 1

SInv ==
  /\ Position
  /\ info \in Info
  /\ Behind
  /\ InName
  /\ InTopics
  /\ InSchedule
  /\ Rejected
-----------------------------------------------------------------------------
(* A row that is not one column, with nothing but topics above it, or the   *)
(* end of the sheet below the topics, is where the topics end.              *)
LEMMA EndingIs ==
  ASSUME NEW s \in Sheet, NEW n \in 2 .. Len(s) + 1,
         \A k \in 2 .. n - 1 : OneColumn(s[k]),
         n \in DOMAIN s => ~OneColumn(s[n])
  PROVE  Ending(s) = n
  <1>1. DOMAIN s = 1 .. Len(s) /\ Len(s) \in Nat BY DEF Sheet
  <1>2. ASSUME NEW m \in 2 .. Len(s) + 1,
               \A k \in 2 .. m - 1 : OneColumn(s[k]),
               m \in DOMAIN s => ~OneColumn(s[m])
        PROVE  m = n
    <2>1. CASE m < n
      <3>1. m \in DOMAIN s /\ m \in 2 .. n - 1 BY <1>1, <2>1
      <3> QED BY <1>2, <3>1
    <2>2. CASE n < m
      <3>1. n \in DOMAIN s /\ n \in 2 .. m - 1 BY <1>1, <2>2
      <3> QED BY <1>2, <3>1
    <2> QED BY <1>1, <2>1, <2>2
  <1> QED BY <1>2 DEF Ending

(* One more topic.                                                          *)
LEMMA TopicAppended ==
  ASSUME NEW n \in Nat
  PROVE  /\ TopicRows(n) \in Seq(Nat) /\ Len(TopicRows(n)) = n
         /\ Append(TopicRows(n), n + 2) = TopicRows(n + 1)
  BY DEF TopicRows

(* One more slot, behind those that are there.                              *)
LEMMA SlotAppended ==
  ASSUME NEW q \in Seq(Nat \X Nat), NEW x \in Nat \X Nat,
         \A j, k \in DOMAIN q : j < k => Before(q[j], q[k]),
         \A k \in DOMAIN q : Before(q[k], x),
         NEW p, p = Append(q, x)
  PROVE  /\ p \in Seq(Nat \X Nat)
         /\ Range(p) = Range(q) \cup {x}
         /\ \A j, k \in DOMAIN p : j < k => Before(p[j], p[k])
  <1>1. /\ p \in Seq(Nat \X Nat) /\ Len(p) = Len(q) + 1 /\ Len(q) \in Nat
        /\ DOMAIN p = 1 .. Len(q) + 1 /\ DOMAIN q = 1 .. Len(q)
    OBVIOUS
  <1>2. /\ \A k \in DOMAIN q : p[k] = q[k]
        /\ p[Len(q) + 1] = x
    OBVIOUS
  <1>3. Range(p) = Range(q) \cup {x}
    <2>1. ASSUME NEW k \in DOMAIN p PROVE p[k] \in Range(q) \cup {x}
      <3>1. CASE k \in DOMAIN q BY <1>2, <3>1 DEF Range
      <3>2. CASE k = Len(q) + 1 BY <1>2, <3>2
      <3> QED BY <1>1, <3>1, <3>2
    <2>2. \A k \in DOMAIN q : q[k] \in Range(p) BY <1>1, <1>2 DEF Range
    <2>3. Len(q) + 1 \in DOMAIN p BY <1>1
    <2>4. x \in Range(p) BY <1>2, <2>3 DEF Range
    <2>5. Range(p) \subseteq Range(q) \cup {x}
      <3> SUFFICES ASSUME NEW y \in Range(p) PROVE y \in Range(q) \cup {x} OBVIOUS
      <3>1. PICK k \in DOMAIN p : y = p[k] BY DEF Range
      <3> QED BY <2>1, <3>1
    <2>6. Range(q) \subseteq Range(p)
      <3> SUFFICES ASSUME NEW y \in Range(q) PROVE y \in Range(p) OBVIOUS
      <3>1. PICK k \in DOMAIN q : y = q[k] BY DEF Range
      <3> QED BY <2>2, <3>1
    <2> QED BY <2>4, <2>5, <2>6
  <1>4. ASSUME NEW j \in DOMAIN p, NEW k \in DOMAIN p, j < k PROVE Before(p[j], p[k])
    <2>1. j \in DOMAIN q BY <1>1, <1>4
    <2>2. CASE k \in DOMAIN q BY <1>2, <1>4, <2>1, <2>2
    <2>3. CASE k = Len(q) + 1 BY <1>2, <2>1, <2>3
    <2> QED BY <1>1, <2>2, <2>3
  <1> QED BY <1>1, <1>3, <1>4

(* A list that is empty has nothing in it, and one that is not has.         *)
LEMMA EmptyRange ==
  /\ DOMAIN <<>> = {} /\ Range(<<>>) = {}
  /\ \A q \in Seq(Nat \X Nat) : q # <<>> => Range(q) # {}
  <1>1. DOMAIN <<>> = {} OBVIOUS
  <1>2. Range(<<>>) = {} BY <1>1 DEF Range
  <1>3. ASSUME NEW q \in Seq(Nat \X Nat), q # <<>> PROVE Range(q) # {}
    <2>1. 1 \in DOMAIN q BY <1>3
    <2>2. q[1] \in Range(q) BY <2>1 DEF Range
    <2> QED BY <2>2
  <1> QED BY <1>1, <1>2, <1>3

(* The rows of an authority's sheet.                                        *)
LEMMA SheetRows ==
  ASSUME SInv, Inside \/ phase \in {"rejected", "unreadable"}
  PROVE  /\ sheet \in DOMAIN book /\ Rows \in Sheet
         /\ Len(Rows) \in Nat /\ DOMAIN Rows = 1 .. Len(Rows)
         /\ \A n \in DOMAIN Rows : /\ Rows[n] \in Seq(Cell) /\ Len(Rows[n]) \in Nat
                                   /\ DOMAIN Rows[n] = 1 .. Len(Rows[n])
  <1>1. sheet \in DOMAIN book BY DEF SInv, Position, Inside
  <1>2. Rows \in Sheet BY <1>1 DEF SInv, Position, Rows, Sheet
  <1>3. Len(Rows) \in Nat /\ DOMAIN Rows = 1 .. Len(Rows) BY <1>2 DEF Sheet
  <1>4. \A n \in DOMAIN Rows : Rows[n] \in Seq(Cell) BY <1>2 DEF Sheet
  <1> QED BY <1>1, <1>2, <1>3, <1>4

(* The dates of the schedule, by their position.                            *)
LEMMA SlotCellsAre ==
  ASSUME NEW s \in Sheet, Ending(s) \in Nat
  PROVE  \A x : x \in SlotCells(s) <=>
           /\ x = <<x[1], x[2]>> /\ x[1] \in Nat /\ x[2] \in Nat
           /\ Ending(s) < x[1] /\ x[1] <= Len(s)
           /\ 1 <= x[2] /\ x[2] <= Len(s[x[1]])
           /\ s[x[1]][x[2]] = "date"
  <1>1. DOMAIN s = 1 .. Len(s) /\ Len(s) \in Nat BY DEF Sheet
  <1>2. \A n \in 1 .. Len(s) : DOMAIN s[n] = 1 .. Len(s[n]) /\ Len(s[n]) \in Nat BY <1>1 DEF Sheet
  <1> TAKE x
  <1>3. ASSUME x \in SlotCells(s)
        PROVE  /\ x = <<x[1], x[2]>> /\ x[1] \in Nat /\ x[2] \in Nat
               /\ Ending(s) < x[1] /\ x[1] <= Len(s)
               /\ 1 <= x[2] /\ x[2] <= Len(s[x[1]])
               /\ s[x[1]][x[2]] = "date"
    <2>1. /\ x = <<x[1], x[2]>> /\ x[1] \in Ending(s) + 1 .. Len(s)
          /\ x[2] \in DOMAIN s[x[1]] /\ s[x[1]][x[2]] = "date"
      BY <1>3 DEF SlotCells
    <2>2. x[1] \in 1 .. Len(s) BY <1>1, <2>1
    <2> QED BY <1>1, <1>2, <2>1, <2>2
  <1>4. ASSUME /\ x = <<x[1], x[2]>> /\ x[1] \in Nat /\ x[2] \in Nat
               /\ Ending(s) < x[1] /\ x[1] <= Len(s)
               /\ 1 <= x[2] /\ x[2] <= Len(s[x[1]])
               /\ s[x[1]][x[2]] = "date"
        PROVE  x \in SlotCells(s)
    <2>1. x[1] \in DOMAIN s /\ x[1] \in Ending(s) + 1 .. Len(s) BY <1>1, <1>4
    <2>2. x[2] \in DOMAIN s[x[1]] BY <1>1, <1>2, <1>4
    <2>3. x[2] \in UNION {DOMAIN s[r] : r \in DOMAIN s} BY <2>1, <2>2
    <2>4. x \in (Ending(s) + 1 .. Len(s)) \X UNION {DOMAIN s[r] : r \in DOMAIN s} BY <1>4, <2>1, <2>3
    <2> QED BY <1>4, <2>2, <2>4 DEF SlotCells
  <1> QED BY <1>3, <1>4
-----------------------------------------------------------------------------
LEMMA SInit == Init => SInv
  <1> SUFFICES ASSUME Init PROVE SInv OBVIOUS
  <1>1. book \in Seq(Sheet) BY WorkbookAssumption DEF Init, Sheet
  <1>2. Position BY <1>1 DEF Init, Position, Inside
  <1>3. info \in Info BY DEF Init, Info, NoInfo
  <1>4. Behind BY DEF Init, Behind
  <1> QED BY <1>2, <1>3, <1>4 DEF Init, SInv, InName, InTopics, InSchedule, Rejected

(* The next sheet; nothing of it has been looked at.                        *)
LEMMA OpenSheetStep == SInv /\ OpenSheet => SInv'
  <1> SUFFICES ASSUME SInv, OpenSheet PROVE SInv' OBVIOUS
  <1>1. Position'
    BY DEF SInv, Position, Inside, OpenSheet
  <1>2. info' \in Info BY DEF OpenSheet, NoInfo, Info
  <1>3. Behind' BY DEF SInv, Position, Behind, Read, OpenSheet
  <1>4. InName' BY DEF OpenSheet, InName
  <1> QED BY <1>1, <1>2, <1>3, <1>4 DEF SInv, OpenSheet, InTopics, InSchedule, Rejected

(* Steps within a sheet leave the sheets behind the parser alone.           *)
LEMMA BehindKept ==
  ASSUME SInv, Inside, UNCHANGED <<book, sheet, infos>>,
         phase' \in {"name", "topics", "slots", "columns", "rejected", "unreadable"}
  PROVE  Behind'
  BY DEF SInv, Inside, Behind, Read

LEMMA ParseNameStep == SInv /\ ParseName => SInv'
  <1> SUFFICES ASSUME SInv, ParseName PROVE SInv' OBVIOUS
  <1>0. Inside BY DEF ParseName, Inside
  <1>1. /\ sheet \in DOMAIN book /\ Rows \in Sheet /\ Rows' = Rows
        /\ Len(Rows) \in Nat /\ DOMAIN Rows = 1 .. Len(Rows)
    BY <1>0, SheetRows DEF ParseName, Rows
  <1>2. row = 0 /\ info = NoInfo BY DEF SInv, InName, ParseName
  <1>3. Position' BY <1>0 DEF SInv, Position, ParseName, Reject, Inside
  <1>4. info' \in Info BY DEF SInv, ParseName
  <1>5. Behind' BY <1>0, BehindKept DEF ParseName, Reject
  <1>6. CASE HasNext /\ OneColumn(NextRow)
    <2>1. phase' = "topics" /\ row' = 1 /\ rowIndex' = 2 /\ info' = info BY <1>6 DEF ParseName
    <2>2. 1 \in 1 .. Len(Rows) /\ OneColumn(Rows[1]) BY <1>1, <1>2, <1>6 DEF HasNext, NextRow
    <2>3. TopicRows(0) = <<>> BY DEF TopicRows
    <2>4. InTopics' BY <1>1, <1>2, <2>1, <2>2, <2>3 DEF InTopics, NoInfo
    <2> QED BY <1>3, <1>4, <1>5, <2>1, <2>4 DEF SInv, InName, InSchedule, Rejected
  <1>7. CASE ~(HasNext /\ OneColumn(NextRow))
    <2>1. phase' = "rejected" /\ error' = 1 BY <1>7 DEF ParseName, Reject
    <2>2. ~WellFormed(Rows)
      <3>1. ASSUME Rows # <<>> PROVE 1 <= Len(Rows) BY <1>1, <3>1 DEF Sheet
      <3> QED BY <1>1, <1>2, <1>7, <3>1 DEF WellFormed, HasNext, NextRow
    <2>3. Rejected' BY <1>1, <2>1, <2>2 DEF Rejected
    <2> QED BY <1>3, <1>4, <1>5, <2>1, <2>3 DEF SInv, InName, InTopics, InSchedule
  <1> QED BY <1>6, <1>7

(* A row of one column is the next topic.                                   *)
LEMMA ParseTopicStep == SInv /\ ParseTopic => SInv'
  <1> SUFFICES ASSUME SInv, ParseTopic PROVE SInv' OBVIOUS
  <1>0. Inside BY DEF ParseTopic, Inside
  <1>1. /\ Rows \in Sheet /\ Rows' = Rows
        /\ Len(Rows) \in Nat /\ DOMAIN Rows = 1 .. Len(Rows)
    BY <1>0, SheetRows DEF ParseTopic, Rows
  <1>2. /\ row \in 1 .. Len(Rows) /\ \A k \in 1 .. row : OneColumn(Rows[k])
        /\ info.topics = TopicRows(row - 1) /\ info.slots = <<>> /\ rowIndex = row + 1
    BY DEF SInv, InTopics, ParseTopic
  <1>3. phase' = "topics" /\ row' = row + 1 /\ rowIndex' = rowIndex + 1 BY DEF ParseTopic
  <1>4. row + 1 \in 1 .. Len(Rows) /\ OneColumn(Rows[row + 1])
    BY <1>1, <1>2 DEF ParseTopic, HasNext, NextRow
  <1>5. info' = [info EXCEPT !.topics = Append(@, row + 1)] BY DEF ParseTopic
  <1>6. info'.topics = TopicRows(row) /\ info'.slots = <<>> /\ info' \in Info
    <2>1. info \in Info BY DEF SInv
    <2>2. info'.topics = Append(TopicRows(row - 1), row + 1) /\ info'.slots = <<>>
      BY <1>2, <1>5, <2>1 DEF Info
    <2>3. row - 1 \in Nat /\ (row - 1) + 2 = row + 1 /\ (row - 1) + 1 = row BY <1>2
    <2>4. info'.topics = TopicRows(row) BY <2>2, <2>3, TopicAppended
    <2>5. TopicRows(row) \in Seq(Nat) BY <1>2, TopicAppended
    <2> QED BY <1>5, <2>1, <2>2, <2>4, <2>5 DEF Info
  <1>7. InTopics'
    <2>1. \A k \in 1 .. row + 1 : OneColumn(Rows[k]) BY <1>2, <1>4
    <2>2. (row + 1) - 1 = row BY <1>2
    <2> QED BY <1>1, <1>2, <1>3, <1>4, <1>6, <2>1, <2>2 DEF InTopics
  <1>8. Position' BY <1>0, <1>3 DEF SInv, Position, ParseTopic, Inside
  <1>9. Behind' BY <1>0, <1>3, BehindKept DEF ParseTopic
  <1> QED BY <1>3, <1>6, <1>7, <1>8, <1>9 DEF SInv, InName, InSchedule, Rejected

(* The row that is not one column, or the end of the sheet, ends them.      *)
LEMMA EndTopicsStep == SInv /\ EndTopics => SInv'
  <1> SUFFICES ASSUME SInv, EndTopics PROVE SInv' OBVIOUS
  <1>0. Inside BY DEF EndTopics, Inside
  <1>1. /\ Rows \in Sheet /\ Rows' = Rows
        /\ Len(Rows) \in Nat /\ DOMAIN Rows = 1 .. Len(Rows)
    BY <1>0, SheetRows DEF EndTopics, Rows
  <1>2. /\ row \in 1 .. Len(Rows) /\ \A k \in 1 .. row : OneColumn(Rows[k])
        /\ info.topics = TopicRows(row - 1) /\ info.slots = <<>> /\ rowIndex = row + 1
    BY DEF SInv, InTopics, EndTopics
  <1>3. Ending(Rows) = row + 1
    <2>1. row + 1 \in 2 .. Len(Rows) + 1 BY <1>1, <1>2
    <2>2. \A k \in 2 .. (row + 1) - 1 : OneColumn(Rows[k]) BY <1>2
    <2>3. row + 1 \in DOMAIN Rows => ~OneColumn(Rows[row + 1])
      BY <1>1, <1>2 DEF EndTopics, HasNext, NextRow
    <2> QED BY <1>1, <2>1, <2>2, <2>3, EndingIs
  <1>4. row' = (IF HasNext THEN row + 1 ELSE row) /\ row' \in Nat BY <1>2 DEF EndTopics
  <1>5. info' = info /\ info' \in Info BY DEF SInv, EndTopics
  <1>6. Position' BY <1>0, <1>4 DEF SInv, Position, EndTopics, Reject, Inside
  <1>7. Behind' BY <1>0, BehindKept DEF EndTopics, Reject
  <1>8. CASE info.topics = <<>>
    <2>1. phase' = "rejected" /\ error' = 0 BY <1>8 DEF EndTopics, Reject
    <2>2. row = 1
      <3>1. row - 1 \in Nat BY <1>2
      <3>2. Len(TopicRows(row - 1)) = row - 1 BY <3>1, TopicAppended
      <3> QED BY <1>2, <1>8, <3>2
    <2>3. ~WellFormed(Rows) BY <1>3, <2>2 DEF WellFormed
    <2>4. Rejected' BY <1>1, <2>1, <2>3 DEF Rejected
    <2> QED BY <1>5, <1>6, <1>7, <2>1, <2>4 DEF SInv, InName, InTopics, InSchedule
  <1>9. CASE info.topics # <<>>
    <2>1. phase' = "slots" /\ rowIndex' = rowIndex BY <1>9 DEF EndTopics
    <2>2. row # 1
      <3>1. TopicRows(0) = <<>> BY DEF TopicRows
      <3> QED BY <1>2, <1>9, <3>1
    <2>3. /\ Rows # <<>> /\ OneColumn(Rows[1]) /\ Ending(Rows) \in 3 .. Len(Rows) + 1
          /\ info.topics = TopicRows(Ending(Rows) - 2)
      <3>1. (row + 1) - 2 = row - 1 BY <1>2
      <3> QED BY <1>1, <1>2, <1>3, <2>2, <3>1
    <2>4. /\ row' <= Len(Rows) /\ (Ending(Rows) <= row' \/ row' = Len(Rows))
          /\ row' <= Ending(Rows)
          /\ Ending(Rows) <= Len(Rows) => rowIndex' = row'
      <3>1. CASE HasNext BY <1>1, <1>2, <1>3, <1>4, <2>1, <3>1 DEF HasNext
      <3>2. CASE ~HasNext
        <4>0. ~(row < Len(Rows)) /\ row \in Nat /\ Len(Rows) \in Nat /\ row <= Len(Rows)
          BY <1>1, <1>2, <3>2 DEF HasNext
        <4>1. row' = row /\ row = Len(Rows) BY <1>4, <3>2, <4>0
        <4>2. ~(Ending(Rows) <= Len(Rows)) /\ row' <= Ending(Rows) /\ row' <= Len(Rows)
          BY <1>1, <1>3, <4>1
        <4> QED BY <4>1, <4>2
      <3> QED BY <3>1, <3>2
    <2>5. Passed' = {}
      <3> SUFFICES ASSUME NEW x \in Passed' PROVE FALSE OBVIOUS
      <3>1. x \in SlotCells(Rows) /\ x[1] <= row'
        <4>1. x \in SlotCells(Rows) /\ (x[1] < row' \/ x[1] = row') BY <1>1 DEF Passed
        <4>2. x[1] \in Nat BY <1>1, <1>2, <1>3, <4>1, SlotCellsAre
        <4> QED BY <1>4, <4>1, <4>2
      <3>2. Ending(Rows) < x[1] /\ x[1] \in Nat BY <1>1, <1>2, <1>3, <3>1, SlotCellsAre
      <3> QED BY <1>2, <1>3, <1>4, <2>4, <3>1, <3>2
    <2>6. info'.slots = <<>> /\ Range(info'.slots) = {} /\ DOMAIN info'.slots = {}
      BY <1>2, <1>5, EmptyRange
    <2>7. InSchedule' BY <1>1, <1>2, <1>5, <2>1, <2>3, <2>4, <2>5, <2>6 DEF InSchedule
    <2> QED BY <1>5, <1>6, <1>7, <2>1, <2>7 DEF SInv, InName, InTopics, Rejected
  <1> QED BY <1>8, <1>9

(* Where the parser is in a schedule.                                       *)
LEMMA InScheduleFacts ==
  ASSUME SInv, phase \in {"slots", "columns"}
  PROVE  /\ Inside /\ sheet >= 2
         /\ Rows \in Sheet /\ Len(Rows) \in Nat /\ DOMAIN Rows = 1 .. Len(Rows)
         /\ Ending(Rows) \in Nat /\ row \in Nat /\ column \in Nat /\ rowIndex \in Nat
         /\ \A n \in DOMAIN Rows : Len(Rows[n]) \in Nat /\ DOMAIN Rows[n] = 1 .. Len(Rows[n])
         /\ phase = "columns" => /\ row \in DOMAIN Rows /\ row > Ending(Rows)
                                 /\ Cells = Rows[row] /\ column >= 1 /\ rowIndex = row - 1
  <1>0. Inside BY DEF Inside
  <1>1. /\ Rows \in Sheet /\ Len(Rows) \in Nat /\ DOMAIN Rows = 1 .. Len(Rows)
        /\ \A n \in DOMAIN Rows : Len(Rows[n]) \in Nat /\ DOMAIN Rows[n] = 1 .. Len(Rows[n])
    BY <1>0, SheetRows
  <1>2. sheet >= 2 /\ row \in Nat /\ column \in Nat /\ rowIndex \in Nat BY <1>0 DEF SInv, Position
  <1>3. Ending(Rows) \in 3 .. Len(Rows) + 1 /\ row <= Len(Rows) BY DEF SInv, InSchedule
  <1>4. phase = "columns" => row > Ending(Rows) /\ rowIndex = row - 1 BY DEF SInv, InSchedule
  <1>5. phase = "columns" => row \in DOMAIN Rows BY <1>1, <1>2, <1>3, <1>4
  <1>6. ASSUME phase = "columns" PROVE column >= 1
    <2>1. column \in 1 .. Len(Cells) + 1 BY <1>6 DEF SInv, InSchedule
    <2>2. Len(Cells) \in Nat BY <1>1, <1>5, <1>6 DEF Cells
    <2> QED BY <2>1, <2>2
  <1> QED BY <1>0, <1>1, <1>2, <1>3, <1>4, <1>5, <1>6 DEF Cells

(* The next row: nothing more is passed.                                    *)
LEMMA ReadRowStep == SInv /\ ReadRow => SInv'
  <1> SUFFICES ASSUME SInv, ReadRow PROVE SInv' OBVIOUS
  <1>0. phase = "slots" /\ phase' = "columns" /\ row' = row + 1 /\ column' = 1
        /\ rowIndex' = rowIndex /\ info' = info /\ Rows' = Rows
    BY DEF ReadRow, Rows
  <1>1. /\ Inside /\ Rows \in Sheet /\ Len(Rows) \in Nat /\ DOMAIN Rows = 1 .. Len(Rows)
        /\ Ending(Rows) \in Nat /\ row \in Nat
        /\ \A n \in DOMAIN Rows : Len(Rows[n]) \in Nat /\ DOMAIN Rows[n] = 1 .. Len(Rows[n])
    BY <1>0, InScheduleFacts
  <1>2. row < Len(Rows) /\ Ending(Rows) <= row /\ rowIndex = row
    <2>1. row < Len(Rows) BY DEF ReadRow, HasNext
    <2>2. /\ Ending(Rows) <= row \/ row = Len(Rows)
          /\ Ending(Rows) <= Len(Rows) => rowIndex = row
      BY <1>0 DEF SInv, InSchedule
    <2>3. row \in Nat /\ Len(Rows) \in Nat /\ Ending(Rows) \in Nat BY <1>1
    <2>4. row # Len(Rows) BY <2>1, <2>3
    <2>5. Ending(Rows) <= row BY <2>2, <2>4
    <2>6. Ending(Rows) <= Len(Rows) BY <2>1, <2>3, <2>5
    <2> QED BY <2>1, <2>2, <2>5, <2>6
  <1>3. Passed' = Passed
    <2>1. ASSUME NEW x \in SlotCells(Rows)
          PROVE  /\ x[1] < row \/ x[1] = row <=> x[1] < row + 1 \/ (x[1] = row + 1 /\ x[2] < 1)
      BY <1>1, SlotCellsAre
    <2> QED BY <1>0, <2>1 DEF Passed
  <1>4. Cells' = Rows[row + 1] /\ Len(Rows[row + 1]) \in Nat BY <1>0, <1>1, <1>2 DEF Cells
  <1>5. InSchedule'
    <2>1. /\ row' <= Len(Rows) /\ Ending(Rows) <= row' /\ row' > Ending(Rows)
          /\ column' \in 1 .. Len(Cells') + 1 /\ rowIndex' = row' - 1
      BY <1>0, <1>1, <1>2, <1>4
    <2> QED BY <1>0, <1>3, <2>1 DEF SInv, InSchedule
  <1>6. Position' BY <1>0, <1>1 DEF SInv, Position, ReadRow, Inside
  <1>7. Behind' BY <1>0, <1>1, BehindKept DEF ReadRow
  <1> QED BY <1>0, <1>5, <1>6, <1>7 DEF SInv, InName, InTopics, Rejected

(* A cell that is no date is passed.                                        *)
LEMMA SkipCellStep == SInv /\ SkipCell => SInv'
  <1> SUFFICES ASSUME SInv, SkipCell PROVE SInv' OBVIOUS
  <1>0. phase = "columns" /\ phase' = "columns" /\ row' = row /\ column' = column + 1
        /\ rowIndex' = rowIndex /\ info' = info /\ Rows' = Rows
    BY DEF SkipCell, Rows
  <1>1. /\ Inside /\ Rows \in Sheet /\ Len(Rows) \in Nat /\ DOMAIN Rows = 1 .. Len(Rows)
        /\ Ending(Rows) \in Nat /\ row \in DOMAIN Rows /\ column \in Nat /\ column >= 1
        /\ Cells = Rows[row] /\ Len(Rows[row]) \in Nat
    BY <1>0, InScheduleFacts
  <1>2. column <= Len(Rows[row]) /\ Rows[row][column] # "date" BY <1>1 DEF SkipCell
  <1>3. Passed' = Passed
    <2>1. ASSUME NEW x \in SlotCells(Rows), x[1] = row
          PROVE  x[2] < column <=> x[2] < column + 1
      <3>1. x[2] \in Nat /\ Rows[row][x[2]] = "date" BY <1>1, <2>1, SlotCellsAre
      <3> QED BY <1>1, <1>2, <3>1
    <2> QED BY <1>0, <2>1 DEF Passed
  <1>4. Cells' = Cells BY <1>0 DEF Cells
  <1>5. InSchedule'
    <2>1. column' \in 1 .. Len(Cells') + 1 BY <1>0, <1>1, <1>2, <1>4
    <2> QED BY <1>0, <1>3, <1>4, <2>1 DEF SInv, InSchedule
  <1>6. Position' BY <1>0, <1>1 DEF SInv, Position, SkipCell, Inside
  <1>7. Behind' BY <1>0, <1>1, BehindKept DEF SkipCell
  <1> QED BY <1>0, <1>5, <1>6, <1>7 DEF SInv, InName, InTopics, Rejected

(* A date and its range are the next slot, behind all others; the range     *)
(* that is jumped over is no date.                                          *)
LEMMA ParseSlotStep == SInv /\ ParseSlot => SInv'
  <1> SUFFICES ASSUME SInv, ParseSlot PROVE SInv' OBVIOUS
  <1>0. phase = "columns" /\ phase' = "columns" /\ row' = row /\ column' = column + 2
        /\ rowIndex' = rowIndex /\ Rows' = Rows
    BY DEF ParseSlot, AtDate, Rows
  <1>1. /\ Inside /\ sheet >= 2 /\ Rows \in Sheet /\ Len(Rows) \in Nat /\ DOMAIN Rows = 1 .. Len(Rows)
        /\ Ending(Rows) \in Nat /\ row \in DOMAIN Rows /\ row \in Nat /\ row > Ending(Rows)
        /\ column \in Nat /\ column >= 1
        /\ Cells = Rows[row] /\ Len(Rows[row]) \in Nat
    BY <1>0, InScheduleFacts
  <1>2. column < Len(Rows[row]) /\ Rows[row][column] = "date" /\ Rows[row][column + 1] = "range"
    BY <1>1 DEF ParseSlot, AtDate, RangeFollows
  <1> DEFINE here == <<row, column>>
  <1>3. here \in SlotCells(Rows) /\ here \in Nat \X Nat
    <2>1. here[1] = row /\ here[2] = column OBVIOUS
    <2> QED BY <1>1, <1>2, <2>1, SlotCellsAre
  <1>4. Passed' = Passed \cup {here}
    <2>1. ASSUME NEW x \in SlotCells(Rows), x[1] = row
          PROVE  x[2] < column + 2 <=> x[2] < column \/ x = here
      <3>1. x[2] \in Nat /\ x = <<x[1], x[2]>> /\ Rows[row][x[2]] = "date" BY <1>1, <2>1, SlotCellsAre
      <3>2. x[2] # column + 1 BY <1>2, <3>1
      <3>3. x = here <=> x[2] = column BY <2>1, <3>1
      <3> QED BY <1>1, <3>1, <3>2, <3>3
    <2>2. here[1] = row /\ here[2] = column OBVIOUS
    <2> QED BY <1>0, <1>1, <1>3, <2>1, <2>2 DEF Passed
  <1>5. info \in Info /\ info' = [info EXCEPT !.slots = Append(@, here)]
    BY DEF SInv, ParseSlot
  <1>6. info'.topics = info.topics /\ info'.slots = Append(info.slots, here)
    BY <1>5 DEF Info
  <1>7. /\ Range(info.slots) = Passed
        /\ \A j, k \in DOMAIN info.slots : j < k => Before(info.slots[j], info.slots[k])
    BY <1>0 DEF SInv, InSchedule
  <1>8. \A k \in DOMAIN info.slots : Before(info.slots[k], here)
    <2> TAKE k \in DOMAIN info.slots
    <2>1. info.slots[k] \in Passed BY <1>7 DEF Range
    <2>2. here[1] = row /\ here[2] = column OBVIOUS
    <2> QED BY <1>0, <2>1, <2>2 DEF Passed, Before
  <1>9. /\ info'.slots \in Seq(Nat \X Nat)
        /\ Range(info'.slots) = Passed'
        /\ \A j, k \in DOMAIN info'.slots : j < k => Before(info'.slots[j], info'.slots[k])
    <2>1. info.slots \in Seq(Nat \X Nat) BY <1>5 DEF Info
    <2> DEFINE old == info.slots
               new == info'.slots
    <2>2. new = Append(old, here) BY <1>6
    <2>3. here \in Nat \X Nat BY <1>3
    <2> HIDE DEF here, new
    <2>4. /\ new \in Seq(Nat \X Nat)
          /\ Range(new) = Range(old) \cup {here}
          /\ \A j, k \in DOMAIN new : j < k => Before(new[j], new[k])
      BY <1>7, <1>8, <2>1, <2>2, <2>3, SlotAppended
    <2> QED BY <1>4, <1>7, <2>4 DEF new
  <1>10. info' \in Info BY <1>5, <1>6, <1>9 DEF Info
  <1>11. InSchedule'
    <2>1. Cells' = Cells BY <1>0 DEF Cells
    <2>2. column' \in 1 .. Len(Cells') + 1 BY <1>0, <1>1, <1>2, <2>1
    <2>3. \A x \in Passed' : x[2] < Len(Rows[x[1]]) /\ Rows[x[1]][x[2] + 1] = "range"
      <3>1. here[1] = row /\ here[2] = column OBVIOUS
      <3>2. \A x \in Passed : x[2] < Len(Rows[x[1]]) /\ Rows[x[1]][x[2] + 1] = "range"
        BY <1>0 DEF SInv, InSchedule
      <3> QED BY <1>2, <1>4, <3>1, <3>2
    <2> QED BY <1>0, <1>6, <1>9, <2>1, <2>2, <2>3 DEF SInv, InSchedule
  <1>12. Position' BY <1>0, <1>1 DEF SInv, Position, ParseSlot, Inside
  <1>13. Behind' BY <1>0, <1>1, BehindKept DEF ParseSlot
  <1> QED BY <1>0, <1>10, <1>11, <1>12, <1>13 DEF SInv, InName, InTopics, Rejected

(* A date without its range is in no well-formed sheet.                     *)
LEMMA ParseSlotFailsStep == SInv /\ ParseSlotFails => SInv'
  <1> SUFFICES ASSUME SInv, ParseSlotFails PROVE SInv' OBVIOUS
  <1>0. phase = "columns" /\ phase' = "rejected" /\ row' = row /\ info' = info /\ Rows' = Rows
        /\ error' = rowIndex
    BY DEF ParseSlotFails, AtDate, Reject, Rows
  <1>1. /\ Inside /\ Rows \in Sheet /\ Ending(Rows) \in Nat /\ DOMAIN Rows = 1 .. Len(Rows)
        /\ row \in DOMAIN Rows /\ row > Ending(Rows) /\ row \in Nat
        /\ column \in Nat /\ column >= 1
        /\ Cells = Rows[row] /\ Len(Rows[row]) \in Nat
        /\ rowIndex \in Nat /\ rowIndex = row - 1 /\ Len(Rows) \in Nat
    BY <1>0, InScheduleFacts
  <1>2. /\ column <= Len(Rows[row]) /\ Rows[row][column] = "date"
        /\ ~(column < Len(Rows[row]) /\ Rows[row][column + 1] = "range")
    BY <1>1 DEF ParseSlotFails, AtDate, RangeFollows
  <1>3. ~WellFormed(Rows)
    <2> DEFINE here == <<row, column>>
    <2>1. here[1] = row /\ here[2] = column OBVIOUS
    <2>2. here \in SlotCells(Rows) BY <1>1, <1>2, <2>1, SlotCellsAre
    <2> QED BY <1>2, <2>1, <2>2 DEF WellFormed
  <1>4. Rejected' BY <1>0, <1>1, <1>3 DEF Rejected
  <1>5. Position' BY <1>0, <1>1 DEF SInv, Position, ParseSlotFails, Inside
  <1>6. Behind' BY <1>0, <1>1, BehindKept DEF ParseSlotFails
  <1> QED BY <1>0, <1>4, <1>5, <1>6 DEF SInv, InName, InTopics, InSchedule

(* A row is at its end: all its dates are passed.                           *)
LEMMA EndRowStep == SInv /\ EndRow => SInv'
  <1> SUFFICES ASSUME SInv, EndRow PROVE SInv' OBVIOUS
  <1>0. phase = "columns" /\ phase' = "slots" /\ row' = row /\ column' = column
        /\ rowIndex' = rowIndex + 1 /\ info' = info /\ Rows' = Rows
    BY DEF EndRow, Rows
  <1>1. /\ Inside /\ Rows \in Sheet /\ Len(Rows) \in Nat /\ Ending(Rows) \in Nat
        /\ row \in DOMAIN Rows /\ row \in Nat /\ row > Ending(Rows) /\ rowIndex = row - 1
        /\ column \in Nat /\ Cells = Rows[row] /\ Len(Rows[row]) \in Nat
    BY <1>0, InScheduleFacts
  <1>2. column > Len(Rows[row]) BY <1>1 DEF EndRow
  <1>3. Passed' = Passed
    <2>1. ASSUME NEW x \in SlotCells(Rows), x[1] = row PROVE x[2] < column
      <3>1. x[2] \in Nat /\ x[2] <= Len(Rows[row]) BY <1>1, <2>1, SlotCellsAre
      <3> QED BY <1>1, <1>2, <3>1
    <2> QED BY <1>0, <2>1 DEF Passed
  <1>4. rowIndex' = row' BY <1>0, <1>1
  <1>5. InSchedule' BY <1>0, <1>3, <1>4 DEF SInv, InSchedule
  <1>6. Position' BY <1>0, <1>1 DEF SInv, Position, EndRow, Inside
  <1>7. Behind' BY <1>0, <1>1, BehindKept DEF EndRow
  <1> QED BY <1>0, <1>5, <1>6, <1>7 DEF SInv, InName, InTopics, Rejected

(* The sheet is at its end: all its dates are passed, and what has been     *)
(* found is what it says.                                                   *)
LEMMA EndSheetStep == SInv /\ EndSheet => SInv'
  <1> SUFFICES ASSUME SInv, EndSheet PROVE SInv' OBVIOUS
  <1>0. phase = "slots" /\ row' = row /\ column' = column /\ rowIndex' = rowIndex
        /\ info' = info /\ Rows' = Rows /\ book' = book /\ sheet' = sheet
    BY DEF EndSheet, Rows
  <1>1. /\ Inside /\ sheet >= 2 /\ Rows \in Sheet /\ Len(Rows) \in Nat
        /\ Ending(Rows) \in Nat /\ row \in Nat
    BY <1>0, InScheduleFacts
  <1>2. /\ Rows # <<>> /\ OneColumn(Rows[1])
        /\ Ending(Rows) \in 3 .. Len(Rows) + 1
        /\ info.topics = TopicRows(Ending(Rows) - 2)
        /\ row <= Len(Rows)
        /\ Range(info.slots) = Passed
        /\ \A j, k \in DOMAIN info.slots : j < k => Before(info.slots[j], info.slots[k])
        /\ \A x \in Passed : x[2] < Len(Rows[x[1]]) /\ Rows[x[1]][x[2] + 1] = "range"
    BY <1>0 DEF SInv, InSchedule
  <1>3. row = Len(Rows)
    <2>1. ~(row < Len(Rows)) BY DEF EndSheet, HasNext
    <2> QED BY <1>1, <1>2, <2>1
  <1>4. Passed = SlotCells(Rows)
    <2>1. ASSUME NEW x \in SlotCells(Rows) PROVE x[1] < row \/ x[1] = row
      <3>1. x[1] \in Nat /\ x[1] <= Len(Rows) BY <1>1, SlotCellsAre
      <3> QED BY <1>1, <1>3, <3>1
    <2> QED BY <1>0, <2>1 DEF Passed
  <1>5. info \in Info /\ info.slots \in Seq(Nat \X Nat) BY DEF SInv, Info
  <1>6. sheet \in DOMAIN book /\ sheet \in Nat BY <1>1 DEF SInv, Position
  <1>7. CASE info.slots = <<>>
    <2>1. phase' = "rejected" /\ error' = 0 /\ infos' = infos BY <1>7 DEF EndSheet, Reject
    <2>2. ~WellFormed(Rows) BY <1>2, <1>4, <1>7, EmptyRange DEF WellFormed
    <2>3. Rejected' BY <1>0, <2>1, <2>2 DEF Rejected
    <2>4. Position' BY <1>0, <1>1, <2>1 DEF SInv, Position, Inside
    <2>5. Behind' BY <1>0, <1>1, <2>1, BehindKept
    <2> QED BY <1>0, <1>5, <2>1, <2>3, <2>4, <2>5 DEF SInv, InName, InTopics, InSchedule
  <1>8. CASE info.slots # <<>>
    <2>1. phase' = "sheets" /\ infos' = Append(infos, info) /\ error' = error BY <1>8 DEF EndSheet
    <2>2. SlotCells(Rows) # {} BY <1>2, <1>4, <1>5, <1>8, EmptyRange
    <2>3. Ending(Rows) > 2 BY <1>1, <1>2
    <2>4. WellFormed(Rows) BY <1>2, <1>4, <2>2, <2>3 DEF WellFormed
    <2>5. Describes(info, Rows) BY <1>2, <1>4 DEF Describes, TopicRows
    <2>6. info.topics # <<>>
      <3>1. Ending(Rows) - 2 \in Nat /\ Ending(Rows) - 2 >= 1 BY <1>1, <2>3
      <3>2. Len(info.topics) = Ending(Rows) - 2 BY <1>2, <3>1, TopicAppended
      <3> QED BY <3>1, <3>2
    <2>7. /\ infos \in Seq(Info) /\ Len(infos) = sheet - 2
          /\ \A n \in DOMAIN infos : infos[n].topics # <<>> /\ infos[n].slots # <<>> /\ Read(n)
      BY <1>0 DEF SInv, Behind
    <2>8. Behind'
      <3>1. /\ infos' \in Seq(Info) /\ Len(infos') = sheet - 1
            /\ DOMAIN infos = 1 .. sheet - 2 /\ DOMAIN infos' = 1 .. sheet - 1
            /\ \A n \in DOMAIN infos : infos'[n] = infos[n]
            /\ infos'[sheet - 1] = info
        BY <1>1, <1>5, <1>6, <2>1, <2>7
      <3>2. ASSUME NEW n \in DOMAIN infos'
            PROVE  infos'[n].topics # <<>> /\ infos'[n].slots # <<>> /\ Read(n)'
        <4>1. CASE n \in DOMAIN infos BY <1>0, <2>7, <3>1, <4>1 DEF Read
        <4>2. CASE n = sheet - 1
          <5>1. book[n + 1] = Rows BY <1>6, <4>2 DEF Rows
          <5> QED BY <1>0, <1>8, <2>4, <2>5, <2>6, <3>1, <4>2, <5>1 DEF Read
        <4> QED BY <1>1, <1>6, <3>1, <4>1, <4>2
      <3> QED BY <1>0, <2>1, <3>1, <3>2 DEF Behind
    <2>9. Position' BY <1>0, <1>1, <1>6, <2>1 DEF SInv, Position, Inside
    <2> QED BY <1>0, <1>5, <2>1, <2>8, <2>9 DEF SInv, InName, InTopics, InSchedule, Rejected
  <1> QED BY <1>7, <1>8

LEMMA EndFileStep == SInv /\ EndFile => SInv'
  <1> SUFFICES ASSUME SInv, EndFile PROVE SInv' OBVIOUS
  <1>1. Position' BY DEF SInv, Position, Inside, EndFile
  <1>2. Behind' BY DEF SInv, Behind, Read, EndFile
  <1> QED BY <1>1, <1>2 DEF SInv, EndFile, InName, InTopics, InSchedule, Rejected

LEMMA ReadFailsStep == SInv /\ ReadFails => SInv'
  <1> SUFFICES ASSUME SInv, ReadFails PROVE SInv' OBVIOUS
  <1>1. Inside BY DEF ReadFails, Inside
  <1>2. Position' BY <1>1 DEF SInv, Position, Inside, ReadFails
  <1>3. Behind' BY <1>1, BehindKept DEF ReadFails
  <1> QED BY <1>2, <1>3 DEF SInv, ReadFails, InName, InTopics, InSchedule, Rejected

LEMMA SInvariant == Spec => []SInv
  <1>1. SInv /\ [Next]_vars => SInv'
    <2> SUFFICES ASSUME SInv, [Next]_vars PROVE SInv' OBVIOUS
    <2>1. CASE UNCHANGED vars
      BY <2>1 DEF vars, SInv, Position, Inside, Behind, Read, InName, InTopics, InSchedule, Passed,
                  Rejected, Rows, Cells
    <2>2. CASE Next
      BY <2>2, OpenSheetStep, ParseNameStep, ParseTopicStep, EndTopicsStep, ReadRowStep, SkipCellStep,
         ParseSlotStep, ParseSlotFailsStep, EndRowStep, EndSheetStep, EndFileStep, ReadFailsStep
      DEF Next, Parse
    <2> QED BY <2>1, <2>2
  <1> QED BY <1>1, SInit, PTL DEF Spec
-----------------------------------------------------------------------------
(* The parser's data has its type for every workbook: the position is one   *)
(* of the workbook, and no sheet is returned without topics or slots.       *)
THEOREM SheetTypeCorrect == Spec => []TypeOK
  <1>1. SInv => TypeOK
    <2> SUFFICES ASSUME SInv PROVE TypeOK OBVIOUS
    <2>1. /\ sheet \in Nat /\ sheet >= 1 /\ row \in Nat /\ column \in Nat /\ rowIndex \in Nat /\ error \in Nat
          /\ phase \in {"sheets", "name", "topics", "slots", "columns", "parsed", "rejected", "unreadable"}
      BY DEF SInv, Position
    <2>2. ASSUME NEW i \in {info} \cup {infos[n] : n \in DOMAIN infos}
          PROVE  i \in Info /\ (i # NoInfo => sheet > 1)
      <3>1. CASE i = info BY <2>1, <3>1 DEF SInv, Position
      <3>2. CASE \E n \in DOMAIN infos : i = infos[n]
        <4>1. PICK n \in DOMAIN infos : i = infos[n] BY <3>2
        <4>2. infos \in Seq(Info) /\ n \in 1 .. Len(infos) BY DEF SInv, Behind
        <4>3. Len(infos) = sheet - 1 \/ Len(infos) = sheet - 2 BY <2>1 DEF SInv, Behind
        <4> QED BY <2>1, <4>1, <4>2, <4>3
      <3> QED BY <3>1, <3>2
    <2>3. ASSUME phase \in {"name", "topics", "slots", "columns"}
          PROVE  sheet \in DOMAIN book /\ row <= Len(book[sheet])
      <3>1. sheet \in DOMAIN book /\ Len(Rows) \in Nat BY <2>3, SheetRows DEF Inside
      <3>2. row <= Len(Rows)
        <4>1. CASE phase = "name" BY <2>1, <3>1, <4>1 DEF SInv, InName
        <4>2. CASE phase = "topics" BY <2>1, <3>1, <4>2 DEF SInv, InTopics
        <4>3. CASE phase \in {"slots", "columns"} BY <4>3 DEF SInv, InSchedule
        <4> QED BY <2>3, <4>1, <4>2, <4>3
      <3> QED BY <3>1, <3>2 DEF Rows
    <2>4. phase = "columns" => column \in 1 .. Len(book[sheet][row]) + 1
      BY DEF SInv, InSchedule, Cells, Rows
    <2>5. \A n \in DOMAIN infos : infos[n].topics # <<>> /\ infos[n].slots # <<>> BY DEF SInv, Behind
    <2> QED BY <2>1, <2>2, <2>3, <2>4, <2>5 DEF TypeOK, Info
  <1> QED BY <1>1, SInvariant, PTL

(* A workbook of any size is accepted only if every sheet but the first is  *)
(* well formed, with every topic and slot of every sheet once and in order; *)
(* the sheet a rejected one was rejected on is not well formed.             *)
THEOREM SheetsParsedAsWritten == Spec => []ParsedAsWritten
  <1>1. SInv => ParsedAsWritten
    <2> SUFFICES ASSUME SInv PROVE ParsedAsWritten OBVIOUS
    <2>1. book \in Seq(Sheet) /\ Len(book) \in Nat /\ DOMAIN book = 1 .. Len(book) /\ sheet \in Nat \ {0}
      BY DEF SInv, Position
    <2>2. ASSUME phase = "parsed"
          PROVE  /\ Len(infos) = Cardinality(AuthoritySheets)
                 /\ \A n \in AuthoritySheets : WellFormed(book[n]) /\ Describes(infos[n - 1], book[n])
      <3>1. /\ infos \in Seq(Info) /\ Len(infos) = sheet - 1
            /\ \A n \in DOMAIN infos : Read(n)
        BY <2>2 DEF SInv, Behind
      <3>2. sheet >= Len(book) /\ (sheet \in DOMAIN book \/ sheet = 1)
        BY <2>2 DEF SInv, Position
      <3>3. PICK last \in Nat : last = Len(book) BY <2>1
      <3>4. sheet \in Nat /\ sheet >= 1 /\ (sheet = last \/ (sheet = 1 /\ last = 0))
        <4>1. sheet >= last /\ (sheet \in 1 .. last \/ sheet = 1) /\ sheet \in Nat /\ sheet >= 1
          BY <2>1, <3>2, <3>3
        <4> QED BY <4>1
      <3>5. AuthoritySheets = 2 .. last BY <3>3 DEF AuthoritySheets
      <3>6. Cardinality(AuthoritySheets) = sheet - 1
        <4>1. Cardinality(2 .. last) = IF 2 > last THEN 0 ELSE last - 2 + 1 BY FS_Interval
        <4>2. (IF 2 > last THEN 0 ELSE last - 2 + 1) = sheet - 1 BY <3>4
        <4> QED BY <3>5, <4>1, <4>2
      <3>7. ASSUME NEW n \in AuthoritySheets
            PROVE  WellFormed(book[n]) /\ Describes(infos[n - 1], book[n])
        <4>1. n \in Int /\ n - 1 \in 1 .. sheet - 1 /\ (n - 1) + 1 = n BY <3>4, <3>5
        <4>2. n - 1 \in DOMAIN infos BY <3>1, <4>1
        <4>3. Read(n - 1) BY <3>1, <4>2
        <4> QED BY <4>1, <4>3 DEF Read
      <3> QED BY <3>1, <3>6, <3>7
    <2>3. phase = "rejected" => ~WellFormed(book[sheet]) BY DEF SInv, Rejected, Rows
    <2> QED BY <2>2, <2>3 DEF ParsedAsWritten
  <1> QED BY <1>1, SInvariant, PTL

(* Every message about a range names the row above the one it is about,     *)
(* whatever the workbook: the run sheet_rows finds one such message, this   *)
(* is what all of them do, since the break at the row that ends the topics  *)
(* skips the rowIndex++ of the loop's head.                                 *)
THEOREM ErrorsNameTheRowAbove ==
  Spec => [](phase = "rejected" /\ error > 1 => error = row - 1)
  <1>1. SInv => (phase = "rejected" /\ error > 1 => error = row - 1)
    BY DEF SInv, Rejected, Position
  <1> QED BY <1>1, SInvariant, PTL
=============================================================================
