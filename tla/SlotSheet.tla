------------------------------ MODULE SlotSheet ------------------------------
(***************************************************************************)
(* ParseTimeSlotFile: the workbook the administrator uploads, row by row    *)
(* and, in the schedule, column by column.                                  *)
(* A cell is abstracted to what the parser makes of it: nothing (empty), a  *)
(* date in one of the two formats, a range hh:mm-hh:mm, or other text.      *)
(* Topics and slots of the result are the positions they were read from.    *)
(***************************************************************************)
EXTENDS Integers, Sequences, FiniteSets, Functions

CONSTANTS
  Workbook,   \* the workbooks that may be uploaded: sequences of sheets of rows of cells
  ReadsFail   \* whether a row may be unreadable

Cell == {"empty", "text", "date", "range"}

ASSUME WorkbookAssumption == Workbook \subseteq Seq(Seq(Seq(Cell)))
ASSUME ReadsFailAssumption == ReadsFail \in BOOLEAN

VARIABLES
  book,       \* the uploaded workbook
  phase,      \* where the parser is
  sheet,      \* the sheet it is on
  row,        \* the row it has read last
  column,     \* the cell of a schedule's row it looks at next
  rowIndex,   \* the row its messages would name
  info,       \* what it has of the sheet: the rows of topics, the positions of slots
  infos,      \* the sheets it is done with
  error       \* the row the error it returned names; 0 without one

vars == <<book, phase, sheet, row, column, rowIndex, info, infos, error>>

NoInfo == [topics |-> <<>>, slots |-> <<>>]

TypeOK ==
  /\ phase \in {"sheets", "name", "topics", "slots", "columns", "parsed", "rejected", "unreadable"}
  /\ sheet \in Nat /\ row \in Nat /\ column \in Nat /\ rowIndex \in Nat /\ error \in Nat
  /\ \A i \in {info} \cup {infos[n] : n \in DOMAIN infos} :
       /\ i.topics \in Seq(Nat) /\ i.slots \in Seq(Nat \X Nat)
       /\ i # NoInfo => sheet > 1
  /\ phase \in {"name", "topics", "slots", "columns"} => sheet \in DOMAIN book /\ row <= Len(book[sheet])
  /\ phase = "columns" => column \in 1 .. Len(book[sheet][row]) + 1
  /\ \A n \in DOMAIN infos : infos[n].topics # <<>> /\ infos[n].slots # <<>>

(* The first sheet only describes the workbook.                             *)
Init ==
  /\ book \in Workbook
  /\ phase = "sheets" /\ sheet = 1 /\ row = 0 /\ column = 0 /\ rowIndex = 0
  /\ info = NoInfo /\ infos = <<>> /\ error = 0

Rows == book[sheet]
HasNext == row < Len(Rows)
NextRow == Rows[row + 1]

Reject(n) == phase' = "rejected" /\ error' = n

(* The one text of an information row; empty cells do not count.            *)
OneColumn(cells) == Cardinality({c \in DOMAIN cells : cells[c] # "empty"}) = 1

OpenSheet ==
  /\ phase = "sheets" /\ sheet < Len(book)
  /\ sheet' = sheet + 1
  /\ phase' = "name" /\ row' = 0 /\ info' = NoInfo
  /\ UNCHANGED <<book, column, rowIndex, infos, error>>

ParseName ==
  /\ phase = "name"
  /\ \/ /\ HasNext /\ OneColumn(NextRow)
        /\ phase' = "topics" /\ row' = 1 /\ rowIndex' = 2
        /\ UNCHANGED error
     \/ /\ ~(HasNext /\ OneColumn(NextRow))
        /\ Reject(1)
        /\ UNCHANGED <<row, rowIndex>>
  /\ UNCHANGED <<book, sheet, column, info, infos>>

ParseTopic ==
  /\ phase = "topics" /\ HasNext /\ OneColumn(NextRow)
  /\ info' = [info EXCEPT !.topics = Append(@, row + 1)]
  /\ row' = row + 1 /\ rowIndex' = rowIndex + 1
  /\ UNCHANGED <<book, phase, sheet, column, infos, error>>

(* Mutant: a sheet without topics goes on to its slots.                     *)
EndTopicsUnchecked ==
  /\ phase = "topics" /\ ~(HasNext /\ OneColumn(NextRow))
  /\ row' = IF HasNext THEN row + 1 ELSE row
  /\ phase' = "slots"
  /\ UNCHANGED <<book, sheet, column, rowIndex, info, infos, error>>

(* The row that ends the topics has been read; break skips rowIndex++.      *)
EndTopics ==
  /\ phase = "topics" /\ ~(HasNext /\ OneColumn(NextRow))
  /\ row' = IF HasNext THEN row + 1 ELSE row
  /\ IF info.topics = <<>> THEN Reject(0) ELSE phase' = "slots" /\ UNCHANGED error
  /\ UNCHANGED <<book, sheet, column, rowIndex, info, infos>>

Cells == Rows[row]

(* A row of the schedule; one without cells has nothing to scan.            *)
ReadRow ==
  /\ phase = "slots" /\ HasNext
  /\ phase' = "columns" /\ row' = row + 1 /\ column' = 1
  /\ UNCHANGED <<book, sheet, rowIndex, info, infos, error>>

(* A cell that is no date is passed over.                                   *)
SkipCell ==
  /\ phase = "columns" /\ column <= Len(Cells) /\ Cells[column] # "date"
  /\ column' = column + 1
  /\ UNCHANGED <<book, phase, sheet, row, rowIndex, info, infos, error>>

AtDate == phase = "columns" /\ column <= Len(Cells) /\ Cells[column] = "date"

(* Mutant: what follows a date is taken for a range.                        *)
SomethingFollows == column < Len(Cells)
RangeFollows == column < Len(Cells) /\ Cells[column + 1] = "range"

(* A date and the range in the next cell are a slot; i++ in the body and in *)
(* the loop's head move past both.                                          *)
ParseSlot ==
  /\ AtDate /\ RangeFollows
  /\ info' = [info EXCEPT !.slots = Append(@, <<row, column>>)]
  /\ column' = column + 2
  /\ UNCHANGED <<book, phase, sheet, row, rowIndex, infos, error>>

(* A date in the last column, or followed by something else.                *)
ParseSlotFails ==
  /\ AtDate /\ ~RangeFollows
  /\ Reject(rowIndex)
  /\ UNCHANGED <<book, sheet, row, column, rowIndex, info, infos>>

EndRow ==
  /\ phase = "columns" /\ column > Len(Cells)
  /\ phase' = "slots" /\ rowIndex' = rowIndex + 1
  /\ UNCHANGED <<book, sheet, row, column, info, infos, error>>

EndSheet ==
  /\ phase = "slots" /\ ~HasNext
  /\ IF info.slots = <<>>
       THEN Reject(0) /\ UNCHANGED infos
       ELSE phase' = "sheets" /\ infos' = Append(infos, info) /\ UNCHANGED error
  /\ UNCHANGED <<book, sheet, row, column, rowIndex, info>>

EndFile ==
  /\ phase = "sheets" /\ sheet >= Len(book)
  /\ phase' = "parsed"
  /\ UNCHANGED <<book, sheet, row, column, rowIndex, info, infos, error>>

(* A sheet or a row cannot be read.                                         *)
ReadFails ==
  /\ ReadsFail
  /\ phase = "name" \/ (phase \in {"topics", "slots"} /\ HasNext)
  /\ phase' = "unreadable"
  /\ UNCHANGED <<book, sheet, row, column, rowIndex, info, infos, error>>

Parse ==
  \/ OpenSheet \/ ParseName \/ ParseTopic \/ EndTopics
  \/ ReadRow \/ SkipCell \/ ParseSlot \/ ParseSlotFails \/ EndRow
  \/ EndSheet \/ EndFile
Next == Parse \/ ReadFails

Spec == Init /\ [][Next]_vars
-----------------------------------------------------------------------------
(* What a sheet says, without the order it is read in: the name, then the   *)
(* topics down to the first row that is not one column, then, below that    *)
(* row, a slot wherever there is a date.                                    *)
Ending(s) ==
  CHOOSE n \in 2 .. Len(s) + 1 :
    /\ \A k \in 2 .. n - 1 : OneColumn(s[k])
    /\ n \in DOMAIN s => ~OneColumn(s[n])

SlotCells(s) ==
  {x \in (Ending(s) + 1 .. Len(s)) \X UNION {DOMAIN s[r] : r \in DOMAIN s} :
     x[2] \in DOMAIN s[x[1]] /\ s[x[1]][x[2]] = "date"}

WellFormed(s) ==
  /\ s # <<>> /\ OneColumn(s[1])
  /\ Ending(s) > 2
  /\ SlotCells(s) # {}
  /\ \A x \in SlotCells(s) : x[2] < Len(s[x[1]]) /\ s[x[1]][x[2] + 1] = "range"

Before(x, y) == x[1] < y[1] \/ (x[1] = y[1] /\ x[2] < y[2])

Describes(i, s) ==
  /\ i.topics = [k \in 1 .. Ending(s) - 2 |-> k + 1]
  /\ Range(i.slots) = SlotCells(s)
  /\ \A j, k \in DOMAIN i.slots : j < k => Before(i.slots[j], i.slots[k])

(* The parser and the reading above agree: a workbook is accepted if and    *)
(* only if every sheet but the first is well formed, and the result has     *)
(* every topic and every slot of every sheet once and in order, which the   *)
(* upload relies on: it inserts no empty list and keeps the names in order. *)
AuthoritySheets == 2 .. Len(book)

ParsedAsWritten ==
  /\ phase = "parsed" =>
       /\ Len(infos) = Cardinality(AuthoritySheets)
       /\ \A n \in AuthoritySheets : WellFormed(book[n]) /\ Describes(infos[n - 1], book[n])
  /\ phase = "rejected" => ~WellFormed(book[sheet])

(* excel.go:176, 187 and 199: what is wrong with a range is reported "на %d  *)
(* строке листа" (on row %d of the sheet): the row it was found in. A row   *)
(* that ends in a date is the other error, which speaks of the schedule.    *)
ErrorNamesRow ==
  phase = "rejected" /\ error > 0 /\ row > 1 /\ column < Len(Cells) => error = row
=============================================================================
