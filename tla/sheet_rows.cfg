CONSTANTS
  ReadsFail = FALSE
  Workbook <- MCWorkbook
SPECIFICATION Spec
INVARIANT ErrorNamesRow
CHECK_DEADLOCK FALSE
