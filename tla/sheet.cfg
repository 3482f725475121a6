CONSTANTS
  ReadsFail = TRUE
  Workbook <- MCWorkbook
SPECIFICATION Spec
INVARIANT TypeOK
INVARIANT ParsedAsWritten
CHECK_DEADLOCK FALSE
