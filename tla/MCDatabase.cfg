\* Two statements of each thread, results of up to two rows, and the shutdown.
CONSTANTS
  MaxRows = 2
  MaxStatements = 2
SPECIFICATION Spec
INVARIANTS
  TypeOK
  OwnRows
  HandleReleased
  NothingOverlooked
  UndefinedOnlyByTwo
CHECK_DEADLOCK FALSE
