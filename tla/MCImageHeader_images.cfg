SPECIFICATION Spec
CONSTANTS
  Files <- MCFiles
  MaxBytes = 33
  MaxWidth = 4096
  MaxHeight = 4096
  Undeclared = Undeclared
CHECK_DEADLOCK FALSE
INVARIANT VerdictFitsTheFile
PROPERTY ValidationEnds
