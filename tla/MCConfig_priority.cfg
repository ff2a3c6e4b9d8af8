SPECIFICATION Spec
CONSTANTS
  MAX_THREADS = 2
  Numbers <- MCNumbers
  Texts <- MCTexts
  MaxOptions = 3
INVARIANTS PriorityKept
\* The configuration is read once.
CHECK_DEADLOCK FALSE
