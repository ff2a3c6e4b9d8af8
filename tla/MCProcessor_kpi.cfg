SPECIFICATION ProcessorSpec
CONSTANTS
  MaxMessages = 4
  KpiHandlers = {"null", "assigned"}
INVARIANTS
  LatestElementUsed
  OnlyRefusedLeak
CHECK_DEADLOCK FALSE
