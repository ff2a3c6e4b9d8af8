\* Requests and triggers that fill the initial blocks or exceed them by one, longer
\* responses.
SPECIFICATION Spec
CONSTANTS
  InitialListSize = 2
  MaxListSize = 2
  ItemSize = 4
  Setup = {0, 2, 3}
  HelperLists <- MCHelperLists
INVARIANTS RoundTrip MemoryRespected
\* After an overrun nothing is known of the process.
CHECK_DEADLOCK FALSE
