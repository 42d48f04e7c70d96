\* Three listeners; the process may end, and the server may stop when all of
\* its listeners have failed.
SPECIFICATION ProcessSpec
CONSTANTS
  N = 3
  CommandLines <- MCCommandLines
INVARIANTS
  StartsIfSound
  ServedAsWritten
  WaitsForAll
CHECK_DEADLOCK FALSE
