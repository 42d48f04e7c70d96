\* Scripts whose break and continue leave no try body.  A rule ends.
SPECIFICATION Spec
CONSTANTS
  Modules <- MCModules
  MaxFrames = 4
  MaxGo = 4
  MaxConfig = 5
INVARIANTS StackDiscipline HandlersMatch ConfigNested  IteratorsSuspended NativesOnFrames
CHECK_DEADLOCK FALSE
