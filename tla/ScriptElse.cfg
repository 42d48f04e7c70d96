\* Exceptions inside try blocks of rules, functions, callbacks and iterators.
SPECIFICATION Spec
CONSTANTS
  Modules <- MCModules
  MaxFrames = 4
  MaxGo = 4
  MaxConfig = 5
PROPERTY ElseCatches
CHECK_DEADLOCK FALSE
