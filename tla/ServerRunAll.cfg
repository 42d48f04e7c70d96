\* Two listeners.
SPECIFICATION FairSpec
CONSTANT N = 2
PROPERTY RunAll
CHECK_DEADLOCK FALSE
