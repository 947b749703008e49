\* Three signals, which is one more than the program tells apart.
SPECIFICATION Spec
CONSTANTS
  Interrupts = {"INT", "TERM"}
  None = None
  MaxSignals = 3
  Programs <- MCPrograms
  WaitBound = 2
INVARIANTS
  LeavesNothing
  NeverMissed
PROPERTY EndsWhenAsked
CHECK_DEADLOCK FALSE
