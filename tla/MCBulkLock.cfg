\* Three processes, the lock file removed up to twice.
SPECIFICATION LockSpec
CONSTANTS
  Procs = {a, b, c}
  LockIds = {l1, l2, l3}
  FileIds = {f1, f2, f3}
  None = None
  Attempts = 2
  MaxRemovals = 2
SYMMETRY Symmetry
INVARIANTS
  OneProcess
  SentTwiceOnlyInWindow
CHECK_DEADLOCK FALSE
