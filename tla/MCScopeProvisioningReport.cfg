\* What an interrupted gateway command prints.
SPECIFICATION Spec
CONSTANTS
  s = s
  w1 = w1
  w2 = w2
  p1 = p1
  p2 = p2
  Scopes <- MCScopes
  Slugs <- MCSlugs
  Procs <- MCProcs
  Services <- MCServices
  Plans <- MCPlans
INVARIANT NothingChangedTrue
CHECK_DEADLOCK FALSE
