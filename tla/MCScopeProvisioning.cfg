\* Two commands at once, one of them a workspaces create.
SPECIFICATION Spec
CONSTANTS
  s = s
  w1 = w1
  w2 = w2
  p1 = p1
  p2 = p2
  Scopes <- MCScopes
  Slugs <- MCSlugs
  Procs <- MCProcs
  Services <- MCServices
  Plans <- MCPlans
INVARIANTS
  ScopeKept
  ResultTrue
CHECK_DEADLOCK FALSE
