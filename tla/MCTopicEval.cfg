\* Three rows, two scans at a time, every rate that matters for them.
SPECIFICATION Spec
CONSTANTS
  Total = 3
  Concurrency = 2
  Rates <- MCRates
  NoRate = NoRate
  Second = 2
INVARIANTS
  WithinLimits
  OutcomeTrue
PROPERTIES
  StopsAtOnce
  EvalEnds
CHECK_DEADLOCK FALSE
