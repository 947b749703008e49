\* Two prompts in one batch, one per request, and two resumes; liveness, so
\* no symmetry.
SPECIFICATION Spec
CONSTANTS
  N = 2
  BatchSize = 2
  ChunkSize = 1
  ScanIds = {s1, s2}
  NoScan = NoScan
  NoState = NoState
  MaxRetries = 1
  MaxQuiet = 2
  MaxStarts = 3
INVARIANTS
  CheckpointNeverRefused
  ExitIsHonest
PROPERTIES
  KeepsPromise
  RunEnds
CHECK_DEADLOCK FALSE
