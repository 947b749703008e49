\* Three prompts in two batches, requests of up to two prompts, one resume.
SPECIFICATION Spec
CONSTANTS
  N = 3
  BatchSize = 2
  ChunkSize = 2
  ScanIds = {s1, s2}
  NoScan = NoScan
  NoState = NoState
  MaxRetries = 1
  MaxQuiet = 1
  MaxStarts = 2
SYMMETRY Symmetry
INVARIANTS
  TypeOK
  NeverAcceptedTwice
  SentIsRecorded
  JournalCoversService
  BatchesInOrder
PROPERTY OutcomesAreFinal
CHECK_DEADLOCK FALSE
