\* A restore that updates profiles, and after it the run its message advises.
SPECIFICATION Spec
CONSTANTS
  t1 = t1
  n1 = n1
  n2 = n2
  f1 = f1
  f2 = f2
  p1 = p1
  p2 = p2
  TopicNames <- MCTopicNames
  ProfileNames <- MCProfileNames
  KeyPaths <- MCKeyPaths
  Contents <- MCContents
  MaxId = 7
  SourcePolicy <- MCSourcePolicy
  SourceTopic <- MCSourceTopic
  DlpKind <- MCDlpKind
  SourceDlp <- MCSourceDlp
  Suffixed <- MCSuffixed
  Procs <- MCProcs
  Starts <- MCUpdates
INVARIANTS
  AdviceHelps
CHECK_DEADLOCK FALSE
