\* Two commands at once on the profiles and topics of one tenant.
SPECIFICATION Spec
CONSTANTS
  t1 = t1
  n1 = n1
  n2 = n2
  f1 = f1
  f2 = f2
  p1 = p1
  p2 = p2
  TopicNames <- MCTopicNames
  ProfileNames <- MCProfileNames
  KeyPaths <- MCKeyPaths
  Contents <- MCContents
  MaxId = 7
  SourcePolicy <- MCSourcePolicy
  SourceTopic <- MCSourceTopic
  DlpKind <- MCDlpKind
  SourceDlp <- MCSourceDlp
  Suffixed <- MCSuffixed
  Procs <- MCProcs
  Starts <- MCStarts
INVARIANTS
  ResultTrue
  NothingTwice
  ResumeWorks
PROPERTIES
  CleanupKeepsNewest
  LostOnlyInWindow
  NoSecondDlp
CHECK_DEADLOCK FALSE
