\* Two paths, one result (and rewrites without a new one), two resumes.
SPECIFICATION Spec
CONSTANTS
  Paths = {p1, p2}
  FirstPath = p1
  Ids = {i1, i2, i3, i4, i5}
  NoId = NoId
  NoFile = NoFile
  NoRec = NoRec
  MaxResults = 1
  MaxStarts = 3
SYMMETRY Symmetry
INVARIANTS
  TypeOK
  CsvNeverAhead
  OwnFileRecognised
PROPERTIES
  OthersFilesSurvive
  RowsNeverLost
  ReportedTruly
CHECK_DEADLOCK FALSE
