\* Two changes of the list during the walk, a ceiling of four rows.
SPECIFICATION Spec
CONSTANTS
  Keys = {1, 2, 3, 4, 5, 6}
  PageWalks <- MCPageWalks
  PageServices <- MCPageServices
  NumberedWalks <- MCNumberedWalks
  NumberedServices <- MCNumberedServices
  OffsetWalks <- MCOffsetWalks
  OffsetServices <- MCOffsetServices
  Lists <- MCLists
  MaxItems = 4
  CountCap = 1
  NoTotal = NoTotal
  MaxEdits = 2
INVARIANTS
  TypeOK
  CompleteWhenStable
  EditsHideNothing
CHECK_DEADLOCK FALSE
