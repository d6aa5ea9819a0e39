SPECIFICATION FairSpec
CONSTANTS
  i1 = i1
  i2 = i2
  Item = {i1, i2}
  MaxChanges = 2
  MaxRefreshes = 1
  MaxOthers = 1
  Cases <- AllCases
INVARIANTS
  TypeOK
  UploadChangesWhatWasAsked
  OkIsStored
  RestShowsFile
PROPERTIES
  EveryChangeAnswered
CHECK_DEADLOCK FALSE
