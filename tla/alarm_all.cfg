SPECIFICATION FairSpec
CONSTANTS
  i1 = i1
  i2 = i2
  c1 = c1
  c2 = c2
  Calendar = {c1, c2}
  Item = {i1, i2}
  CalendarOf <- OneEach
  MaxTime = 4
  HoursBetweenUpdates = 2
  Search = {1, 2}
  Cases <- AllCases
INVARIANTS
  TypeOK
  NothingStale
  EveryAlarmRings
PROPERTIES
  LoadingEnds
CHECK_DEADLOCK FALSE
