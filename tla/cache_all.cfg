SPECIFICATION FairSpec
CONSTANTS
  i1 = i1
  i2 = i2
  p1 = p1
  p2 = p2
  Item = {i1, i2}
  Player = {p1, p2}
  MaxTime = 3
  MaxSyncs = 1
  Cases <- AllCases
INVARIANTS
  TypeOK
  
  AddFindsNoCopy
  UnflaggedIsServers
PROPERTIES
  SyncAnswered
  CreatedReachesServer
