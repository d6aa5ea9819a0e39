SPECIFICATION FairSpec
CONSTANTS
  a1 = a1
  a2 = a2
  Account = {a1, a2}
  MaxAttempt = 2
  Cases <- AllCases
INVARIANTS
  TypeOK
  UserDisconnectIsFinal
  WantedIsNotForgotten
PROPERTIES
  CrashIsRemembered
  DeadConnectionEnds
  LostReconnects
