SPECIFICATION FairSpec
CONSTANTS
  f1 = f1
  f2 = f2
  none = none
  Request = {1, 2, 3}
  Folder = {f1, f2}
  File = {x1}
  NoFolder = none
  NewFolder = new
  Parent <- FlatParent
  NameOf <- OwnName
  NoName = noname
  RenamedTo = renamed
  MaxSources = 1
  Env = {"reentrant"}
CHECK_DEADLOCK FALSE
INVARIANTS
  OneCopyPerTarget
  CompletionsAreMatched
  QueueNeverStalls
PROPERTY
  KeepsFairPromise
