SPECIFICATION Spec
CONSTANTS
  f1 = f1
  f2 = f2
  none = none
  Request = {1, 2, 3}
  Folder = {f1, f2}
  File = {x1}
  NoFolder = none
  NewFolder = new
  Parent <- FlatParent
  NameOf <- OwnName
  NoName = noname
  RenamedTo = renamed
  MaxSources = 2
  Env = {"reentrant", "duplicate", "retry", "refuse", "silent", "tells", "strays", "rename", "abort"}
CHECK_DEADLOCK FALSE
INVARIANTS
  TypeOK
  RequestsAreClosed
PROPERTY
  StartsInOrder
SYMMETRY Symmetry
