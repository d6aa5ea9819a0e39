SPECIFICATION Spec
CONSTANTS
  i1 = i1
  i2 = i2
  Item = {i1, i2}
  MaxChanges = 2
  MaxRefreshes = 1
  MaxOthers = 1
  Cases <- Unreadable
INVARIANTS
  UnreadableIsReadOnly
CHECK_DEADLOCK FALSE
