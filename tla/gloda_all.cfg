SPECIFICATION FairSpec
CONSTANTS
  m1 = m1
  m2 = m2
  f1 = f1
  f2 = f2
  Message = {m1, m2}
  Folder = {f1, f2}
  NoMessage = noMessage
  NoFolder = noFolder
  MaxVersion = 2
  EventBudget = 1
  MaxCompactions = 1
  MaxRestarts = 1
  Cases <- AllCases
INVARIANTS
  TypeOK
  ChangeIsRemembered
  MailAndIndexAgree
  DriverIsDriven
PROPERTIES
  EventuallyIndexed
CHECK_DEADLOCK FALSE
