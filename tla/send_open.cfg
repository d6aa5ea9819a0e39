SPECIFICATION Spec
CONSTANTS
  m1 = m1
  m2 = m2
  q1 = q1
  NoMessage = NoMessage
  Message = {m1, m2, q1}
  Queued = {q1}
  Env = {"firstFails", "nextFails", "unsendable", "mailLost", "deleteFails", "parseFails", "query", "depositBusy", "remove", "offline", "quit"}
INVARIANTS
  TypeOK
  RunIsConsistent
  NothingLost
