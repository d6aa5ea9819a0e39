SPECIFICATION FairSpec
CONSTANTS
  m1 = m1
  m2 = m2
  q1 = q1
  NoMessage = NoMessage
  Message = {m1, m2, q1}
  Queued = {q1}
  Env = {"unsendable", "remove"}
INVARIANTS
  DeliveredOnce
  RunNeverStalls
  TimerSetMeansArmed
PROPERTY
  RunsComplete
