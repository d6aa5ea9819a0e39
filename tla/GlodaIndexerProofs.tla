------------------------- MODULE GlodaIndexerProofs -------------------------
(***************************************************************************)
(* Proofs about GlodaIndexer: that work is driven, that the mail folders   *)
(* and the database agree, and that changes are remembered.                *)
(***************************************************************************)
EXTENDS GlodaIndexer, SequenceTheorems, TLAPS

(* What callbackDriver and the indexing flags may be.                      *)
Driver ==
  [phase : {"idle", "timer", "wait"},
   wait : {"none", "index", "fetch", "commit", "lastCommit"},
   desired : BOOLEAN, suppressed : BOOLEAN, batch : BOOLEAN,
   turned : BOOLEAN, tx : BOOLEAN]

(* A driver that is wanted and may run has a callback due.                 *)
NotAsleep(d) == d.desired /\ ~d.suppressed => d.phase # "idle"

(* Work is only there while indexing is wanted: whoever queues a job asks  *)
(* for it, and it is no longer wanted only when the queue is empty.        *)
WorkIsWanted == queue # <<>> \/ job # NoJob => driver.desired

DriverInv == driver \in Driver /\ NotAsleep(driver) /\ WorkIsWanted

-----------------------------------------------------------------------------
(* What the operators on the driver's record return.                       *)

LEMMA KickedWakes ==
  ASSUME NEW d \in Driver, NotAsleep(d)
  PROVE  Kicked(d) \in Driver /\ NotAsleep(Kicked(d)) /\ Kicked(d).desired
BY DEF Kicked, Driver, NotAsleep

LEMMA WaitingIsNotAsleep ==
  ASSUME driver \in Driver,
         NEW what \in {"none", "index", "fetch", "commit", "lastCommit"},
         WaitFor(what)
  PROVE  driver' \in Driver /\ NotAsleep(driver') /\ driver'.desired = driver.desired
BY DEF WaitFor, InBatch, Driver, NotAsleep

LEMMA PausingIsNotAsleep ==
  ASSUME driver \in Driver, Pause
  PROVE  driver' \in Driver /\ NotAsleep(driver') /\ driver'.desired = driver.desired
BY DEF Pause, Paused, InBatch, IndexingWanted, Driver, NotAsleep

-----------------------------------------------------------------------------
(* The invariant.                                                          *)

LEMMA DriverInit == Init => DriverInv
BY DEF Init, DriverInv, Driver, StartedDriver, NotAsleep, WorkIsWanted

(* The turns of the batch that end with a pause or a wait, and end no more
   than the job or the queue they found.                                   *)
LEMMA TurnKeepsDriver == ASSUME DriverInv, DriverTurn PROVE DriverInv'
<1>. USE DEF DriverInv, WorkIsWanted
<1>1. CASE Hire
  BY <1>1, PausingIsNotAsleep DEF Hire
<1>2. CASE NothingToHire
  BY <1>2 DEF NothingToHire, InBatch, Driver, NotAsleep, jobVars
<1>3. CASE IndexingSweep
  BY <1>3, PausingIsNotAsleep DEF IndexingSweep
<1>4. CASE FolderIndexBegins
  BY <1>4, PausingIsNotAsleep DEF FolderIndexBegins, NoJob
<1>5. CASE FolderIndexVisits
  <2>1. WaitFor("index") /\ job # NoJob /\ queue' = queue
    BY <1>5 DEF FolderIndexVisits, NoJob
  <2>. QED BY <2>1, WaitingIsNotAsleep
<1>6. CASE FolderIndexEnds
  BY <1>6, PausingIsNotAsleep DEF FolderIndexEnds, JobEnds
<1>7. CASE MessageIndexVisits
  <2>1. (WaitFor("index") \/ Pause) /\ job # NoJob /\ queue' = queue
    BY <1>7 DEF MessageIndexVisits, NoJob
  <2>. QED BY <2>1, WaitingIsNotAsleep, PausingIsNotAsleep
<1>8. CASE MessageIndexEnds
  BY <1>8, PausingIsNotAsleep DEF MessageIndexEnds, JobEnds
<1>9. CASE IndexMessage
  BY <1>9, PausingIsNotAsleep DEF IndexMessage, NoJob
<1>10. CASE CompactionPassBegins
  <2>1. (WaitFor("fetch") \/ Pause) /\ job # NoJob /\ queue' = queue
    BY <1>10 DEF CompactionPassBegins, NoJob
  <2>. QED BY <2>1, WaitingIsNotAsleep, PausingIsNotAsleep
<1>. QED BY <1>1, <1>2, <1>3, <1>4, <1>5, <1>6, <1>7, <1>8, <1>9, <1>10 DEF DriverTurn

(* The callbacks find a job, and so a driver that is wanted, or end.       *)
LEMMA CallbackKeepsDriver == ASSUME DriverInv, Callback PROVE DriverInv'
<1>. USE DEF DriverInv, WorkIsWanted
<1>1. CASE MessageRead
  <2>1. job' # NoJob => job # NoJob
    <3>1. job = NoJob => job.at = NoMessage
      BY DEF NoJob
    <3>. QED BY <3>1, <1>1 DEF MessageRead
  <2>2. /\ driver' \in Driver /\ NotAsleep(driver') /\ driver'.desired = driver.desired
        /\ queue' = queue
    BY <1>1 DEF MessageRead, Driver, NotAsleep
  <2>. QED BY <2>1, <2>2
<1>2. CASE CompactionPassMatches
  <2>1. WaitFor("fetch") /\ job # NoJob /\ queue' = queue
    BY <1>2 DEF CompactionPassMatches, NoJob
  <2>. QED BY <2>1, WaitingIsNotAsleep
<1>3. CASE CompactionPassEnds
  <2>1. Pause /\ (job' # NoJob => job # NoJob) /\ queue' = queue
    BY <1>3 DEF CompactionPassEnds, JobEnds
  <2>. QED BY <2>1, PausingIsNotAsleep
<1>4. CASE CommitDone
  <2>1. queue' = queue /\ job' = job
    BY <1>4 DEF CommitDone, jobVars
  <2>2. driver' \in Driver /\ NotAsleep(driver') /\ driver'.desired = driver.desired
    BY <1>4 DEF CommitDone, Paused, IndexingWanted, Driver, NotAsleep
  <2>. QED BY <2>1, <2>2
<1>. QED BY <1>1, <1>2, <1>3, <1>4 DEF Callback

(* The events queue jobs only together with set indexing, kill jobs without
   stopping the driver, or say that it may run again.                      *)
LEMMA EventKeepsDriver ==
  ASSUME DriverInv,
         \/ \E m \in Message : Change(m)
         \/ \E f \in Folder : FolderCompactStart(f) \/ FolderCompactFinish(f)
         \/ GoOffline \/ GoOnline \/ ScheduleInitialSweep
         \/ Quit \/ Crash
  PROVE  DriverInv'
<1>. USE DEF DriverInv, WorkIsWanted
<1>1. CASE \E m \in Message : Change(m)
  <2>1. job' = job /\ (driver' = Kicked(driver) \/ (driver' = driver /\ queue' = queue))
    BY <1>1 DEF Change, ReindexChangedMessage
  <2>. QED BY <2>1, KickedWakes
<1>2. CASE \E f \in Folder : FolderCompactStart(f)
  <2>1. driver' = driver /\ queue' = queue /\ (job' # NoJob => job # NoJob)
    BY <1>2 DEF FolderCompactStart, KillIfIn, JobEnds
  <2>. QED BY <2>1
<1>3. CASE \E f \in Folder : FolderCompactFinish(f)
  <2>1. /\ driver' = Kicked(driver) \/ (driver' = driver /\ queue' = queue)
        /\ job' # NoJob => job # NoJob
    BY <1>3 DEF FolderCompactFinish, KillIfIn, JobEnds
  <2>2. CASE driver' = Kicked(driver)
    <3>1. PICK d : d = Kicked(driver)
      OBVIOUS
    <3>2. d \in Driver /\ NotAsleep(d) /\ d.desired
      BY <3>1, KickedWakes
    <3>. QED BY <2>2, <3>1, <3>2
  <2>3. CASE driver' = driver /\ queue' = queue
    BY <2>1, <2>3
  <2>. HIDE DEF DriverInv
  <2>. QED BY <2>1, <2>2, <2>3, Zenon
<1>4. CASE GoOffline \/ GoOnline
  <2>1. queue' = queue /\ job' = job
    BY <1>4 DEF GoOffline, GoOnline, jobVars
  <2>2. driver' \in Driver /\ NotAsleep(driver') /\ driver'.desired = driver.desired
    BY <1>4 DEF GoOffline, GoOnline, Driver, NotAsleep
  <2>. QED BY <2>1, <2>2
<1>5. CASE ScheduleInitialSweep
  <2>1. job' = job /\ (driver' = Kicked(driver) \/ (driver' = driver /\ queue' = queue))
    BY <1>5 DEF ScheduleInitialSweep
  <2>. QED BY <2>1, KickedWakes
<1>6. CASE Quit \/ Crash
  <2>1. job' = NoJob /\ queue' = <<>> /\ driver' = StartedDriver
    BY <1>6 DEF Quit, Crash, NewSession, JobEnds
  <2>2. StartedDriver \in Driver /\ NotAsleep(StartedDriver)
    BY DEF StartedDriver, Driver, NotAsleep
  <2>. QED BY <2>1, <2>2
<1>. QED BY <1>1, <1>2, <1>3, <1>4, <1>5, <1>6

LEMMA DriverNext == DriverInv /\ [Next]_vars => DriverInv'
<1>. SUFFICES ASSUME DriverInv, [Next]_vars PROVE DriverInv'
  OBVIOUS
<1>. USE DEF DriverInv, WorkIsWanted
<1>1. CASE DriverTurn
  BY <1>1, TurnKeepsDriver
<1>2. CASE Callback
  BY <1>2, CallbackKeepsDriver
<1>3. CASE Commit
  <2>1. WaitFor("commit") /\ queue' = queue /\ job' = job
    BY <1>3 DEF Commit, jobVars
  <2>. QED BY <2>1, WaitingIsNotAsleep
<1>4. CASE IdleCommit \/ IdleCommitDone
  <2>1. queue' = queue /\ job' = job
    BY <1>4 DEF IdleCommit, IdleCommitDone, jobVars
  <2>2. driver' \in Driver /\ NotAsleep(driver') /\ driver'.desired = driver.desired
    BY <1>4 DEF IdleCommit, IdleCommitDone, Driver, NotAsleep
  <2>. QED BY <2>1, <2>2
<1>5. CASE UNCHANGED vars
  BY <1>5 DEF vars, jobVars
<1>. QED
  BY <1>1, <1>2, <1>3, <1>4, <1>5, EventKeepsDriver DEF Next

(* While there is a job the driver is driven, whatever messages, folders and
   circumstances there are: no job is ever queued, killed or ended, and no
   network or commit comes back, without somebody left to take the next turn
   (callbackDriver, indexer.js).                                           *)
THEOREM DriverIsDrivenAlways == Spec => []DriverIsDriven
<1>1. DriverInv => DriverIsDriven
  BY DEF DriverInv, WorkIsWanted, NotAsleep, DriverIsDriven, Driver
<1>. QED BY <1>1, DriverInit, DriverNext, PTL DEF Spec
-----------------------------------------------------------------------------
(* What the variables hold.                                                *)

Version == 0..MaxVersion
MailRecord == [version : Version, key : 0..1]
Dirty == {"clean", "dirty", "filthy"}
Header == [id : BOOLEAN, dirty : Dirty]
Tracked == [byKey : BOOLEAN, byId : BOOLEAN, dirty : {"clean", "dirty"}]
FolderStatus == [dirty : Dirty, compacting : BOOLEAN, compacted : BOOLEAN]
Database ==
  [rows : [Message -> MailRecord], dirty : [Folder -> Dirty],
   compacted : [Folder -> BOOLEAN]]

Event == [m : Message, key : 0..1]
Job ==
  [type : {"none", "sweep", "folder", "compact", "message"},
   folder : Folder \cup {NoFolder}, items : Seq(Event),
   left : SUBSET (Message \cup Folder), at : Message \cup {NoMessage},
   read : Version, stage : {"new", "pass", "match", "flushed"}]

(* A job that has not begun yet has neither visited nor read a message, and
   only a message job has messages.                                        *)
NotBegun(j) ==
  /\ j.at = NoMessage /\ j.read = 0 /\ j.stage = "new" /\ j.type # "none"
  /\ j.left \subseteq Folder /\ (j.type # "sweep" => j.left = {})
  /\ j.type # "message" => j.items = <<>>
  /\ j.type \in {"folder", "compact"} => j.folder \in Folder

Waiting == {j \in Job : NotBegun(j)}

(* The events that message jobs are to deal with.                          *)
Elements(s) == {s[i] : i \in DOMAIN s}
EventsOf(j) == Elements(j.items)
EventsIn(jobs) == UNION {EventsOf(j) : j \in jobs}
Events == EventsOf(job) \cup EventsIn(Elements(queue))

-----------------------------------------------------------------------------
(* Queues.                                                                 *)

LEMMA NoElements == Elements(<<>>) = {}
BY DEF Elements

LEMMA OneElement == ASSUME NEW x PROVE Elements(<<x>>) = {x}
BY DEF Elements

LEMMA TailElements ==
  ASSUME NEW S, NEW s \in Seq(S), s # <<>>
  PROVE  /\ Head(s) \in S /\ Tail(s) \in Seq(S)
         /\ Elements(s) = {Head(s)} \cup Elements(Tail(s))
<1>1. /\ Head(s) \in S /\ Tail(s) \in Seq(S) /\ Len(Tail(s)) = Len(s) - 1
      /\ \A i \in 1..(Len(s) - 1) : Tail(s)[i] = s[i + 1]
      /\ Head(s) = s[1] /\ Len(s) \in Nat /\ Len(s) >= 1
  BY HeadTailProperties, EmptySeq, LenProperties
<1>2. DOMAIN s = 1..Len(s) /\ DOMAIN Tail(s) = 1..(Len(s) - 1)
  BY <1>1, LenProperties
<1>3. \A i \in 1..(Len(s) - 1) : i + 1 \in 1..Len(s)
  BY <1>1
<1>4. \A i \in 1..Len(s) : i = 1 \/ (i - 1 \in 1..(Len(s) - 1) /\ (i - 1) + 1 = i)
  BY <1>1
<1>5. ASSUME NEW i \in 1..Len(s) PROVE s[i] \in {Head(s)} \cup Elements(Tail(s))
  <2>1. CASE i = 1
    BY <1>1, <2>1
  <2>2. CASE i # 1
    <3>1. i - 1 \in 1..(Len(s) - 1) /\ (i - 1) + 1 = i
      BY <1>4, <2>2
    <3>2. Tail(s)[i - 1] = s[i]
      BY <1>1, <3>1
    <3>. QED BY <1>2, <3>1, <3>2 DEF Elements
  <2>. QED BY <2>1, <2>2
<1>6. ASSUME NEW i \in 1..(Len(s) - 1) PROVE Tail(s)[i] \in Elements(s)
  BY <1>1, <1>2, <1>3 DEF Elements
<1>7. Head(s) \in Elements(s)
  <2>1. 1 \in DOMAIN s
    BY <1>1, <1>2
  <2>. QED BY <1>1, <2>1 DEF Elements
<1>. QED BY <1>1, <1>2, <1>5, <1>6, <1>7 DEF Elements

LEMMA AppendElements ==
  ASSUME NEW S, NEW s \in Seq(S), NEW x \in S
  PROVE  Append(s, x) \in Seq(S) /\ Elements(Append(s, x)) = Elements(s) \cup {x}
<1>1. /\ Append(s, x) \in Seq(S) /\ Len(Append(s, x)) = Len(s) + 1
      /\ \A i \in 1..Len(s) : Append(s, x)[i] = s[i]
      /\ Append(s, x)[Len(s) + 1] = x /\ Len(s) \in Nat
  BY AppendProperties, LenProperties
<1>2. DOMAIN s = 1..Len(s) /\ DOMAIN Append(s, x) = 1..(Len(s) + 1)
  BY <1>1, LenProperties
<1>3. 1..(Len(s) + 1) = 1..Len(s) \cup {Len(s) + 1}
  BY <1>1
<1>. QED BY <1>1, <1>2, <1>3 DEF Elements

LEMMA ConcatElements ==
  ASSUME NEW S, NEW s \in Seq(S), NEW t \in Seq(S)
  PROVE  s \o t \in Seq(S) /\ Elements(s \o t) = Elements(s) \cup Elements(t)
<1>1. /\ s \o t \in Seq(S) /\ Len(s \o t) = Len(s) + Len(t)
      /\ Len(s) \in Nat /\ Len(t) \in Nat
      /\ \A i \in 1..(Len(s) + Len(t)) :
           (s \o t)[i] = IF i <= Len(s) THEN s[i] ELSE t[i - Len(s)]
  BY ConcatProperties, LenProperties
<1>2. /\ DOMAIN s = 1..Len(s) /\ DOMAIN t = 1..Len(t)
      /\ DOMAIN (s \o t) = 1..(Len(s) + Len(t))
  BY <1>1, LenProperties
<1>3. ASSUME NEW i \in 1..(Len(s) + Len(t))
      PROVE  (s \o t)[i] \in Elements(s) \cup Elements(t)
  <2>1. CASE i <= Len(s)
    <3>1. i \in 1..Len(s)
      BY <2>1
    <3>. QED BY <1>1, <1>2, <2>1, <3>1 DEF Elements
  <2>2. CASE ~(i <= Len(s))
    <3>1. i - Len(s) \in 1..Len(t)
      BY <1>1, <2>2
    <3>. QED BY <1>1, <1>2, <2>2, <3>1 DEF Elements
  <2>. QED BY <2>1, <2>2
<1>4. ASSUME NEW i \in 1..Len(s) PROVE s[i] \in Elements(s \o t)
  <2>1. i \in 1..(Len(s) + Len(t)) /\ i <= Len(s)
    BY <1>1
  <2>2. (s \o t)[i] = s[i]
    BY <1>1, <2>1
  <2>. QED BY <1>2, <2>1, <2>2 DEF Elements
<1>5. ASSUME NEW i \in 1..Len(t) PROVE t[i] \in Elements(s \o t)
  <2>1. /\ i + Len(s) \in 1..(Len(s) + Len(t)) /\ ~(i + Len(s) <= Len(s))
        /\ (i + Len(s)) - Len(s) = i
    BY <1>1
  <2>2. (s \o t)[i + Len(s)] = t[i]
    BY <1>1, <2>1
  <2>. QED BY <1>2, <2>1, <2>2 DEF Elements
<1>. QED BY <1>1, <1>2, <1>3, <1>4, <1>5 DEF Elements

LEMMA EventsInUnion ==
  ASSUME NEW A, NEW B, NEW j
  PROVE  /\ EventsIn(A \cup B) = EventsIn(A) \cup EventsIn(B)
         /\ EventsIn({j}) = EventsOf(j) /\ EventsIn({}) = {}
BY DEF EventsIn

LEMMA NewJobs ==
  /\ NoJob \in Job /\ EventsOf(NoJob) = {}
  /\ \A f \in Folder :
       /\ FolderJob(f) \in Waiting /\ EventsOf(FolderJob(f)) = {}
       /\ CompactJob(f) \in Waiting /\ EventsOf(CompactJob(f)) = {}
  /\ \A folders \in SUBSET Folder :
       SweepJob(folders) \in Waiting /\ EventsOf(SweepJob(folders)) = {}
  /\ \A event \in Event :
       MessageJob(<<event>>) \in Waiting /\ EventsOf(MessageJob(<<event>>)) = {event}
<1>1. 0 \in Version
  BY GlodaAssumption DEF GlodaAssumption, Version
<1>2. PICK no \in Job : /\ no = NoJob /\ no.items = <<>> /\ no.left = {}
                        /\ no.at = NoMessage /\ no.read = 0 /\ no.stage = "new"
  <2>1. NoJob \in Job
    BY <1>1 DEF NoJob, Job
  <2>2. /\ NoJob.items = <<>> /\ NoJob.left = {} /\ NoJob.at = NoMessage
        /\ NoJob.read = 0 /\ NoJob.stage = "new"
    BY DEF NoJob
  <2>. QED BY <2>1, <2>2
<1>3. ASSUME NEW f \in Folder
      PROVE  /\ FolderJob(f) \in Waiting /\ FolderJob(f).items = <<>>
             /\ CompactJob(f) \in Waiting /\ CompactJob(f).items = <<>>
  <2>1. PICK j : j = FolderJob(f)
    OBVIOUS
  <2>2. j = [no EXCEPT !.type = "folder", !.folder = f]
    BY <1>2, <2>1 DEF FolderJob
  <2>3. j \in Waiting /\ j.items = <<>>
    BY <1>2, <2>2 DEF Waiting, Job, NotBegun
  <2>4. PICK k : k = CompactJob(f)
    OBVIOUS
  <2>5. k = [no EXCEPT !.type = "compact", !.folder = f]
    BY <1>2, <2>4 DEF CompactJob
  <2>6. k \in Waiting /\ k.items = <<>>
    BY <1>2, <2>5 DEF Waiting, Job, NotBegun
  <2>. QED BY <2>1, <2>3, <2>4, <2>6
<1>4. ASSUME NEW folders \in SUBSET Folder
      PROVE  SweepJob(folders) \in Waiting /\ SweepJob(folders).items = <<>>
  <2>1. PICK j : j = SweepJob(folders)
    OBVIOUS
  <2>2. j = [no EXCEPT !.type = "sweep", !.left = folders]
    BY <1>2, <2>1 DEF SweepJob
  <2>3. j \in Waiting /\ j.items = <<>>
    BY <1>2, <2>2 DEF Waiting, Job, NotBegun
  <2>. QED BY <2>1, <2>3
<1>5. ASSUME NEW event \in Event
      PROVE  MessageJob(<<event>>) \in Waiting /\ MessageJob(<<event>>).items = <<event>>
  <2>0. <<event>> \in Seq(Event)
    OBVIOUS
  <2>1. PICK items : items = <<event>>
    OBVIOUS
  <2>2. PICK j : j = MessageJob(items)
    OBVIOUS
  <2>3. j = [no EXCEPT !.type = "message", !.items = items]
    BY <1>2, <2>2 DEF MessageJob
  <2>4. j \in Waiting /\ j.items = items
    BY <1>2, <2>0, <2>1, <2>3 DEF Waiting, Job, NotBegun
  <2>. QED BY <2>1, <2>2, <2>4
<1>6. NoJob.items = <<>>
  BY DEF NoJob
<1>. QED BY <1>2, <1>3, <1>4, <1>5, <1>6, NoElements, OneElement DEF EventsOf

LEMMA SweepNeededQueues ==
  ASSUME NEW q \in Seq(Waiting)
  PROVE  /\ SweepNeeded(q) \in Seq(Waiting)
         /\ EventsIn(Elements(SweepNeeded(q))) = EventsIn(Elements(q))
<1>1. PICK sweep \in Waiting : sweep = SweepJob(Folder) /\ EventsOf(sweep) = {}
  BY NewJobs
<1>2. SweepNeeded(q) \in {q, Append(q, sweep)}
  BY <1>1 DEF SweepNeeded
<1>3. /\ Append(q, sweep) \in Seq(Waiting)
      /\ Elements(Append(q, sweep)) = Elements(q) \cup {sweep}
  BY AppendElements
<1>4. EventsIn(Elements(q) \cup {sweep}) = EventsIn(Elements(q))
  BY <1>1 DEF EventsIn
<1>. QED BY <1>2, <1>3, <1>4

LEMMA EventAdded ==
  ASSUME NEW j \in Waiting, j.type = "message", NEW event \in Event
  PROVE  /\ [j EXCEPT !.items = Append(j.items, event)] \in Waiting
         /\ EventsOf([j EXCEPT !.items = Append(j.items, event)]) = EventsOf(j) \cup {event}
<1>1. j.items \in Seq(Event) /\ j \in Job
  BY DEF Waiting, Job
<1>2. PICK items : items = Append(j.items, event)
  OBVIOUS
<1>3. items \in Seq(Event) /\ Elements(items) = Elements(j.items) \cup {event}
  BY <1>1, <1>2, AppendElements
<1>4. PICK k : k = [j EXCEPT !.items = items]
  OBVIOUS
<1>5. k \in Waiting /\ k.items = items
  BY <1>3, <1>4 DEF Waiting, Job, NotBegun
<1>. QED BY <1>2, <1>3, <1>4, <1>5 DEF EventsOf

(* A message job in the queue takes the event, unless it is full.          *)
LEMMA QueuedEventQueues ==
  ASSUME queue \in Seq(Waiting), NEW event \in Event
  PROVE  /\ QueuedEvent(event) \in Seq(Waiting)
         /\ EventsIn(Elements(queue)) \subseteq EventsIn(Elements(QueuedEvent(event)))
         /\ EventsIn(Elements(QueuedEvent(event)))
              \subseteq EventsIn(Elements(queue)) \cup {event}
         /\ ~EventOverflows => event \in EventsIn(Elements(QueuedEvent(event)))
<1>1. CASE PendingAddJob = {}
  <2>1. PICK j \in Waiting : j = MessageJob(<<event>>) /\ EventsOf(j) = {event}
    BY NewJobs
  <2>2. QueuedEvent(event) = Append(queue, j)
    BY <1>1, <2>1 DEF QueuedEvent
  <2>3. /\ Append(queue, j) \in Seq(Waiting)
        /\ Elements(Append(queue, j)) = Elements(queue) \cup {j}
    BY AppendElements
  <2>4. EventsIn(Elements(queue) \cup {j}) = EventsIn(Elements(queue)) \cup {event}
    BY <2>1 DEF EventsIn
  <2>. QED BY <2>2, <2>3, <2>4
<1>2. CASE PendingAddJob # {} /\ EventOverflows
  BY <1>2, SweepNeededQueues DEF QueuedEvent
<1>3. CASE PendingAddJob # {} /\ ~EventOverflows
  <2>. DEFINE longer(i) == [queue[i] EXCEPT !.items = Append(queue[i].items, event)]
  <2>1. PICK q : q = [i \in DOMAIN queue |->
                        IF i \in PendingAddJob THEN longer(i) ELSE queue[i]]
    OBVIOUS
  <2>2. QueuedEvent(event) = q
    BY <1>3, <2>1 DEF QueuedEvent
  <2>3. /\ DOMAIN queue = 1..Len(queue) /\ Len(queue) \in Nat
        /\ \A i \in DOMAIN queue : queue[i] \in Waiting
    BY LenProperties, ElementOfSeq
  <2>4. ASSUME NEW i \in DOMAIN queue
        PROVE  /\ q[i] \in Waiting
               /\ i \notin PendingAddJob => EventsOf(q[i]) = EventsOf(queue[i])
               /\ i \in PendingAddJob => EventsOf(q[i]) = EventsOf(queue[i]) \cup {event}
    <3>1. CASE i \in PendingAddJob
      <4>1. q[i] = longer(i) /\ queue[i].type = "message" /\ queue[i] \in Waiting
        BY <2>1, <2>3, <3>1 DEF PendingAddJob
      <4>. QED BY <3>1, <4>1, EventAdded
    <3>2. CASE i \notin PendingAddJob
      BY <2>1, <2>3, <3>2
    <3>. QED BY <3>1, <3>2
  <2>5. q \in [1..Len(queue) -> Waiting] /\ DOMAIN q = DOMAIN queue
    BY <2>1, <2>3, <2>4
  <2>6. q \in Seq(Waiting)
    BY <2>3, <2>5, SeqDef
  <2>7. ASSUME NEW i \in DOMAIN queue
        PROVE  /\ EventsOf(queue[i]) \subseteq EventsIn(Elements(q))
               /\ EventsOf(q[i]) \subseteq EventsIn(Elements(queue)) \cup {event}
    BY <2>4, <2>5 DEF EventsIn, Elements
  <2>8. PICK i \in DOMAIN queue : i \in PendingAddJob
    BY <1>3 DEF PendingAddJob
  <2>9. event \in EventsIn(Elements(q))
    BY <2>4, <2>5, <2>8 DEF EventsIn, Elements
  <2>10. EventsIn(Elements(queue)) \subseteq EventsIn(Elements(q))
    BY <2>7 DEF EventsIn, Elements
  <2>11. EventsIn(Elements(q)) \subseteq EventsIn(Elements(queue)) \cup {event}
    <3>. SUFFICES ASSUME NEW j \in Elements(q), NEW e \in EventsOf(j)
                  PROVE  e \in EventsIn(Elements(queue)) \cup {event}
      BY DEF EventsIn
    <3>1. PICK k \in DOMAIN queue : j = q[k]
      BY <2>5 DEF Elements
    <3>. QED BY <2>7, <3>1
  <2>. QED BY <2>2, <2>6, <2>9, <2>10, <2>11
<1>. QED BY <1>1, <1>2, <1>3

-----------------------------------------------------------------------------
(* The driver, once more: it waits only in a batch with a transaction.     *)

Steady(d) ==
  /\ d.phase = "wait" <=> d.wait # "none"
  /\ d.phase = "wait" => d.batch /\ d.tx

LEMMA PauseIsSteady ==
  ASSUME driver \in Driver, Pause
  PROVE  Steady(driver') /\ driver'.wait = "none" /\ driver'.tx /\ driver'.batch
BY DEF Pause, Paused, InBatch, IndexingWanted, Driver, Steady

LEMMA WaitIsSteady ==
  ASSUME driver \in Driver, NEW what \in {"index", "fetch", "commit", "lastCommit"},
         WaitFor(what)
  PROVE  Steady(driver') /\ driver'.wait = what /\ driver'.tx /\ driver'.batch
BY DEF WaitFor, InBatch, Driver, Steady

LEMMA KickIsSteady ==
  ASSUME NEW d \in Driver, Steady(d)
  PROVE  /\ Steady(Kicked(d)) /\ Kicked(d).wait = d.wait
         /\ Kicked(d).tx = d.tx /\ Kicked(d).batch = d.batch
BY DEF Kicked, Driver, Steady

-----------------------------------------------------------------------------
(* The invariant on types, and on where the worker stands.                 *)

MailTypes ==
  /\ msg \in [Message -> MailRecord] /\ hdr \in [Message -> Header]
  /\ pending \in [Message -> Tracked] /\ postCommit \in {"none", "open", "sent"}
DbTypes ==
  /\ rows \in [Message -> MailRecord] /\ fld \in [Folder -> FolderStatus]
  /\ disk \in Database
WorkTypes ==
  /\ queue \in Seq(Waiting) /\ job \in Job
  /\ inFolder \in Folder \cup {NoFolder}
  /\ driver \in Driver /\ Steady(driver)
OtherTypes ==
  /\ case \in Cases /\ idleCommit \in BOOLEAN /\ sweepDue \in BOOLEAN
  /\ spent \in [compactions : Nat, restarts : Nat]
Types == MailTypes /\ DbTypes /\ WorkTypes /\ OtherTypes

(* Only messages that are there are worked on.                             *)
There(m) == 0 < msg[m].version
EventsAreThere == \A e \in Events : There(e.m)

JobFits ==
  /\ job.type = "none" => job = NoJob
  /\ job.type # "sweep"
  /\ job.type # "message" => job.items = <<>>
  /\ job.type \in {"folder", "compact"} => job.folder \in Folder /\ inFolder = job.folder
  /\ job.type = "folder" => job.left \subseteq Delivered(job.folder)
HandFits ==
  /\ job.at # NoMessage =>
       /\ job.type \in {"folder", "message"}
       /\ job.type = "folder" => Home(job.at) = job.folder /\ job.stage = "pass"
       /\ There(job.at) /\ job.read <= msg[job.at].version
       /\ job.read = 0 => driver.wait = "index"
  /\ job.read > 0 => job.at # NoMessage
StageFits ==
  /\ job.stage \in {"match", "flushed"} => job.type = "compact"
  /\ driver.wait = "fetch" => job = NoJob \/ job.stage \in {"match", "flushed"}
WorkerFits == JobFits /\ HandFits /\ StageFits

LEMMA CaseType ==
  ASSUME case \in Cases
  PROVE  /\ case.home \in [Message -> Folder] /\ case.env \subseteq Circumstances
         /\ \A m \in Message : Home(m) \in Folder
<1>1. case \in [env : SUBSET Circumstances, home : [Message -> Folder],
                mail : SUBSET Message]
  BY GlodaAssumption DEF GlodaAssumption
<1>. QED BY <1>1 DEF Home

LEMMA SnapshotType == DbTypes => Snapshot \in Database
BY DEF DbTypes, Snapshot, Database, FolderStatus, MailRecord

LEMMA TrackType ==
  ASSUME MailTypes, NEW ms \in SUBSET Message, Track(ms)
  PROVE  /\ pending' \in [Message -> Tracked]
         /\ postCommit' \in {"none", "open", "sent"}
BY DEF MailTypes, Track, Tracked

LEMMA FlushType ==
  ASSUME MailTypes, Flush
  PROVE  /\ hdr' \in [Message -> Header] /\ pending' \in [Message -> Tracked]
         /\ postCommit' = "none"
<1>1. \A m \in Message : pending[m].dirty \in Dirty /\ hdr[m] \in Header
  BY DEF MailTypes, Tracked, Dirty
<1>2. hdr' \in [Message -> Header]
  <2>1. PICK missed \in SUBSET Message :
          hdr' = [m \in Message |->
                    IF pending[m].byId /\ m \notin missed
                    THEN [id |-> TRUE, dirty |-> pending[m].dirty] ELSE hdr[m]]
    BY DEF Flush
  <2>. QED BY <1>1, <2>1 DEF Header
<1>. QED BY <1>2 DEF Flush, NotTracked, Tracked

LEMMA RunPostCommitType ==
  ASSUME MailTypes, RunPostCommit
  PROVE  /\ hdr' \in [Message -> Header] /\ pending' \in [Message -> Tracked]
         /\ postCommit' \in {"none", "open", "sent"}
BY FlushType DEF RunPostCommit, MailTypes, trackVars

LEMMA TypesInit == Init => Types
<1>. SUFFICES ASSUME Init PROVE Types
  OBVIOUS
<1>1. MailTypes
  <2>1. PICK full \in SUBSET Folder :
          msg = [m \in Message |->
                   [version |-> IF m \in case.mail /\ Home(m) \in full THEN 1 ELSE 0,
                    key |-> 0]]
    BY DEF Init
  <2>2. 0 \in Version /\ 1 \in Version
    BY GlodaAssumption DEF GlodaAssumption, Version
  <2>3. msg \in [Message -> MailRecord]
    BY <2>1, <2>2 DEF MailRecord
  <2>. QED BY <2>3 DEF Init, MailTypes, Header, Dirty, NotTracked, Tracked
<1>2. DbTypes
  <2>1. PICK full \in SUBSET Folder :
          fld = [f \in Folder |->
            [dirty |-> IF f \in full THEN "filthy" ELSE "clean",
             compacting |-> FALSE, compacted |-> FALSE]]
    BY DEF Init
  <2>2. fld \in [Folder -> FolderStatus]
    BY <2>1 DEF FolderStatus, Dirty
  <2>3. 0 \in Version
    BY GlodaAssumption DEF GlodaAssumption, Version
  <2>4. rows \in [Message -> MailRecord]
    BY <2>3 DEF Init, NoRow, MailRecord
  <2>5. disk \in Database
    BY <2>2, <2>4 DEF Init, Snapshot, Database, FolderStatus
  <2>. QED BY <2>2, <2>4, <2>5 DEF DbTypes
<1>3. WorkTypes
  <2>1. queue = <<>> /\ job = NoJob /\ inFolder = NoFolder /\ driver = StartedDriver
    BY DEF Init
  <2>2. StartedDriver \in Driver /\ Steady(StartedDriver)
    BY DEF StartedDriver, Driver, Steady
  <2>. QED BY <2>1, <2>2, NewJobs DEF WorkTypes
<1>4. OtherTypes
  BY DEF Init, OtherTypes
<1>. QED BY <1>1, <1>2, <1>3, <1>4 DEF Types

LEMMA PersistType ==
  ASSUME rows' \in [Message -> MailRecord], fld' \in [Folder -> FolderStatus],
         disk \in Database, Persist
  PROVE  disk' \in Database
<1>1. Snapshot' \in Database
  BY DEF Snapshot, Database, FolderStatus
<1>. QED BY <1>1 DEF Persist

(* The mail folders and the tracker. A message keeps its home, and its
   version never falls.                                                    *)
MailGoesOn ==
  /\ MailTypes' /\ case' = case
  /\ \A m \in Message : msg[m].version <= msg'[m].version

LEMMA MailNext == ASSUME Types, WorkerFits, Next PROVE MailGoesOn
<1>. USE DEF Types, MailGoesOn
<1>0. \A m \in Message : msg[m].version <= msg[m].version
  BY GlodaAssumption DEF MailTypes, MailRecord, Version, GlodaAssumption
<1>1. CASE DriverTurn
  <2>1. msg' = msg /\ case' = case
    BY <1>1 DEF DriverTurn, Hire, NothingToHire, IndexingSweep, FolderIndexBegins,
         FolderIndexVisits, FolderIndexEnds, MessageIndexVisits, MessageIndexEnds,
         IndexMessage, CompactionPassBegins, mailVars, otherVars
  <2>2. CASE FolderIndexBegins
    <3>1. hdr' \in [Message -> Header]
      BY <2>2 DEF FolderIndexBegins, MailTypes, Header, Dirty
    <3>. QED BY <1>0, <2>1, <2>2, <3>1 DEF FolderIndexBegins, MailTypes, trackVars
  <2>3. CASE IndexMessage
    <3>1. job.at \in Message
      BY <2>3 DEF IndexMessage, WorkTypes, Job
    <3>. QED BY <1>0, <2>1, <2>3, <3>1, TrackType DEF IndexMessage, MailTypes, mailVars
  <2>4. CASE ~FolderIndexBegins /\ ~IndexMessage
    <3>1. UNCHANGED <<hdr, pending, postCommit>>
      BY <1>1, <2>4 DEF DriverTurn, Hire, NothingToHire, IndexingSweep,
           FolderIndexVisits, FolderIndexEnds, MessageIndexVisits, MessageIndexEnds,
           CompactionPassBegins, mailVars, trackVars
    <3>. QED BY <1>0, <2>1, <3>1 DEF MailTypes
  <2>. QED BY <2>2, <2>3, <2>4
<1>2. CASE Callback
  <2>1. msg' = msg /\ case' = case
    BY <1>2 DEF Callback, MessageRead, CompactionPassMatches, CompactionPassEnds,
         CommitDone, mailVars, otherVars
  <2>2. CASE MessageRead \/ CompactionPassEnds
    BY <1>0, <2>1, <2>2 DEF MessageRead, CompactionPassEnds, mailVars, trackVars, MailTypes
  <2>3. CASE CompactionPassMatches
    <3>1. PICK ms \in SUBSET Message : Track(ms)
      BY <2>3 DEF CompactionPassMatches, Delivered
    <3>. QED BY <1>0, <2>1, <2>3, <3>1, TrackType DEF CompactionPassMatches, MailTypes, mailVars
  <2>4. CASE CommitDone
    BY <1>0, <2>1, <2>4, RunPostCommitType DEF CommitDone, MailTypes
  <2>. QED BY <1>2, <2>2, <2>3, <2>4 DEF Callback
<1>3. CASE Commit \/ GoOffline \/ GoOnline \/ ScheduleInitialSweep
  BY <1>0, <1>3 DEF Commit, GoOffline, GoOnline, ScheduleInitialSweep, mailVars,
       trackVars, otherVars, MailTypes
<1>4. CASE IdleCommit
  <2>1. CASE Has("idleRace")
    BY <1>0, <1>4, <2>1 DEF IdleCommit, MailTypes
  <2>2. CASE ~Has("idleRace")
    BY <1>0, <1>4, <2>2, RunPostCommitType DEF IdleCommit, MailTypes
  <2>. QED BY <2>1, <2>2
<1>5. CASE IdleCommitDone
  <2>1. CASE postCommit = "sent"
    BY <1>0, <1>5, <2>1, FlushType DEF IdleCommitDone, MailTypes
  <2>2. CASE postCommit # "sent"
    BY <1>0, <1>5, <2>2 DEF IdleCommitDone, MailTypes, trackVars
  <2>. QED BY <2>1, <2>2
<1>6. ASSUME NEW m \in Message, Change(m)
      PROVE  MailGoesOn
  <2>1. msg' \in [Message -> MailRecord] /\ \A n \in Message : msg[n].version <= msg'[n].version
    <3>1. /\ msg[m].version \in Nat /\ MaxVersion \in Nat /\ msg[m].version < MaxVersion
          /\ msg' = [msg EXCEPT ![m].version = @ + 1]
      BY <1>6, GlodaAssumption DEF Change, GlodaAssumption, MailTypes, MailRecord, Version
    <3>2. msg[m].version + 1 \in Version
      BY <3>1 DEF Version
    <3>3. msg' \in [Message -> MailRecord]
      BY <3>1, <3>2 DEF MailTypes, MailRecord
    <3>4. \A n \in Message : msg'[n].version = IF n = m THEN msg[m].version + 1 ELSE msg[n].version
      BY <3>1 DEF MailTypes, MailRecord
    <3>. QED BY <1>0, <3>1, <3>3, <3>4
  <2>2. /\ hdr' \in [Message -> Header] /\ pending' \in [Message -> Tracked]
        /\ postCommit' = postCommit
    <3>1. CASE fld[Home(m)].dirty = "filthy"
      BY <1>6, <3>1 DEF Change, ReindexChangedMessage, MailTypes, trackVars
    <3>2. CASE fld[Home(m)].dirty # "filthy"
      <4>1. /\ hdr' \in {hdr, [hdr EXCEPT ![m].dirty = "dirty"]}
            /\ pending' \in {pending, [pending EXCEPT ![m].dirty = "dirty"]}
            /\ postCommit' = postCommit
        BY <1>6, <3>2 DEF Change, ReindexChangedMessage
      <4>2. [hdr EXCEPT ![m].dirty = "dirty"] \in [Message -> Header]
        BY DEF MailTypes, Header, Dirty
      <4>3. [pending EXCEPT ![m].dirty = "dirty"] \in [Message -> Tracked]
        BY DEF MailTypes, Tracked
      <4>. QED BY <4>1, <4>2, <4>3 DEF MailTypes
    <3>. QED BY <3>1, <3>2
  <2>. QED BY <1>6, <2>1, <2>2 DEF Change, MailTypes, otherVars
<1>7. ASSUME NEW f \in Folder, FolderCompactStart(f)
      PROVE  MailGoesOn
  <2>1. pending' \in [Message -> Tracked]
    BY <1>7 DEF FolderCompactStart, MailTypes, Tracked
  <2>. QED BY <1>0, <1>7, <2>1 DEF FolderCompactStart, MailTypes, mailVars
<1>8. ASSUME NEW f \in Folder, FolderCompactFinish(f)
      PROVE  MailGoesOn
  <2>1. PICK moved \in SUBSET Delivered(f) :
          /\ msg' = [m \in Message |->
               IF m \in moved THEN [msg[m] EXCEPT !.key = 1 - @] ELSE msg[m]]
          /\ pending' = [m \in Message |->
               IF Home(m) # f THEN pending[m]
               ELSE [pending[m] EXCEPT !.byId = FALSE, !.byKey = @ /\ m \notin moved]]
    BY <1>8 DEF FolderCompactFinish
  <2>2. pending' \in [Message -> Tracked]
    BY <2>1 DEF MailTypes, Tracked
  <2>3. \A m \in Message : 1 - msg[m].key \in 0..1
    BY DEF MailTypes, MailRecord
  <2>4. msg' \in [Message -> MailRecord]
    BY <2>1, <2>3 DEF MailTypes, MailRecord
  <2>5. \A m \in Message : msg'[m].version = msg[m].version
    BY <2>1 DEF MailTypes, MailRecord
  <2>. QED BY <1>0, <1>8, <2>2, <2>4, <2>5 DEF FolderCompactFinish, MailTypes, otherVars
<1>9. CASE Quit \/ Crash
  <2>1. /\ case' = case /\ msg' = msg /\ hdr' = hdr /\ postCommit' = "none"
        /\ pending' = [m \in Message |-> NotTracked]
    BY <1>9 DEF Quit, Crash, NewSession, mailVars
  <2>. QED BY <1>0, <2>1 DEF MailTypes, NotTracked, Tracked
<1>. HIDE DEF Types, MailGoesOn
<1>10. CASE \E m \in Message : Change(m)
  BY ONLY <1>6, <1>10
<1>11. CASE \E f \in Folder : FolderCompactStart(f) \/ FolderCompactFinish(f)
  BY ONLY <1>7, <1>8, <1>11
<1>. QED
  BY ONLY Next, <1>1, <1>2, <1>3, <1>4, <1>5, <1>9, <1>10, <1>11, Zenon DEF Next

(* The database.                                                           *)
LEMMA DatabaseNext == ASSUME Types, WorkerFits, Next PROVE DbTypes'
<1>. USE DEF Types
<1>1. Snapshot \in Database
  BY SnapshotType
<1>2. CASE DriverTurn
  <2>1. CASE FolderIndexBegins \/ FolderIndexEnds
    <3>1. fld' \in [Folder -> FolderStatus]
      BY <2>1 DEF FolderIndexBegins, FolderIndexEnds, DbTypes, FolderStatus, Dirty
    <3>. QED BY <2>1, <3>1 DEF FolderIndexBegins, FolderIndexEnds, DbTypes
  <2>2. CASE IndexMessage
    <3>1. job.read \in Version /\ job.at \in Message
      BY <2>2 DEF IndexMessage, WorkTypes, Job
    <3>2. msg[job.at].key \in 0..1
      BY <3>1 DEF MailTypes, MailRecord
    <3>3. [version |-> job.read, key |-> msg[job.at].key] \in MailRecord
      BY <3>1, <3>2 DEF MailRecord
    <3>4. rows' \in [Message -> MailRecord]
      BY <2>2, <3>3 DEF IndexMessage, DbTypes
    <3>. QED BY <2>2, <3>4 DEF IndexMessage, DbTypes
  <2>3. CASE NothingToHire
    BY <1>1, <2>3 DEF NothingToHire, DbTypes
  <2>4. CASE ~(FolderIndexBegins \/ FolderIndexEnds \/ IndexMessage \/ NothingToHire)
    <3>1. UNCHANGED <<rows, fld, disk>>
      BY <1>2, <2>4 DEF DriverTurn, Hire, IndexingSweep, FolderIndexVisits,
           MessageIndexVisits, MessageIndexEnds, CompactionPassBegins, dbVars
    <3>. QED BY <3>1 DEF DbTypes
  <2>. QED BY <2>1, <2>2, <2>3, <2>4
<1>3. CASE Callback
  <2>1. CASE CompactionPassMatches
    <3>1. PICK known \in SUBSET Message :
            rows' = [m \in Message |->
              IF m \in known THEN [rows[m] EXCEPT !.key = msg[m].key] ELSE rows[m]]
      BY <2>1 DEF CompactionPassMatches, Delivered
    <3>2. rows' \in [Message -> MailRecord]
      BY <3>1 DEF DbTypes, MailTypes, MailRecord
    <3>. QED BY <2>1, <3>2 DEF CompactionPassMatches, DbTypes
  <2>2. CASE CompactionPassEnds
    <3>1. fld' \in [Folder -> FolderStatus]
      BY <2>2 DEF CompactionPassEnds, DbTypes, FolderStatus
    <3>. QED BY <2>2, <3>1 DEF CompactionPassEnds, DbTypes
  <2>3. CASE MessageRead \/ CommitDone
    BY <2>3 DEF MessageRead, CommitDone, DbTypes, dbVars
  <2>. QED BY <1>3, <2>1, <2>2, <2>3 DEF Callback
<1>4. CASE Commit \/ IdleCommit
  BY <1>1, <1>4 DEF Commit, IdleCommit, DbTypes
<1>5. CASE IdleCommitDone \/ GoOffline \/ GoOnline \/ ScheduleInitialSweep
  BY <1>5 DEF IdleCommitDone, GoOffline, GoOnline, ScheduleInitialSweep, DbTypes, dbVars
<1>6. CASE \E m \in Message : Change(m)
  <2>1. PICK m \in Message : Change(m)
    BY <1>6
  <2>2. /\ rows' = rows
        /\ fld' = fld \/ fld' = [fld EXCEPT ![Home(m)].dirty =
                                    IF @ = "clean" THEN "dirty" ELSE @]
    BY <2>1 DEF Change, ReindexChangedMessage
  <2>3. fld' \in [Folder -> FolderStatus]
    BY <2>2 DEF DbTypes, FolderStatus, Dirty
  <2>4. Persist
    BY <2>1 DEF Change
  <2>. QED BY <2>2, <2>3, <2>4, PersistType DEF DbTypes
<1>7. CASE \E f \in Folder : FolderCompactStart(f)
  <2>1. rows' = rows /\ disk' = disk
    BY <1>7 DEF FolderCompactStart
  <2>2. PICK f \in Folder : fld' = [fld EXCEPT ![f].compacting = TRUE]
    BY <1>7 DEF FolderCompactStart
  <2>3. fld' \in [Folder -> FolderStatus]
    BY <2>2 DEF DbTypes, FolderStatus
  <2>. QED BY <2>1, <2>3 DEF DbTypes
<1>8. CASE \E f \in Folder : FolderCompactFinish(f)
  <2>1. PICK f \in Folder : FolderCompactFinish(f)
    BY <1>8
  <2>2. /\ fld' = [fld EXCEPT ![f].compacting = FALSE, ![f].compacted = TRUE]
        /\ rows' = rows /\ Persist
    BY <2>1 DEF FolderCompactFinish
  <2>3. fld' \in [Folder -> FolderStatus]
    BY <2>2 DEF DbTypes, FolderStatus
  <2>. QED BY <2>2, <2>3, PersistType DEF DbTypes
<1>9. CASE Quit
  <2>1. fld' \in [Folder -> FolderStatus] /\ rows' = rows /\ disk' = Snapshot
    BY <1>9 DEF Quit, DbTypes, FolderStatus
  <2>. QED BY <1>1, <2>1 DEF DbTypes
<1>10. CASE Crash
  <2>1. fld' \in [Folder -> FolderStatus]
    BY <1>10 DEF Crash, DbTypes, FolderStatus, Database
  <2>. QED BY <1>10, <2>1 DEF Crash, DbTypes, Database
<1>. HIDE DEF Types
<1>. QED
  BY ONLY Next, <1>2, <1>3, <1>4, <1>5, <1>6, <1>7, <1>8, <1>9, <1>10 DEF Next

LEMMA OtherNext == ASSUME Types, Next PROVE OtherTypes'
<1>. USE DEF Types, OtherTypes
<1>1. spent.compactions + 1 \in Nat /\ spent.restarts + 1 \in Nat
  OBVIOUS
<1>2. CASE DriverTurn \/ Callback \/ Commit \/ (\E m \in Message : Change(m))
           \/ GoOffline \/ GoOnline
  <2>1. UNCHANGED otherVars
    BY <1>2 DEF DriverTurn, Hire, NothingToHire, IndexingSweep, FolderIndexBegins,
         FolderIndexVisits, FolderIndexEnds, MessageIndexVisits, MessageIndexEnds,
         IndexMessage, CompactionPassBegins, Callback, MessageRead,
         CompactionPassMatches, CompactionPassEnds, CommitDone, Commit, Change,
         GoOffline, GoOnline
  <2>. QED BY <2>1 DEF otherVars
<1>3. CASE IdleCommit \/ IdleCommitDone \/ ScheduleInitialSweep
  BY <1>3 DEF IdleCommit, IdleCommitDone, ScheduleInitialSweep
<1>4. CASE \E f \in Folder : FolderCompactStart(f) \/ FolderCompactFinish(f)
  BY <1>1, <1>4 DEF FolderCompactStart, FolderCompactFinish, otherVars
<1>5. CASE Quit \/ Crash
  BY <1>1, <1>5 DEF Quit, Crash, NewSession
<1>. QED BY <1>2, <1>3, <1>4, <1>5 DEF Next

-----------------------------------------------------------------------------
(* The jobs, and where the events go.                                      *)

LEMMA JobAppended ==
  ASSUME NEW q \in Seq(Waiting), NEW j \in Waiting, EventsOf(j) = {}
  PROVE  /\ q \o <<j>> \in Seq(Waiting) /\ q \o <<>> = q
         /\ EventsIn(Elements(q \o <<j>>)) = EventsIn(Elements(q))
<1>1. <<j>> \in Seq(Waiting) /\ q \o <<>> = q
  BY EmptySeq
<1>2. PICK t \in Seq(Waiting) : t = <<j>>
  BY <1>1
<1>3. /\ q \o t \in Seq(Waiting)
      /\ Elements(q \o t) = Elements(q) \cup Elements(t)
  BY ConcatElements
<1>4. Elements(<<j>>) = {j}
  BY OneElement
<1>5. EventsIn(Elements(q) \cup {j}) = EventsIn(Elements(q))
  BY DEF EventsIn
<1>. QED BY <1>1, <1>2, <1>3, <1>4, <1>5

LEMMA EventsUnmoved ==
  ASSUME queue' = queue, job'.items = job.items
  PROVE  Events' = Events
BY DEF Events, EventsOf, EventsIn, Elements

LEMMA KilledHasNoEvents ==
  ASSUME job' = NoJob, EventsIn(Elements(queue')) = EventsIn(Elements(queue))
  PROVE  Events' \subseteq Events
<1>1. EventsOf(NoJob) = {}
  BY NewJobs
<1>2. EventsOf(job') = {}
  BY <1>1
<1>. QED BY <1>2 DEF Events

LEMMA HireMoves ==
  ASSUME Types, Hire
  PROVE  /\ queue' \in Seq(Waiting) /\ job' \in Waiting /\ Events' = Events
<1>1. /\ Head(queue) \in Waiting /\ Tail(queue) \in Seq(Waiting)
      /\ Elements(queue) = {Head(queue)} \cup Elements(Tail(queue))
  BY TailElements DEF Hire, Types, WorkTypes
<1>2. job = NoJob /\ job' = Head(queue) /\ queue' = Tail(queue)
  BY DEF Hire
<1>3. EventsOf(job) = {}
  BY <1>2, NewJobs
<1>4. EventsIn(Elements(queue)) = EventsOf(Head(queue)) \cup EventsIn(Elements(Tail(queue)))
  BY <1>1 DEF EventsIn
<1>. QED BY <1>1, <1>2, <1>3, <1>4 DEF Events

LEMMA SweepQueues ==
  ASSUME Types, IndexingSweep
  PROVE  queue' \in Seq(Waiting) /\ Events' = Events
<1>1. /\ Head(queue) \in Waiting /\ Tail(queue) \in Seq(Waiting)
      /\ Elements(queue) = {Head(queue)} \cup Elements(Tail(queue))
  BY TailElements DEF IndexingSweep, Types, WorkTypes
<1>2. EventsOf(Head(queue)) = {}
  BY <1>1, NoElements DEF IndexingSweep, Waiting, NotBegun, EventsOf
<1>3. EventsIn(Elements(queue)) = EventsIn(Elements(Tail(queue)))
  BY <1>1, <1>2 DEF EventsIn
<1>4. Head(queue).left \subseteq Folder
  BY <1>1 DEF Waiting, NotBegun
<1>5. queue' \in Seq(Waiting) /\ EventsIn(Elements(queue')) = EventsIn(Elements(Tail(queue)))
  <2>1. CASE queue' = Tail(queue)
    BY <1>1, <2>1
  <2>2. CASE queue' # Tail(queue)
    <3>1. PICK f \in Head(queue).left, rest \in SUBSET Folder :
            queue' = Tail(queue)
               \o (IF fld[f].compacted THEN <<CompactJob(f)>> ELSE <<>>)
               \o (IF fld[f].dirty # "clean" THEN <<FolderJob(f)>> ELSE <<>>)
               \o <<SweepJob(rest)>>
      BY <1>4, <2>2 DEF IndexingSweep
    <3>2. /\ CompactJob(f) \in Waiting /\ EventsOf(CompactJob(f)) = {}
          /\ FolderJob(f) \in Waiting /\ EventsOf(FolderJob(f)) = {}
          /\ SweepJob(rest) \in Waiting /\ EventsOf(SweepJob(rest)) = {}
      BY <1>4, <3>1, NewJobs
    <3>3. PICK a : a = Tail(queue) \o (IF fld[f].compacted THEN <<CompactJob(f)>> ELSE <<>>)
      OBVIOUS
    <3>4. PICK b : b = a \o (IF fld[f].dirty # "clean" THEN <<FolderJob(f)>> ELSE <<>>)
      OBVIOUS
    <3>5. a \in Seq(Waiting) /\ EventsIn(Elements(a)) = EventsIn(Elements(Tail(queue)))
      BY <1>1, <3>2, <3>3, JobAppended
    <3>6. b \in Seq(Waiting) /\ EventsIn(Elements(b)) = EventsIn(Elements(a))
      BY <3>2, <3>4, <3>5, JobAppended
    <3>7. queue' = b \o <<SweepJob(rest)>>
      BY <3>1, <3>3, <3>4
    <3>. QED BY <3>2, <3>5, <3>6, <3>7, JobAppended
  <2>. QED BY <2>1, <2>2
<1>. QED BY <1>3, <1>5 DEF IndexingSweep, Events

LEMMA CompactFinishQueues ==
  ASSUME Types, NEW f \in Folder, FolderCompactFinish(f)
  PROVE  queue' \in Seq(Waiting) /\ Events' \subseteq Events
<1>1. /\ CompactJob(f) \in Waiting /\ EventsOf(CompactJob(f)) = {}
      /\ FolderJob(f) \in Waiting /\ EventsOf(FolderJob(f)) = {}
  BY NewJobs
<1>2. PICK a : a = queue \o (IF fld[f].dirty # "filthy" THEN <<CompactJob(f)>> ELSE <<>>)
  OBVIOUS
<1>3. a \in Seq(Waiting) /\ EventsIn(Elements(a)) = EventsIn(Elements(queue))
  BY <1>1, <1>2, JobAppended DEF Types, WorkTypes
<1>4. queue' = a \o (IF fld[f].dirty = "dirty" THEN <<FolderJob(f)>> ELSE <<>>)
  BY <1>2 DEF FolderCompactFinish
<1>5. queue' \in Seq(Waiting) /\ EventsIn(Elements(queue')) = EventsIn(Elements(a))
  BY <1>1, <1>3, <1>4, JobAppended
<1>6. job' = job \/ job' = NoJob
  BY DEF FolderCompactFinish, KillIfIn, JobEnds
<1>7. EventsOf(job') \subseteq EventsOf(job)
  BY <1>6, NewJobs DEF EventsOf
<1>. QED BY <1>3, <1>5, <1>7 DEF Events

Noted(m) == [m |-> m, key |-> msg[m].key]

LEMMA ChangeQueues ==
  ASSUME Types, NEW m \in Message, Change(m)
  PROVE  /\ queue' \in Seq(Waiting) /\ Noted(m) \in Event
         /\ Events \subseteq Events' /\ Events' \subseteq Events \cup {Noted(m)}
         /\ fld[Home(m)].dirty # "filthy" /\ ~EventOverflows => Noted(m) \in Events'
<1>1. Noted(m) \in Event
  BY DEF Noted, Event, Types, MailTypes, MailRecord
<1>2. PICK event \in Event : event = Noted(m)
  BY <1>1
<1>3. job' = job
  BY DEF Change
<1>4. CASE fld[Home(m)].dirty = "filthy"
  <2>1. queue' = queue
    BY <1>4 DEF Change, ReindexChangedMessage
  <2>. QED BY <1>1, <1>3, <1>4, <2>1 DEF Types, WorkTypes, Events
<1>5. CASE fld[Home(m)].dirty # "filthy"
  <2>1. queue' = QueuedEvent(event)
    BY <1>2, <1>5 DEF Change, ReindexChangedMessage, Noted
  <2>2. /\ QueuedEvent(event) \in Seq(Waiting)
        /\ EventsIn(Elements(queue)) \subseteq EventsIn(Elements(QueuedEvent(event)))
        /\ EventsIn(Elements(QueuedEvent(event)))
             \subseteq EventsIn(Elements(queue)) \cup {event}
        /\ ~EventOverflows => event \in EventsIn(Elements(QueuedEvent(event)))
    BY QueuedEventQueues DEF Types, WorkTypes
  <2>3. Events' = EventsOf(job) \cup EventsIn(Elements(QueuedEvent(event)))
    BY <1>3, <2>1 DEF Events
  <2>. QED BY <1>1, <1>2, <2>1, <2>2, <2>3 DEF Events
<1>. QED BY <1>4, <1>5

LEMMA VisitTakesEvent ==
  ASSUME Types, MessageIndexVisits
  PROVE  /\ Head(job.items) \in Event /\ Head(job.items) \in Events
         /\ Events' \subseteq Events /\ Events \subseteq Events' \cup {Head(job.items)}
         /\ job' \in Job /\ job'.type = "message" /\ job'.items = Tail(job.items)
         /\ job'.stage = job.stage /\ job'.read = job.read
         /\ job'.at = NoMessage \/ (job'.at = Head(job.items).m /\ WaitFor("index"))
<1>1. job \in Job /\ job.items \in Seq(Event) /\ job.items # <<>>
  BY DEF MessageIndexVisits, Types, WorkTypes, Job
<1>2. /\ Head(job.items) \in Event /\ Tail(job.items) \in Seq(Event)
      /\ Elements(job.items) = {Head(job.items)} \cup Elements(Tail(job.items))
  BY <1>1, TailElements
<1>3. PICK items \in Seq(Event) : items = Tail(job.items)
  BY <1>2
<1>4. PICK m \in Message : m = Head(job.items).m
  BY <1>2 DEF Event
<1>5. \/ job' = [job EXCEPT !.items = items]
      \/ job' = [job EXCEPT !.items = items, !.at = m] /\ WaitFor("index")
  BY <1>3, <1>4 DEF MessageIndexVisits
<1>6. /\ job' \in Job /\ job'.items = items /\ job'.type = job.type
      /\ job'.stage = job.stage /\ job'.read = job.read
  BY <1>1, <1>3, <1>4, <1>5 DEF Job
<1>7. job'.at = NoMessage \/ (job'.at = m /\ WaitFor("index"))
  BY <1>1, <1>5 DEF Job, MessageIndexVisits
<1>8. EventsOf(job) = {Head(job.items)} \cup EventsOf(job')
  BY <1>2, <1>3, <1>6 DEF EventsOf
<1>9. queue' = queue
  BY DEF MessageIndexVisits
<1>. QED
  BY <1>2, <1>3, <1>4, <1>6, <1>7, <1>8, <1>9 DEF Events, MessageIndexVisits

(* Only a change adds an event, and a new session has none.                *)
LEMMA EventsNext ==
  ASSUME Types, Next
  PROVE  /\ queue' \in Seq(Waiting)
         /\ \/ Events' \subseteq Events
            \/ \E m \in Message : Change(m) /\ Events' \subseteq Events \cup {Noted(m)}
<1>1. queue \in Seq(Waiting) /\ job \in Job
  BY DEF Types, WorkTypes
<1>2. CASE Hire \/ IndexingSweep
  BY <1>2, HireMoves, SweepQueues
<1>3. CASE NothingToHire \/ CompactionPassEnds \/ CommitDone \/ Commit \/ IdleCommit
           \/ IdleCommitDone \/ GoOffline \/ GoOnline \/ FolderIndexEnds
           \/ MessageIndexEnds \/ \E f \in Folder : FolderCompactStart(f)
  <2>1. queue' = queue /\ job' \in {job, NoJob}
    BY <1>3 DEF NothingToHire, CompactionPassEnds, CommitDone, Commit, IdleCommit,
         IdleCommitDone, GoOffline, GoOnline, FolderIndexEnds, MessageIndexEnds,
         FolderCompactStart, KillIfIn, JobEnds, jobVars
  <2>. QED BY <1>1, <2>1, EventsUnmoved, KilledHasNoEvents
<1>4. CASE FolderIndexBegins \/ FolderIndexVisits \/ IndexMessage
           \/ CompactionPassBegins \/ MessageRead \/ CompactionPassMatches
  <2>1. queue' = queue /\ (job' = NoJob \/ job'.items = job.items)
    BY <1>1, <1>4 DEF FolderIndexBegins, FolderIndexVisits, IndexMessage,
         CompactionPassBegins, MessageRead, CompactionPassMatches, JobEnds, Job
  <2>. QED BY <1>1, <2>1, EventsUnmoved, KilledHasNoEvents
<1>5. CASE MessageIndexVisits
  BY <1>1, <1>5, VisitTakesEvent DEF MessageIndexVisits
<1>6. CASE \E m \in Message : Change(m)
  BY <1>6, ChangeQueues
<1>7. CASE \E f \in Folder : FolderCompactFinish(f)
  BY <1>7, CompactFinishQueues
<1>8. CASE ScheduleInitialSweep
  <2>1. queue' = SweepNeeded(queue) /\ job' = job
    BY <1>8 DEF ScheduleInitialSweep
  <2>. QED BY <1>1, <2>1, SweepNeededQueues DEF Events
<1>9. CASE Quit \/ Crash
  <2>1. queue' = <<>> /\ job' = NoJob
    BY <1>9 DEF Quit, Crash, NewSession, JobEnds
  <2>2. EventsOf(NoJob) = {}
    BY NewJobs
  <2>3. EventsOf(job') = {} /\ Elements(queue') = {}
    BY <2>1, <2>2, NoElements
  <2>4. EventsIn(Elements(queue')) = {}
    BY <2>3 DEF EventsIn
  <2>. QED BY <2>1, <2>3, <2>4 DEF Events
<1>. QED
  BY <1>2, <1>3, <1>4, <1>5, <1>6, <1>7, <1>8, <1>9 DEF Next, DriverTurn, Callback

LEMMA ThereStays ==
  ASSUME Types, MailGoesOn
  PROVE  \A m \in Message :
           /\ msg[m].version \in Nat /\ msg'[m].version \in Nat
           /\ Home(m)' = Home(m) /\ (There(m) => There(m)')
<1>1. \A m \in Message : msg[m].version \in Nat
  BY GlodaAssumption DEF Types, MailTypes, MailRecord, Version, GlodaAssumption
<1>2. \A m \in Message : msg'[m].version \in Nat
  BY GlodaAssumption DEF MailGoesOn, MailTypes, MailRecord, Version, GlodaAssumption
<1>. QED BY <1>1, <1>2 DEF There, MailGoesOn, Home

LEMMA EventsStayThere ==
  ASSUME Types, EventsAreThere, MailGoesOn, Next
  PROVE  EventsAreThere'
<1>1. \A e \in Events : e.m \in Message
  <2>1. ASSUME NEW j \in Job PROVE \A e \in EventsOf(j) : e \in Event
    BY DEF Job, EventsOf, Elements
  <2>2. \A j \in Elements(queue) : j \in Job
    BY ElementOfSeq DEF Elements, Waiting, Types, WorkTypes
  <2>3. job \in Job
    BY DEF Types, WorkTypes
  <2>. QED BY <2>1, <2>2, <2>3 DEF Events, EventsIn, Event
<1>2. \A m \in Message : There(m) => There(m)'
  BY ThereStays
<1>3. ASSUME NEW m \in Message, Change(m) PROVE There(m)'
  <2>1. msg[m].version \in Nat
    BY GlodaAssumption DEF Types, MailTypes, MailRecord, Version, GlodaAssumption
  <2>2. msg'[m].version = msg[m].version + 1
    BY <1>3 DEF Change, Types, MailTypes, MailRecord
  <2>. QED BY <2>1, <2>2 DEF There
<1>4. CASE Events' \subseteq Events
  BY <1>1, <1>2, <1>4 DEF EventsAreThere, There
<1>5. CASE \E m \in Message : Change(m) /\ Events' \subseteq Events \cup {Noted(m)}
  <2>1. PICK m \in Message : Change(m) /\ Events' \subseteq Events \cup {Noted(m)}
    BY <1>5
  <2>2. Noted(m).m = m
    BY DEF Noted
  <2>3. 0 < msg'[m].version
    BY <1>3, <2>1 DEF There
  <2>4. ASSUME NEW e \in Events' PROVE 0 < msg'[e.m].version
    <3>1. CASE e \in Events
      BY <1>1, <1>2, <3>1 DEF EventsAreThere, There
    <3>2. CASE e = Noted(m)
      BY <2>2, <2>3, <3>2
    <3>. QED BY <2>1, <3>1, <3>2
  <2>. QED BY <2>4 DEF EventsAreThere, There
<1>. QED BY <1>4, <1>5, EventsNext

(* The driver.                                                             *)
LEMMA SteadyNext == ASSUME Types, Next PROVE Steady(driver')
<1>. USE DEF Types, WorkTypes
<1>1. CASE Hire \/ IndexingSweep \/ FolderIndexBegins \/ FolderIndexVisits
           \/ FolderIndexEnds \/ MessageIndexVisits \/ MessageIndexEnds \/ IndexMessage
           \/ CompactionPassBegins \/ CompactionPassMatches \/ CompactionPassEnds
           \/ Commit
  <2>1. Pause \/ \E what \in {"index", "fetch", "commit", "lastCommit"} : WaitFor(what)
    BY <1>1 DEF Hire, IndexingSweep, FolderIndexBegins, FolderIndexVisits,
         FolderIndexEnds, MessageIndexVisits, MessageIndexEnds, IndexMessage,
         CompactionPassBegins, CompactionPassMatches, CompactionPassEnds, Commit
  <2>. QED BY <2>1, PauseIsSteady, WaitIsSteady
<1>2. CASE NothingToHire
  BY <1>2 DEF NothingToHire, InBatch, Runs, Driver, Steady
<1>3. CASE MessageRead
  BY <1>3 DEF MessageRead, CalledBack, Driver, Steady
<1>4. CASE CommitDone
  BY <1>4 DEF CommitDone, CalledBack, Paused, IndexingWanted, Driver, Steady
<1>5. CASE IdleCommit
  BY <1>5 DEF IdleCommit, Driver, Steady
<1>6. CASE IdleCommitDone
  BY <1>6 DEF IdleCommitDone
<1>7. CASE (\E m \in Message : Change(m)) \/ (\E f \in Folder : FolderCompactStart(f))
           \/ (\E f \in Folder : FolderCompactFinish(f)) \/ ScheduleInitialSweep
  <2>1. driver' \in {driver, Kicked(driver)}
    BY <1>7 DEF Change, ReindexChangedMessage, FolderCompactStart,
         FolderCompactFinish, ScheduleInitialSweep
  <2>. QED BY <2>1, KickIsSteady
<1>8. CASE GoOffline \/ GoOnline
  BY <1>8 DEF GoOffline, GoOnline, Driver, Steady
<1>9. CASE Quit \/ Crash
  BY <1>9 DEF Quit, Crash, NewSession, StartedDriver, Steady
<1>. QED
  BY <1>1, <1>2, <1>3, <1>4, <1>5, <1>6, <1>7, <1>8, <1>9 DEF Next, DriverTurn, Callback

-----------------------------------------------------------------------------
(* The worker.                                                             *)

WorkerGoesOn ==
  job' \in Job /\ inFolder' \in Folder \cup {NoFolder} /\ WorkerFits'

LEMMA StillDelivered ==
  ASSUME Types, MailGoesOn, job'.folder = job.folder,
         job'.left \subseteq Delivered(job.folder)
  PROVE  (job.left \subseteq Delivered(job.folder))'
<1>1. Delivered(job.folder)' = {m \in Message : Home(m)' = job.folder /\ 0 < msg'[m].version}
  BY DEF Delivered
<1>. QED BY <1>1, ThereStays DEF Delivered, There

LEMMA WorkerUnmoved ==
  ASSUME Types, WorkerFits, MailGoesOn, job' = job, inFolder' = inFolder,
         job.at # NoMessage /\ job.read = 0 => driver'.wait = "index",
         driver'.wait = "fetch" => driver.wait = "fetch" \/ job = NoJob
  PROVE  WorkerGoesOn
<1>1. job \in Job /\ (job.at # NoMessage => job.at \in Message)
  BY DEF Types, WorkTypes, Job
<1>2. /\ \A m \in Message : Home(m)' = Home(m)
      /\ \A m \in Message : There(m) => There(m)'
      /\ \A m \in Message : msg[m].version \in Nat /\ msg'[m].version \in Nat
  BY ThereStays
<1>3. JobFits'
  BY StillDelivered DEF WorkerFits, JobFits
<1>4. HandFits'
  <2>1. job.read \in Nat
    BY <1>1, GlodaAssumption DEF Job, Version, GlodaAssumption
  <2>2. job.at # NoMessage =>
          /\ Home(job.at)' = Home(job.at) /\ There(job.at)'
          /\ job.read <= msg'[job.at].version
    BY <1>1, <1>2, <2>1 DEF WorkerFits, HandFits, MailGoesOn
  <2>. QED BY <2>2 DEF WorkerFits, HandFits, Home, There
<1>5. StageFits'
  BY DEF WorkerFits, StageFits
<1>. QED BY <1>1, <1>3, <1>4, <1>5 DEF WorkerGoesOn, WorkerFits, Types, WorkTypes

LEMMA WorkerGone ==
  ASSUME job' = NoJob, inFolder' \in Folder \cup {NoFolder}
  PROVE  WorkerGoesOn
<1>1. job' \in Job
  BY NewJobs
<1>2. /\ job'.type = "none" /\ job'.items = <<>> /\ job'.at = NoMessage
      /\ job'.read = 0 /\ job'.stage = "new"
  BY DEF NoJob
<1>. QED
  BY <1>1, <1>2 DEF WorkerGoesOn, WorkerFits, JobFits, HandFits, StageFits

(* Each step of a worker.                                                  *)
LEMMA WorkerSteps ==
  ASSUME Types, WorkerFits, EventsAreThere, MailGoesOn,
         \/ Hire \/ FolderIndexBegins \/ FolderIndexVisits \/ MessageIndexVisits
         \/ IndexMessage \/ CompactionPassBegins \/ MessageRead
         \/ CompactionPassMatches
  PROVE  WorkerGoesOn
<1>1. job \in Job /\ (job.at # NoMessage => job.at \in Message)
      /\ inFolder \in Folder \cup {NoFolder}
  BY DEF Types, WorkTypes, Job
<1>2. PICK old \in Job : old = job
  BY <1>1
<1>3. Runs => driver.wait = "none"
  BY DEF Runs, Types, WorkTypes, Steady, Driver
<1>4. CASE Hire
  <2>1. job' \in Waiting
    BY <1>4, HireMoves
  <2>2. Pause /\ inFolder' = IF job'.folder = NoFolder THEN inFolder ELSE job'.folder
    BY <1>4 DEF Hire
  <2>3. driver'.wait = "none"
    BY <2>2, PauseIsSteady DEF Types, WorkTypes
  <2>4. job'.type # "sweep"
    BY <1>4 DEF Hire
  <2>5. PICK j \in Waiting : j = job'
    BY <2>1
  <2>6. /\ j \in Job /\ j.at = NoMessage /\ j.read = 0 /\ j.stage = "new"
        /\ j.type \notin {"none", "sweep"} /\ (j.type # "message" => j.items = <<>>)
        /\ j.type \in {"folder", "compact"} => j.folder \in Folder
        /\ j.left = {} /\ j.folder \in Folder \cup {NoFolder}
    BY <2>4, <2>5 DEF Waiting, NotBegun, Job
  <2>7. j.folder \in Folder => inFolder' = j.folder
    BY <2>2, <2>5, GlodaAssumption DEF GlodaAssumption
  <2>. QED
    BY <1>1, <2>2, <2>3, <2>5, <2>6, <2>7 DEF WorkerGoesOn, WorkerFits, JobFits,
         HandFits, StageFits
<1>5. CASE FolderIndexBegins
  <2>1. /\ job.type = "folder" /\ job.stage = "new" /\ inFolder' = inFolder
        /\ job' = [job EXCEPT !.stage = "pass", !.left = Delivered(job.folder)]
        /\ Pause /\ Runs
    BY <1>5 DEF FolderIndexBegins
  <2>2. driver'.wait = "none"
    BY <2>1, PauseIsSteady DEF Types, WorkTypes
  <2>3. Delivered(job.folder) \subseteq Message
    BY DEF Delivered
  <2>4. PICK j \in Job :
          /\ j = job' /\ j.type = "folder" /\ j.stage = "pass" /\ j.left = Delivered(job.folder)
          /\ j.folder = job.folder /\ j.items = job.items /\ j.at = job.at /\ j.read = job.read
    <3>1. PICK d \in SUBSET Message : d = Delivered(job.folder)
      BY <2>3
    <3>2. PICK j : j = [old EXCEPT !.stage = "pass", !.left = d]
      OBVIOUS
    <3>3. j \in Job /\ j.stage = "pass" /\ j.left = d /\ j.type = old.type
      BY <3>2 DEF Job
    <3>4. /\ j.folder = old.folder /\ j.items = old.items /\ j.at = old.at
          /\ j.read = old.read
      BY <3>2 DEF Job
    <3>. QED BY <1>2, <2>1, <3>1, <3>2, <3>3, <3>4
  <2>5. job.at = NoMessage /\ ~(job.read > 0)
    BY <1>3, <2>1, <1>1, GlodaAssumption
      DEF WorkerFits, HandFits, Job, Version, GlodaAssumption, Runs
  <2>6. JobFits'
    BY <2>1, <2>4, StillDelivered DEF WorkerFits, JobFits
  <2>. QED
    BY <1>1, <2>1, <2>2, <2>4, <2>5, <2>6 DEF WorkerGoesOn, WorkerFits,
         HandFits, StageFits
<1>6. CASE FolderIndexVisits
  <2>1. /\ job.type = "folder" /\ job.stage = "pass" /\ job.at = NoMessage
        /\ inFolder' = inFolder /\ WaitFor("index")
    BY <1>6 DEF FolderIndexVisits
  <2>2. PICK m \in job.left, rest \in SUBSET job.left :
          job' = [job EXCEPT !.at = m, !.left = rest]
    <3>1. PICK m \in job.left, before \in SUBSET job.left :
            job' = [job EXCEPT !.at = m, !.left = @ \ ({m} \cup before)]
      BY <1>6 DEF FolderIndexVisits
    <3>. QED BY <3>1
  <2>3. driver'.wait = "index"
    BY <2>1, WaitIsSteady DEF Types, WorkTypes
  <2>4. /\ job.left \subseteq Delivered(job.folder) /\ m \in Message
        /\ Home(m) = job.folder /\ There(m)
    BY <2>1, <2>2 DEF WorkerFits, JobFits, Delivered, There
  <2>5. PICK j \in Job :
          /\ j = job' /\ j.type = "folder" /\ j.stage = "pass" /\ j.left = rest
          /\ j.folder = job.folder /\ j.items = job.items /\ j.at = m /\ j.read = job.read
    <3>1. PICK l \in SUBSET Message, n \in Message : l = rest /\ n = m
      BY <2>2, <2>4 DEF Delivered
    <3>2. PICK j : j = [old EXCEPT !.at = n, !.left = l]
      OBVIOUS
    <3>3. j \in Job /\ j.stage = old.stage /\ j.left = l /\ j.type = old.type
      BY <3>2 DEF Job
    <3>4. /\ j.folder = old.folder /\ j.items = old.items /\ j.at = n
          /\ j.read = old.read
      BY <3>2 DEF Job
    <3>. QED BY <1>2, <2>1, <2>2, <3>1, <3>2, <3>3, <3>4
  <2>6. job.read = 0
    BY <1>1, <2>1, GlodaAssumption DEF WorkerFits, HandFits, Job, Version, GlodaAssumption
  <2>7. /\ Home(m)' = Home(m) /\ There(m)'
        /\ msg'[m].version \in Nat
    BY <2>4, ThereStays
  <2>8. JobFits'
    BY <2>1, <2>2, <2>4, <2>5, StillDelivered DEF WorkerFits, JobFits
  <2>9. HandFits'
    BY <2>3, <2>4, <2>5, <2>6, <2>7 DEF HandFits, There, Home
  <2>. QED
    BY <1>1, <2>1, <2>3, <2>5, <2>8, <2>9 DEF WorkerGoesOn, WorkerFits, StageFits
<1>7. CASE MessageIndexVisits
  <2>1. job.at = NoMessage /\ job.type = "message"
    BY <1>7 DEF MessageIndexVisits
  <2>2. /\ Head(job.items) \in Event /\ Head(job.items) \in Events
        /\ job' \in Job /\ job'.type = "message"
        /\ job'.stage = job.stage /\ job'.read = job.read
        /\ job'.at = NoMessage \/ (job'.at = Head(job.items).m /\ WaitFor("index"))
    BY <1>7, VisitTakesEvent
  <2>3. PICK m \in Message : m = Head(job.items).m /\ There(m)
    BY <2>2 DEF Event, EventsAreThere
  <2>4. inFolder' \in Folder \cup {NoFolder}
    <3>1. inFolder' \in {inFolder, Home(m)}
      BY <1>7, <2>3 DEF MessageIndexVisits
    <3>2. Home(m) \in Folder
      BY CaseType DEF Types, OtherTypes
    <3>. QED BY <1>1, <3>1, <3>2
  <2>5. job.read = 0
    BY <1>1, <2>1, GlodaAssumption DEF WorkerFits, HandFits, Job, Version, GlodaAssumption
  <2>6. There(m)' /\ msg'[m].version \in Nat
    BY <2>3, ThereStays
  <2>7. job'.at = m => driver'.wait = "index"
    BY <2>2, <2>3, WaitIsSteady, GlodaAssumption DEF Types, WorkTypes, GlodaAssumption
  <2>8. driver'.wait # "fetch"
    <3>1. Pause \/ WaitFor("index")
      BY <1>7 DEF MessageIndexVisits
    <3>. QED BY <3>1, PauseIsSteady, WaitIsSteady DEF Types, WorkTypes
  <2>9. JobFits' /\ StageFits'
    BY <2>1, <2>2, <2>8 DEF WorkerFits, JobFits, StageFits
  <2>10. HandFits'
    <3>1. CASE job'.at = NoMessage
      BY <2>2, <2>5, <3>1 DEF HandFits
    <3>2. CASE job'.at = m
      BY <2>2, <2>5, <2>6, <2>7, <3>2 DEF HandFits, There
    <3>. QED BY <2>2, <2>3, <3>1, <3>2
  <2>. QED BY <2>2, <2>4, <2>9, <2>10 DEF WorkerGoesOn, WorkerFits
<1>8. CASE IndexMessage
  <2>1. /\ job' = [job EXCEPT !.at = NoMessage, !.read = 0] /\ Pause
        /\ inFolder' = inFolder
    BY <1>8 DEF IndexMessage
  <2>2. driver'.wait = "none"
    BY <2>1, PauseIsSteady DEF Types, WorkTypes
  <2>3. 0 \in Version
    BY GlodaAssumption DEF Version, GlodaAssumption
  <2>4. PICK j \in Job :
          /\ j = job' /\ j.type = job.type /\ j.stage = job.stage /\ j.left = job.left
          /\ j.folder = job.folder /\ j.items = job.items /\ j.at = NoMessage /\ j.read = 0
    <3>1. PICK j : j = [old EXCEPT !.at = NoMessage, !.read = 0]
      OBVIOUS
    <3>2. j \in Job /\ j.stage = old.stage /\ j.left = old.left /\ j.type = old.type
      BY <2>3, <3>1 DEF Job
    <3>3. /\ j.folder = old.folder /\ j.items = old.items /\ j.at = NoMessage
          /\ j.read = 0
      BY <3>1 DEF Job
    <3>. QED BY <1>2, <2>1, <3>1, <3>2, <3>3
  <2>5. job.type \in {"folder", "message"}
    BY <1>8 DEF IndexMessage, WorkerFits, HandFits
  <2>6. JobFits'
    BY <2>1, <2>4, <2>5, StillDelivered DEF WorkerFits, JobFits
  <2>. QED
    BY <1>1, <2>1, <2>2, <2>4, <2>5, <2>6 DEF WorkerGoesOn, WorkerFits, HandFits, StageFits
<1>9. CASE CompactionPassBegins
  <2>1. CASE fld[job.folder].compacted
    <3>1. /\ job.type = "compact" /\ inFolder' = inFolder /\ WaitFor("fetch")
          /\ job' = [job EXCEPT !.stage = "match"]
      BY <1>9, <2>1 DEF CompactionPassBegins
    <3>2. PICK j \in Job :
            /\ j = job' /\ j.type = "compact" /\ j.stage = "match"
            /\ j.folder = job.folder /\ j.items = job.items /\ j.at = job.at /\ j.read = job.read
      BY <1>1, <3>1 DEF Job
    <3>. QED
      BY <1>1, <3>1, <3>2 DEF WorkerGoesOn, WorkerFits, JobFits, HandFits, StageFits
  <2>2. CASE ~fld[job.folder].compacted
    BY <1>1, <1>9, <2>2, WorkerGone DEF CompactionPassBegins, JobEnds
  <2>. QED BY <2>1, <2>2
<1>10. CASE CompactionPassMatches
  <2>1. /\ job.stage = "match" /\ job' = [job EXCEPT !.stage = "flushed"]
        /\ inFolder' = inFolder
    BY <1>10 DEF CompactionPassMatches
  <2>2. job.type = "compact"
    BY <2>1 DEF WorkerFits, StageFits
  <2>3. PICK j \in Job :
          /\ j = job' /\ j.type = "compact" /\ j.stage = "flushed"
          /\ j.folder = job.folder /\ j.items = job.items /\ j.at = job.at /\ j.read = job.read
    BY <1>1, <2>1, <2>2 DEF Job
  <2>. QED
    BY <1>1, <2>1, <2>2, <2>3 DEF WorkerGoesOn, WorkerFits, JobFits, HandFits, StageFits
<1>11. CASE MessageRead
  <2>1. CalledBack("index") /\ inFolder' = inFolder /\ driver'.wait = "none"
    BY <1>11 DEF MessageRead, Types, WorkTypes, Driver
  <2>2. CASE job.at = NoMessage
    <3>1. job' = job
      BY <1>11, <2>2 DEF MessageRead
    <3>. QED BY <2>1, <2>2, <3>1, WorkerUnmoved
  <2>3. CASE job.at # NoMessage
    <3>1. PICK m \in Message : m = job.at /\ There(m)
      BY <1>1, <2>3 DEF WorkerFits, HandFits
    <3>2. msg' = msg /\ job' = [job EXCEPT !.read = msg[m].version]
      BY <1>11, <2>3, <3>1 DEF MessageRead, mailVars
    <3>3. msg[m].version \in Version /\ 0 < msg[m].version /\ msg[m].version \in Nat
      BY <3>1, ThereStays DEF Types, MailTypes, MailRecord, There
    <3>4. PICK j \in Job :
            /\ j = job' /\ j.type = job.type /\ j.stage = job.stage /\ j.left = job.left
            /\ j.folder = job.folder /\ j.items = job.items /\ j.at = m
            /\ j.read = msg[m].version
      BY <1>1, <3>1, <3>2, <3>3 DEF Job
    <3>5. Home(m)' = Home(m) /\ There(m)'
      BY <3>1, ThereStays
    <3>6. JobFits'
      <4>1. job.type \in {"folder", "message"}
        BY <2>3 DEF WorkerFits, HandFits
      <4>. QED BY <2>1, <3>4, <4>1, StillDelivered DEF WorkerFits, JobFits
    <3>7. HandFits'
      BY <2>3, <3>1, <3>2, <3>3, <3>4, <3>5 DEF WorkerFits, HandFits, Home, There
    <3>. QED
      BY <1>1, <2>1, <3>4, <3>6, <3>7 DEF WorkerGoesOn, WorkerFits, StageFits
  <2>. QED BY <2>2, <2>3
<1>. QED BY <1>4, <1>5, <1>6, <1>7, <1>8, <1>9, <1>10, <1>11

LEMMA WorkerNext ==
  ASSUME Types, WorkerFits, EventsAreThere, MailGoesOn, Next
  PROVE  WorkerGoesOn
<1>1. /\ job \in Job /\ inFolder \in Folder \cup {NoFolder}
      /\ driver \in Driver /\ Steady(driver)
  BY DEF Types, WorkTypes
<1>2. driver.wait # "index" => job.at = NoMessage \/ job.read # 0
  BY DEF WorkerFits, HandFits
<1>3. CASE \/ Hire \/ FolderIndexBegins \/ FolderIndexVisits \/ MessageIndexVisits
           \/ IndexMessage \/ CompactionPassBegins \/ MessageRead
           \/ CompactionPassMatches
  BY <1>3, WorkerSteps
<1>4. CASE NothingToHire \/ IndexingSweep
  <2>1. job = NoJob /\ job' = job /\ inFolder' = inFolder
    BY <1>4 DEF NothingToHire, IndexingSweep, jobVars
  <2>. QED BY <1>1, <2>1, WorkerGone
<1>5. CASE FolderIndexEnds \/ MessageIndexEnds
  BY <1>5, WorkerGone DEF FolderIndexEnds, MessageIndexEnds, JobEnds, LeaveFolder
<1>6. CASE CompactionPassEnds
  BY <1>1, <1>6, WorkerGone DEF CompactionPassEnds, JobEnds, LeaveFolder
<1>7. CASE CommitDone \/ Commit
  <2>1. job' = job /\ inFolder' = inFolder
    BY <1>7 DEF CommitDone, Commit, jobVars
  <2>2. driver.wait \in {"none", "commit", "lastCommit"}
    BY <1>1, <1>7 DEF CommitDone, Commit, CalledBack, Runs, Steady
  <2>3. driver'.wait \in {"none", "commit"}
    BY <1>1, <1>7, WaitIsSteady DEF CommitDone, Commit, Paused, Driver
  <2>. QED BY <1>2, <2>1, <2>2, <2>3, WorkerUnmoved
<1>8. CASE \/ IdleCommit \/ IdleCommitDone \/ GoOffline \/ GoOnline
           \/ ScheduleInitialSweep \/ \E m \in Message : Change(m)
  <2>1. job' = job /\ inFolder' = inFolder
    BY <1>8 DEF IdleCommit, IdleCommitDone, GoOffline, GoOnline,
         ScheduleInitialSweep, Change, jobVars
  <2>2. driver'.wait = driver.wait
    <3>1. CASE IdleCommit \/ IdleCommitDone \/ GoOffline \/ GoOnline
      BY <1>1, <3>1 DEF IdleCommit, IdleCommitDone, GoOffline, GoOnline, Driver
    <3>2. CASE ScheduleInitialSweep \/ \E m \in Message : Change(m)
      <4>1. driver' \in {driver, Kicked(driver)}
        BY <3>2 DEF ScheduleInitialSweep, Change, ReindexChangedMessage
      <4>. QED BY <1>1, <4>1, KickIsSteady
    <3>. QED BY <1>8, <3>1, <3>2
  <2>. QED BY <1>2, <2>1, <2>2, WorkerUnmoved
<1>9. CASE \E f \in Folder : FolderCompactStart(f) \/ FolderCompactFinish(f)
  <2>1. \/ job' = job /\ inFolder' = inFolder
        \/ job' = NoJob /\ inFolder' = NoFolder
    BY <1>9 DEF FolderCompactStart, FolderCompactFinish, KillIfIn, JobEnds, LeaveFolder
  <2>2. driver' \in {driver, Kicked(driver)}
    BY <1>9 DEF FolderCompactStart, FolderCompactFinish
  <2>3. driver'.wait = driver.wait
    BY <1>1, <2>2, KickIsSteady
  <2>. QED BY <1>2, <2>1, <2>3, WorkerUnmoved, WorkerGone
<1>10. CASE Quit \/ Crash
  BY <1>10, WorkerGone DEF Quit, Crash, NewSession, JobEnds, LeaveFolder
<1>. QED
  BY <1>3, <1>4, <1>5, <1>6, <1>7, <1>8, <1>9, <1>10 DEF Next, DriverTurn, Callback

IndexerInv == DriverInv /\ Types /\ WorkerFits /\ EventsAreThere

LEMMA IndexerInit == Init => IndexerInv
<1>. SUFFICES ASSUME Init PROVE IndexerInv
  OBVIOUS
<1>1. job = NoJob /\ queue = <<>> /\ driver = StartedDriver
  BY DEF Init
<1>2. EventsOf(job) = {} /\ Elements(queue) = {}
  BY <1>1, NewJobs, NoElements
<1>3. Events = {}
  BY <1>2 DEF Events, EventsIn
<1>4. WorkerFits
  BY <1>1 DEF NoJob, StartedDriver, WorkerFits, JobFits, HandFits, StageFits
<1>. QED BY <1>3, <1>4, DriverInit, TypesInit DEF IndexerInv, EventsAreThere

LEMMA IndexerStep == ASSUME IndexerInv, Next PROVE IndexerInv' /\ MailGoesOn
<1>1. DriverInv' /\ driver' \in Driver
  BY DriverNext DEF IndexerInv, DriverInv
<1>2. MailGoesOn /\ DbTypes' /\ OtherTypes' /\ Steady(driver') /\ queue' \in Seq(Waiting)
  BY MailNext, DatabaseNext, OtherNext, SteadyNext, EventsNext DEF IndexerInv
<1>3. EventsAreThere' /\ WorkerGoesOn
  BY <1>2, EventsStayThere, WorkerNext DEF IndexerInv
<1>4. WorkTypes'
  BY <1>1, <1>2, <1>3 DEF WorkTypes, WorkerGoesOn, Steady
<1>5. MailTypes' /\ WorkerFits'
  BY <1>2, <1>3 DEF MailGoesOn, WorkerGoesOn
<1>. QED BY <1>1, <1>2, <1>3, <1>4, <1>5 DEF IndexerInv, Types

LEMMA IndexerNext == IndexerInv /\ [Next]_vars => IndexerInv'
<1>. SUFFICES ASSUME IndexerInv, UNCHANGED vars PROVE IndexerInv'
  BY IndexerStep
<1>1. /\ UNCHANGED <<case, msg, hdr, pending, postCommit>>
      /\ UNCHANGED <<rows, fld, disk, queue, job, inFolder>>
      /\ UNCHANGED <<driver, idleCommit, sweepDue, spent>>
  BY DEF vars, mailVars, trackVars, dbVars, jobVars, otherVars
<1>2. DriverInv'
  BY <1>1 DEF IndexerInv, DriverInv, WorkIsWanted
<1>3. Types'
  BY <1>1 DEF IndexerInv, Types, MailTypes, DbTypes, WorkTypes, OtherTypes
<1>4. WorkerFits'
  BY <1>1 DEF IndexerInv, WorkerFits, JobFits, HandFits, StageFits, There, Home, Delivered
<1>5. EventsAreThere'
  BY <1>1 DEF IndexerInv, EventsAreThere, Events, EventsOf, EventsIn, Elements, There
<1>. QED BY <1>2, <1>3, <1>4, <1>5 DEF IndexerInv

(* The variables have their types, a wait belongs to a running batch, and
   only a job of messages or a folder's job has a message in hand, whatever
   messages, folders and circumstances there are (workBatch and
   callbackDriver, indexer.js; _worker_folderIndex and _worker_messageIndex,
   index_msg.js).                                                          *)
THEOREM TypeCorrect == Spec => []TypeOK
<1>1. IndexerInv => TypeOK
  <2>. SUFFICES ASSUME IndexerInv PROVE TypeOK
    OBVIOUS
  <2>1. \A f \in Folder : fld[f].dirty \in {"clean", "dirty", "filthy"}
    BY DEF IndexerInv, Types, DbTypes, FolderStatus, Dirty
  <2>2. (driver.phase = "wait" <=> driver.wait # "none")
    BY DEF IndexerInv, Types, WorkTypes, Steady
  <2>. QED
    BY <2>1, <2>2 DEF IndexerInv, Types, MailTypes, DbTypes, WorkTypes, OtherTypes,
         TypeOK, MailRecord, Header, Tracked, Version, Dirty, Driver, Steady,
         WorkerFits, HandFits
<1>. QED BY <1>1, IndexerInit, IndexerNext, PTL DEF Spec

-----------------------------------------------------------------------------
(* The rows and their keys.                                                *)

RowsAreThere ==
  \A m \in Message : /\ rows[m].version > 0 => There(m)
                     /\ disk.rows[m].version > 0 => rows[m].version > 0

(* A pass that has been written leaves no row of its folder with an old key. *)
KeysFit ==
  Without({"crash"}) =>
    /\ \A m \in Message : rows[m].version > 0 /\ rows[m].key # msg[m].key
         => fld[Home(m)].compacted
    /\ job.stage = "flushed" =>
         \A m \in Message : Home(m) = job.folder /\ rows[m].version > 0
           => rows[m].key = msg[m].key

LEMMA RowsChange ==
  ASSUME IndexerInv, Next
  PROVE  \/ rows' = rows /\ disk'.rows \in {disk.rows, rows}
         \/ disk' = disk /\ (IndexMessage \/ CompactionPassMatches \/ Crash)
<1>1. Snapshot.rows = rows /\ Snapshot'.rows = rows'
  BY DEF Snapshot
<1>2. CASE IndexMessage \/ CompactionPassMatches \/ Crash
  BY <1>2 DEF IndexMessage, CompactionPassMatches, Crash
<1>3. CASE NothingToHire \/ Commit \/ IdleCommit \/ Quit
  BY <1>1, <1>3 DEF NothingToHire, Commit, IdleCommit, Quit
<1>4. CASE (\E m \in Message : Change(m)) \/ (\E f \in Folder : FolderCompactFinish(f))
  <2>1. rows' = rows /\ Persist
    BY <1>4 DEF Change, FolderCompactFinish
  <2>. QED BY <1>1, <2>1 DEF Persist
<1>5. CASE \/ Hire \/ IndexingSweep \/ FolderIndexBegins \/ FolderIndexVisits
           \/ FolderIndexEnds \/ MessageIndexVisits \/ MessageIndexEnds
           \/ CompactionPassBegins \/ MessageRead \/ CompactionPassEnds \/ CommitDone
           \/ IdleCommitDone \/ GoOffline \/ GoOnline \/ ScheduleInitialSweep
           \/ \E f \in Folder : FolderCompactStart(f)
  BY <1>5 DEF Hire, IndexingSweep, FolderIndexBegins, FolderIndexVisits,
       FolderIndexEnds, MessageIndexVisits, MessageIndexEnds, CompactionPassBegins,
       MessageRead, CompactionPassEnds, CommitDone, IdleCommitDone, GoOffline,
       GoOnline, ScheduleInitialSweep, FolderCompactStart, dbVars
<1>. QED BY <1>2, <1>3, <1>4, <1>5 DEF Next, DriverTurn, Callback

(* What is written to the row of the message in hand.                      *)
LEMMA HandIsRead ==
  ASSUME IndexerInv, IndexMessage
  PROVE  /\ job.at \in Message /\ job.read \in Version /\ 0 < job.read
         /\ There(job.at) /\ job.type \in {"folder", "message"}
         /\ rows'[job.at] = [version |-> job.read, key |-> msg[job.at].key]
         /\ \A m \in Message \ {job.at} : rows'[m] = rows[m]
<1>1. job.at # NoMessage /\ driver.wait = "none"
  BY DEF IndexMessage, Runs, IndexerInv, Types, WorkTypes, Steady
<1>2. job.at \in Message /\ job.read \in Version
  BY <1>1 DEF IndexerInv, Types, WorkTypes, Job
<1>3. job.read # 0 /\ There(job.at) /\ job.type \in {"folder", "message"}
  BY <1>1 DEF IndexerInv, WorkerFits, HandFits
<1>4. 0 < job.read
  BY <1>2, <1>3, GlodaAssumption DEF Version, GlodaAssumption
<1>. QED
  BY <1>2, <1>3, <1>4 DEF IndexMessage, IndexerInv, Types, DbTypes

LEMMA RowsStay ==
  ASSUME IndexerInv, RowsAreThere, Next
  PROVE  RowsAreThere'
<1>1. MailGoesOn /\ Types
  BY IndexerStep DEF IndexerInv
<1>2. \A m \in Message : There(m) => There(m)'
  BY <1>1, ThereStays
<1>3. CASE rows' = rows /\ disk'.rows \in {disk.rows, rows}
  BY <1>2, <1>3 DEF RowsAreThere
<1>4. CASE disk' = disk /\ IndexMessage
  BY <1>2, <1>4, HandIsRead DEF RowsAreThere
<1>5. CASE disk' = disk /\ CompactionPassMatches
  <2>1. \A m \in Message : rows'[m].version = rows[m].version
    BY <1>1, <1>5 DEF CompactionPassMatches, Types, DbTypes, MailRecord
  <2>. QED BY <1>2, <1>5, <2>1 DEF RowsAreThere
<1>6. CASE disk' = disk /\ Crash
  <2>1. rows' = disk.rows
    BY <1>6 DEF Crash
  <2>. QED BY <1>2, <1>6, <2>1 DEF RowsAreThere
<1>. QED BY <1>3, <1>4, <1>5, <1>6, RowsChange

LEMMA FlushedByMatching ==
  ASSUME IndexerInv, Next, job'.stage = "flushed"
  PROVE  /\ job'.folder = job.folder
         /\ job.stage = "flushed" \/ CompactionPassMatches
<1>1. job \in Job /\ Types
  BY DEF IndexerInv, Types, WorkTypes
<1>2. NoJob.stage = "new"
  BY DEF NoJob
<1>3. CASE Hire
  <2>1. job' \in Waiting
    BY <1>1, <1>3, HireMoves
  <2>. QED BY <2>1 DEF Waiting, NotBegun
<1>4. CASE MessageIndexVisits
  <2>1. job'.stage = job.stage /\ job.type = "message"
    BY <1>1, <1>4, VisitTakesEvent DEF MessageIndexVisits
  <2>. QED BY <2>1 DEF IndexerInv, WorkerFits, StageFits
<1>5. CASE \/ FolderIndexEnds \/ MessageIndexEnds \/ CompactionPassEnds \/ Quit \/ Crash
           \/ \E f \in Folder : FolderCompactStart(f) \/ FolderCompactFinish(f)
  BY <1>2, <1>5 DEF FolderIndexEnds, MessageIndexEnds, CompactionPassEnds, Quit,
       Crash, NewSession, FolderCompactStart, FolderCompactFinish, KillIfIn, JobEnds
<1>6. CASE \/ FolderIndexBegins \/ FolderIndexVisits \/ IndexMessage
           \/ CompactionPassBegins \/ MessageRead \/ CompactionPassMatches
  BY <1>1, <1>2, <1>6 DEF FolderIndexBegins, FolderIndexVisits, IndexMessage,
       CompactionPassBegins, MessageRead, CompactionPassMatches, JobEnds, Job
<1>7. CASE \/ NothingToHire \/ IndexingSweep \/ CommitDone \/ Commit \/ IdleCommit
           \/ IdleCommitDone \/ GoOffline \/ GoOnline \/ ScheduleInitialSweep
           \/ \E m \in Message : Change(m)
  BY <1>7 DEF NothingToHire, IndexingSweep, CommitDone, Commit, IdleCommit,
       IdleCommitDone, GoOffline, GoOnline, ScheduleInitialSweep, Change, jobVars
<1>. QED
  BY <1>3, <1>4, <1>5, <1>6, <1>7 DEF Next, DriverTurn, Callback

LEMMA KeysStay ==
  ASSUME IndexerInv, RowsAreThere, KeysFit, Next
  PROVE  KeysFit'
<1>1. MailGoesOn /\ Types /\ case' = case
  BY IndexerStep DEF IndexerInv, MailGoesOn
<1>. SUFFICES ASSUME Without({"crash"}) PROVE KeysFit'
  BY <1>1 DEF KeysFit, Without
<1>2. \A m \in Message : Home(m)' = Home(m) /\ Home(m) \in Folder
  BY <1>1, ThereStays, CaseType DEF Types, OtherTypes
<1>3. /\ rows \in [Message -> MailRecord] /\ msg \in [Message -> MailRecord]
      /\ fld \in [Folder -> FolderStatus] /\ job \in Job
  BY <1>1 DEF Types, MailTypes, DbTypes, WorkTypes
<1>4. ~Crash
  BY DEF Crash, Has, Without
<1>5. CASE IndexMessage
  <2>1. /\ job.at \in Message /\ job.type \in {"folder", "message"}
        /\ rows'[job.at] = [version |-> job.read, key |-> msg[job.at].key]
        /\ \A m \in Message \ {job.at} : rows'[m] = rows[m]
    BY <1>5, HandIsRead
  <2>2. job.stage # "flushed"
    BY <2>1 DEF IndexerInv, WorkerFits, StageFits
  <2>3. job'.stage # "flushed"
    BY <1>5, <2>2, FlushedByMatching DEF IndexMessage, CompactionPassMatches
  <2>4. msg' = msg /\ fld' = fld
    BY <1>5 DEF IndexMessage, mailVars
  <2>. QED BY <1>2, <2>1, <2>3, <2>4 DEF KeysFit
<1>6. CASE CompactionPassMatches
  <2>1. /\ msg' = msg /\ fld' = fld
        /\ rows' = [m \in Message |->
             IF m \in Delivered(job.folder) /\ rows[m].version > 0
             THEN [rows[m] EXCEPT !.key = msg[m].key] ELSE rows[m]]
    BY <1>6 DEF CompactionPassMatches, mailVars
  <2>2. job'.folder = job.folder
    BY <1>6, FlushedByMatching DEF CompactionPassMatches
  <2>3. ASSUME NEW m \in Message, rows'[m].version > 0
        PROVE  /\ rows[m].version > 0
               /\ Home(m) = job.folder => rows'[m].key = msg[m].key
               /\ Home(m) # job.folder => rows'[m].key = rows[m].key
    <3>1. rows'[m].version = rows[m].version
      BY <1>3, <2>1 DEF MailRecord
    <3>2. There(m)
      BY <2>3, <3>1 DEF RowsAreThere
    <3>3. m \in Delivered(job.folder) <=> Home(m) = job.folder
      BY <3>2 DEF Delivered, There
    <3>. QED BY <1>3, <2>1, <2>3, <3>1, <3>3 DEF MailRecord
  <2>. QED BY <1>2, <2>1, <2>2, <2>3 DEF KeysFit
<1>7. CASE CompactionPassEnds
  <2>1. rows' = rows /\ msg' = msg
    BY <1>7 DEF CompactionPassEnds, mailVars
  <2>2. CASE job = NoJob
    <3>1. fld' = fld /\ job' = job
      BY <1>7, <2>2 DEF CompactionPassEnds
    <3>. QED BY <1>2, <2>1, <3>1 DEF KeysFit
  <2>3. CASE job # NoJob
    <3>1. job.stage = "flushed" /\ job.type = "compact"
      BY <1>7, <2>3 DEF CompactionPassEnds, CalledBack, IndexerInv, WorkerFits, StageFits
    <3>2. /\ fld' = [fld EXCEPT ![job.folder].compacted = FALSE]
          /\ job'.stage = "new" /\ job.folder \in Folder
      BY <1>7, <2>3, <3>1 DEF CompactionPassEnds, JobEnds, NoJob, IndexerInv,
           WorkerFits, JobFits
    <3>3. \A f \in Folder : f # job.folder => fld'[f].compacted = fld[f].compacted
      BY <1>3, <3>2
    <3>. QED BY <1>2, <2>1, <3>1, <3>2, <3>3 DEF KeysFit
  <2>. QED BY <2>2, <2>3
<1>8. ASSUME NEW f \in Folder, FolderCompactFinish(f) PROVE KeysFit'
  <2>1. /\ fld' = [fld EXCEPT ![f].compacting = FALSE, ![f].compacted = TRUE]
        /\ rows' = rows
        /\ \A m \in Message : Home(m) # f => msg'[m] = msg[m]
    BY <1>8 DEF FolderCompactFinish, Delivered
  <2>2. \A g \in Folder : fld'[g].compacted = (g = f \/ fld[g].compacted)
    BY <1>3, <2>1 DEF FolderStatus
  <2>3. \A m \in Message : rows[m].version > 0 /\ rows[m].key # msg'[m].key
          => fld'[Home(m)].compacted
    BY <1>2, <2>1, <2>2 DEF KeysFit
  <2>4. job'.stage = "flushed" =>
          /\ job.stage = "flushed" /\ job.folder # f /\ job'.folder = job.folder
    <3>. SUFFICES ASSUME job'.stage = "flushed"
                  PROVE  /\ job.stage = "flushed" /\ job.folder # f
                         /\ job'.folder = job.folder
      OBVIOUS
    <3>1. ~(job' = NoJob)
      BY DEF NoJob
    <3>2. inFolder # f /\ job' = job
      BY <1>8, <3>1 DEF FolderCompactFinish, KillIfIn, JobEnds
    <3>3. job.type = "compact" /\ job.folder = inFolder
      BY <3>2 DEF IndexerInv, WorkerFits, StageFits, JobFits
    <3>. QED BY <3>2, <3>3
  <2>. QED BY <1>2, <2>1, <2>3, <2>4 DEF KeysFit
<1>9. CASE \E m \in Message : Change(m)
  <2>1. /\ rows' = rows /\ job' = job
        /\ \A m \in Message : msg'[m].key = msg[m].key
    BY <1>3, <1>9 DEF Change, MailRecord
  <2>2. \A f \in Folder : fld'[f].compacted = fld[f].compacted
    BY <1>3, <1>9 DEF Change, ReindexChangedMessage, FolderStatus
  <2>. QED BY <1>2, <2>1, <2>2 DEF KeysFit
<1>10. CASE \/ Hire \/ NothingToHire \/ IndexingSweep \/ FolderIndexBegins
            \/ FolderIndexVisits \/ FolderIndexEnds \/ MessageIndexVisits
            \/ MessageIndexEnds \/ CompactionPassBegins \/ MessageRead \/ CommitDone
            \/ Commit \/ IdleCommit \/ IdleCommitDone \/ GoOffline \/ GoOnline
            \/ ScheduleInitialSweep \/ Quit
            \/ \E f \in Folder : FolderCompactStart(f)
  <2>1. rows' = rows /\ msg' = msg
    BY <1>10 DEF Hire, NothingToHire, IndexingSweep, FolderIndexBegins,
         FolderIndexVisits, FolderIndexEnds, MessageIndexVisits, MessageIndexEnds,
         CompactionPassBegins, MessageRead, CommitDone, Commit, IdleCommit,
         IdleCommitDone, GoOffline, GoOnline, ScheduleInitialSweep, Quit, NewSession,
         FolderCompactStart, dbVars, mailVars
  <2>2. \A f \in Folder : fld'[f].compacted = fld[f].compacted
    <3>1. CASE FolderIndexBegins \/ FolderIndexEnds
      <4>1. \/ fld' = fld \/ fld' = [fld EXCEPT ![job.folder].dirty = "dirty"]
            \/ fld' = [fld EXCEPT ![job.folder].dirty = "clean"]
        BY <3>1 DEF FolderIndexBegins, FolderIndexEnds
      <4>. QED BY <1>3, <4>1 DEF FolderStatus
    <3>2. CASE Quit
      BY <1>3, <3>2 DEF Quit, FolderStatus
    <3>3. CASE \E f \in Folder : FolderCompactStart(f)
      <4>1. PICK f \in Folder : fld' = [fld EXCEPT ![f].compacting = TRUE]
        BY <3>3 DEF FolderCompactStart
      <4>. QED BY <1>3, <4>1 DEF FolderStatus
    <3>4. CASE /\ ~FolderIndexBegins /\ ~FolderIndexEnds /\ ~Quit
               /\ ~ \E f \in Folder : FolderCompactStart(f)
      <4>1. fld' = fld
        BY <1>10, <3>4 DEF Hire, NothingToHire, IndexingSweep, FolderIndexVisits,
             MessageIndexVisits, MessageIndexEnds, CompactionPassBegins, MessageRead,
             CommitDone, Commit, IdleCommit, IdleCommitDone, GoOffline, GoOnline,
             ScheduleInitialSweep, dbVars
      <4>. QED BY <4>1
    <3>. QED BY <3>1, <3>2, <3>3, <3>4
  <2>3. CASE CompactionPassMatches
    BY <1>6, <2>3
  <2>4. CASE ~CompactionPassMatches
    <3>1. job'.stage = "flushed" => job'.folder = job.folder /\ job.stage = "flushed"
      BY <2>4, FlushedByMatching
    <3>. QED BY <1>2, <2>1, <2>2, <3>1 DEF KeysFit
  <2>. QED BY <2>3, <2>4
<1>. QED
  BY <1>4, <1>5, <1>6, <1>7, <1>8, <1>9, <1>10 DEF Next, DriverTurn, Callback

-----------------------------------------------------------------------------
(* The headers and the commits.                                            *)

Committing == driver.wait \in {"commit", "lastCommit"}
Filthy(f) == fld[f].dirty = "filthy"

(* Until a commit calls back the rows and the filthy folders stay as they
   were committed.                                                         *)
CommitFits ==
  Committing => /\ disk.rows = rows
                /\ \A f \in Folder : disk.dirty[f] = "filthy" => Filthy(f)

HeadersFit ==
  /\ idleCommit => Has("idleRace")
  /\ \A m \in Message :
       /\ pending[m].byId => rows[m].version > 0
       /\ Without({"idleRace"}) /\ hdr[m].id => disk.rows[m].version > 0

(* A folder is filthy until its job begins, or again after a crash.        *)
LEMMA FilthyNext ==
  ASSUME IndexerInv, Next
  PROVE  \A f \in Folder :
           \/ Filthy(f)' <=> Filthy(f)
           \/ ~Filthy(f)' /\ (FolderIndexBegins \/ FolderIndexEnds) /\ job.folder = f
           \/ Crash /\ fld'[f].dirty = disk.dirty[f]
<1>1. fld \in [Folder -> FolderStatus]
  BY DEF IndexerInv, Types, DbTypes
<1>2. CASE FolderIndexBegins \/ FolderIndexEnds
  <2>1. \/ fld' = fld \/ fld' = [fld EXCEPT ![job.folder].dirty = "dirty"]
        \/ fld' = [fld EXCEPT ![job.folder].dirty = "clean"]
    BY <1>2 DEF FolderIndexBegins, FolderIndexEnds
  <2>. QED BY <1>1, <1>2, <2>1 DEF FolderStatus, Filthy
<1>3. CASE Crash
  BY <1>3 DEF Crash
<1>4. CASE \E m \in Message : Change(m)
  <2>1. \A m \in Message : Home(m) \in Folder
    BY CaseType DEF IndexerInv, Types, OtherTypes
  <2>2. PICK g \in Folder :
          \/ fld' = fld
          \/ fld' = [fld EXCEPT ![g].dirty = IF @ = "clean" THEN "dirty" ELSE @]
    BY <1>4, <2>1 DEF Change, ReindexChangedMessage
  <2>. QED BY <1>1, <2>2 DEF FolderStatus, Filthy
<1>8. CASE \E f \in Folder : FolderCompactStart(f) \/ FolderCompactFinish(f)
  <2>1. PICK g \in Folder :
          \/ fld' = [fld EXCEPT ![g].compacting = TRUE]
          \/ fld' = [fld EXCEPT ![g].compacting = FALSE, ![g].compacted = TRUE]
    BY <1>8 DEF FolderCompactStart, FolderCompactFinish
  <2>. QED BY <1>1, <2>1 DEF FolderStatus, Filthy
<1>5. CASE CompactionPassEnds
  <2>1. fld' = fld \/ fld' = [fld EXCEPT ![job.folder].compacted = FALSE]
    BY <1>5 DEF CompactionPassEnds
  <2>. QED BY <1>1, <2>1 DEF FolderStatus, Filthy
<1>6. CASE Quit
  BY <1>1, <1>6 DEF Quit, FolderStatus, Filthy
<1>7. CASE \/ Hire \/ NothingToHire \/ IndexingSweep \/ FolderIndexVisits
           \/ MessageIndexVisits \/ MessageIndexEnds \/ IndexMessage
           \/ CompactionPassBegins \/ MessageRead \/ CompactionPassMatches
           \/ CommitDone \/ Commit \/ IdleCommit \/ IdleCommitDone
           \/ GoOffline \/ GoOnline \/ ScheduleInitialSweep
  <2>1. fld' = fld
    BY <1>7 DEF Hire, NothingToHire, IndexingSweep, FolderIndexVisits,
         MessageIndexVisits, MessageIndexEnds, IndexMessage, CompactionPassBegins,
         MessageRead, CompactionPassMatches, CommitDone, Commit, IdleCommit,
         IdleCommitDone, GoOffline, GoOnline, ScheduleInitialSweep, dbVars
  <2>. QED BY <2>1 DEF Filthy
<1>. QED
  BY <1>2, <1>3, <1>4, <1>5, <1>6, <1>7, <1>8 DEF Next, DriverTurn, Callback

LEMMA CommittingNext ==
  ASSUME IndexerInv, Next, Committing'
  PROVE  /\ rows' = rows
         /\ \/ disk' = Snapshot /\ fld' = fld
            \/ /\ Committing /\ disk' = disk
               /\ \A f \in Folder : Filthy(f)' <=> Filthy(f)
<1>1. /\ driver \in Driver /\ Steady(driver)
      /\ Committing => driver.batch /\ driver.tx
  BY DEF IndexerInv, Types, WorkTypes, Steady, Committing, Driver
<1>2. ASSUME Pause \/ WaitFor("index") \/ WaitFor("fetch") PROVE FALSE
  BY <1>1, <1>2, PauseIsSteady, WaitIsSteady DEF Committing
<1>3. CASE \/ Hire \/ IndexingSweep \/ FolderIndexBegins \/ FolderIndexVisits
           \/ FolderIndexEnds \/ MessageIndexVisits \/ MessageIndexEnds \/ IndexMessage
           \/ CompactionPassBegins \/ CompactionPassMatches \/ CompactionPassEnds
  BY <1>2, <1>3 DEF Hire, IndexingSweep, FolderIndexBegins, FolderIndexVisits,
       FolderIndexEnds, MessageIndexVisits, MessageIndexEnds, IndexMessage,
       CompactionPassBegins, CompactionPassMatches, CompactionPassEnds
<1>4. CASE NothingToHire
  BY <1>1, <1>4 DEF NothingToHire, Runs, Steady, Driver, Committing
<1>5. CASE Commit
  BY <1>5 DEF Commit
<1>6. CASE MessageRead \/ CommitDone
  BY <1>1, <1>6 DEF MessageRead, CommitDone, Paused, Driver, Committing
<1>7. CASE IdleCommit
  BY <1>1, <1>7 DEF IdleCommit, Driver, Committing
<1>8. CASE IdleCommitDone \/ GoOffline \/ GoOnline \/ ScheduleInitialSweep
  <2>1. driver'.wait = driver.wait
    <3>1. CASE IdleCommitDone \/ GoOffline \/ GoOnline
      BY <1>1, <3>1 DEF IdleCommitDone, GoOffline, GoOnline, Driver
    <3>2. CASE ScheduleInitialSweep
      <4>1. driver' \in {driver, Kicked(driver)}
        BY <3>2 DEF ScheduleInitialSweep
      <4>. QED BY <1>1, <4>1, KickIsSteady
    <3>. QED BY <1>8, <3>1, <3>2
  <2>2. UNCHANGED <<rows, fld, disk>>
    BY <1>8 DEF IdleCommitDone, GoOffline, GoOnline, ScheduleInitialSweep, dbVars
  <2>. QED BY <2>1, <2>2 DEF Committing, Filthy
<1>9. CASE \/ \E m \in Message : Change(m)
           \/ \E f \in Folder : FolderCompactStart(f) \/ FolderCompactFinish(f)
  <2>1. driver' \in {driver, Kicked(driver)}
    BY <1>9 DEF Change, ReindexChangedMessage, FolderCompactStart, FolderCompactFinish
  <2>2. driver'.wait = driver.wait /\ driver'.tx = driver.tx
    BY <1>1, <2>1, KickIsSteady
  <2>3. Committing
    BY <2>2 DEF Committing
  <2>4. rows' = rows /\ disk' = disk
    BY <1>1, <1>9, <2>2, <2>3 DEF Change, FolderCompactStart, FolderCompactFinish, Persist
  <2>6. \A f \in Folder : Filthy(f)' <=> Filthy(f)
    <3>1. ~Runs
      BY <1>1, <2>3 DEF Runs, Committing, Steady
    <3>2. ~FolderIndexBegins /\ ~FolderIndexEnds
      BY <3>1 DEF FolderIndexBegins, FolderIndexEnds
    <3>3. driver' # StartedDriver
      BY <2>2, <2>3 DEF StartedDriver, Committing
    <3>4. ~Crash
      BY <3>3 DEF Crash, NewSession
    <3>. QED BY <3>2, <3>4, FilthyNext
  <2>. QED BY <2>3, <2>4, <2>6
<1>10. CASE Quit \/ Crash
  BY <1>10 DEF Quit, Crash, NewSession, StartedDriver, Committing
<1>. QED
  BY <1>3, <1>4, <1>5, <1>6, <1>7, <1>8, <1>9, <1>10 DEF Next, DriverTurn, Callback

LEMMA CommitsStay ==
  ASSUME IndexerInv, CommitFits, Next
  PROVE  CommitFits'
<1>. SUFFICES ASSUME Committing'
              PROVE  /\ disk'.rows = rows'
                     /\ \A f \in Folder : disk'.dirty[f] = "filthy" => Filthy(f)'
  BY DEF CommitFits
<1>1. CASE disk' = Snapshot /\ fld' = fld /\ rows' = rows
  BY <1>1 DEF Snapshot, Filthy
<1>2. CASE /\ Committing /\ disk' = disk /\ rows' = rows
           /\ \A f \in Folder : Filthy(f)' <=> Filthy(f)
  BY <1>2 DEF CommitFits
<1>. QED BY <1>1, <1>2, CommittingNext

(* What a commit's callback writes to the headers.                         *)
LEMMA FlushWrites ==
  ASSUME Types, Flush
  PROVE  \A m \in Message :
           /\ pending'[m] = NotTracked
           /\ \/ hdr'[m] = hdr[m]
                 /\ (pending[m].byId => fld[Home(m)].compacting)
              \/ pending[m].byId /\ hdr'[m] = [id |-> TRUE, dirty |-> pending[m].dirty]
<1>1. PICK missed \in SUBSET {m \in Message : pending[m].byId /\ fld[Home(m)].compacting} :
        hdr' = [m \in Message |->
          IF pending[m].byId /\ m \notin missed
          THEN [id |-> TRUE, dirty |-> pending[m].dirty] ELSE hdr[m]]
  BY DEF Flush
<1>. QED BY <1>1 DEF Flush

(* The three steps that may run it, where no commit was forgotten.         *)
LEMMA FlushFollowsCommit ==
  ASSUME IndexerInv, CommitFits, HeadersFit, Without({"idleRace"}),
         CommitDone \/ IdleCommit \/ IdleCommitDone
  PROVE  /\ rows' = rows /\ fld' = fld /\ disk'.rows = rows
         /\ \A f \in Folder : disk'.dirty[f] = "filthy" => Filthy(f)
         /\ disk' = disk \/ disk' = Snapshot
<1>1. CASE CommitDone
  <2>1. UNCHANGED <<rows, fld, disk>> /\ Committing
    BY <1>1 DEF CommitDone, CalledBack, Committing, dbVars
  <2>. QED BY <2>1 DEF CommitFits
<1>2. CASE IdleCommit
  BY <1>2 DEF IdleCommit, Snapshot, Filthy
<1>3. CASE IdleCommitDone
  BY <1>3 DEF IdleCommitDone, HeadersFit, Has, Without
<1>. QED BY <1>1, <1>2, <1>3

LEMMA HeadersStay ==
  ASSUME IndexerInv, RowsAreThere, CommitFits, HeadersFit, Next
  PROVE  HeadersFit'
<1>1. MailGoesOn /\ Types /\ case' = case
  BY IndexerStep DEF IndexerInv, MailGoesOn
<1>2. /\ rows \in [Message -> MailRecord] /\ hdr \in [Message -> Header]
      /\ pending \in [Message -> Tracked]
  BY <1>1 DEF Types, MailTypes, DbTypes
<1>3. idleCommit' => Has("idleRace")'
  <2>1. idleCommit' => idleCommit \/ Has("idleRace")
    <3>1. CASE IdleCommit
      BY <3>1 DEF IdleCommit
    <3>2. CASE IdleCommitDone \/ Quit \/ Crash
      BY <3>2 DEF IdleCommitDone, Quit, Crash, NewSession
    <3>3. CASE ~(IdleCommit \/ IdleCommitDone \/ Quit \/ Crash)
      <4>1. idleCommit' = idleCommit
        BY <3>3 DEF Next, DriverTurn, Callback, Hire, NothingToHire, IndexingSweep,
             FolderIndexBegins, FolderIndexVisits, FolderIndexEnds,
             MessageIndexVisits, MessageIndexEnds, IndexMessage,
             CompactionPassBegins, MessageRead, CompactionPassMatches,
             CompactionPassEnds, CommitDone, Commit, Change, FolderCompactStart,
             FolderCompactFinish, GoOffline, GoOnline, ScheduleInitialSweep, otherVars
      <4>. QED BY <4>1
    <3>. QED BY <3>1, <3>2, <3>3
  <2>. QED BY <1>1, <2>1 DEF HeadersFit, Has
<1>4. \A m \in Message : disk.rows[m].version > 0 => disk'.rows[m].version > 0
  BY RowsChange DEF RowsAreThere
<1>5. CASE IndexMessage
  <2>1. /\ hdr' = hdr
        /\ \A m \in Message : pending'[m].byId => pending[m].byId \/ m = job.at
    BY <1>5 DEF IndexMessage, mailVars, Track
  <2>2. \A m \in Message : rows'[m].version > 0 \/ (m # job.at /\ rows'[m] = rows[m])
    BY <1>5, HandIsRead
  <2>. QED BY <1>1, <1>3, <1>4, <2>1, <2>2 DEF HeadersFit, Without
<1>6. CASE CompactionPassMatches
  <2>1. /\ hdr' = hdr
        /\ \A m \in Message : pending'[m].byId => pending[m].byId \/ rows[m].version > 0
    BY <1>6 DEF CompactionPassMatches, mailVars, Track
  <2>2. \A m \in Message : rows'[m].version = rows[m].version
    BY <1>2, <1>6 DEF CompactionPassMatches, MailRecord
  <2>. QED BY <1>1, <1>3, <1>4, <2>1, <2>2 DEF HeadersFit, Without
<1>7. CASE CommitDone \/ IdleCommit \/ IdleCommitDone
  <2>1. rows' = rows
    BY <1>7 DEF CommitDone, IdleCommit, IdleCommitDone, dbVars
  <2>2. Flush \/ UNCHANGED <<hdr, pending>>
    BY <1>7 DEF CommitDone, IdleCommit, IdleCommitDone, RunPostCommit, trackVars
  <2>3. CASE UNCHANGED <<hdr, pending>>
    BY <1>1, <1>3, <1>4, <2>1, <2>3 DEF HeadersFit, Without
  <2>4. CASE Flush
    <3>1. \A m \in Message : ~pending'[m].byId
      <4>1. \A m \in Message : pending'[m] = NotTracked
        BY <1>1, <2>4, FlushWrites
      <4>2. ~NotTracked.byId
        BY DEF NotTracked
      <4>. QED BY <4>1, <4>2
    <3>2. \A m \in Message : hdr'[m].id => hdr[m].id \/ pending[m].byId
      BY <1>1, <2>4, FlushWrites
    <3>3. Without({"idleRace"}) => disk'.rows = rows
      BY <1>7, FlushFollowsCommit
    <3>. QED BY <1>1, <1>3, <1>4, <3>1, <3>2, <3>3 DEF HeadersFit, Without
  <2>. QED BY <2>2, <2>3, <2>4
<1>8. CASE Quit \/ Crash
  <2>1. hdr' = hdr /\ pending' = [m \in Message |-> NotTracked]
    BY <1>8 DEF Quit, Crash, NewSession, mailVars
  <2>. QED BY <1>1, <1>3, <1>4, <2>1 DEF HeadersFit, Without, NotTracked
<1>9. CASE ~(IndexMessage \/ CompactionPassMatches \/ Quit \/ Crash)
           /\ ~(CommitDone \/ IdleCommit \/ IdleCommitDone)
  <2>1. rows' = rows
    BY <1>9, RowsChange
  <2>2. \A m \in Message :
          hdr'[m].id = hdr[m].id /\ (pending'[m].byId => pending[m].byId)
    <3>1. CASE FolderIndexBegins
      BY <1>2, <3>1 DEF FolderIndexBegins, trackVars, Header
    <3>2. CASE \E m \in Message : Change(m)
      <4>1. PICK m \in Message : Change(m)
        BY <3>2
      <4>2. /\ hdr' \in {hdr, [hdr EXCEPT ![m].dirty = "dirty"]}
            /\ pending' \in {pending, [pending EXCEPT ![m].dirty = "dirty"]}
        BY <4>1 DEF Change, ReindexChangedMessage, trackVars
      <4>. QED BY <1>2, <4>2 DEF Header, Tracked
    <3>3. CASE \E f \in Folder : FolderCompactStart(f) \/ FolderCompactFinish(f)
      <4>1. hdr' = hdr
        BY <3>3 DEF FolderCompactStart, FolderCompactFinish, mailVars
      <4>2. \A m \in Message : pending'[m].byId => pending[m].byId
        <5>1. CASE \E f \in Folder : FolderCompactStart(f)
          <6>1. PICK f \in Folder :
                  pending' = [m \in Message |->
                    IF Home(m) = f THEN [pending[m] EXCEPT !.byKey = FALSE]
                    ELSE pending[m]]
            BY <5>1 DEF FolderCompactStart
          <6>. QED BY <1>2, <6>1 DEF Tracked
        <5>2. CASE \E f \in Folder : FolderCompactFinish(f)
          <6>0. PICK f \in Folder : FolderCompactFinish(f)
            BY <5>2
          <6>1. PICK moved \in SUBSET Delivered(f) :
                  pending' = [m \in Message |->
                    IF Home(m) # f THEN pending[m]
                    ELSE [pending[m] EXCEPT !.byId = FALSE,
                                            !.byKey = @ /\ m \notin moved]]
            BY <6>0 DEF FolderCompactFinish
          <6>. QED BY <1>2, <6>1 DEF Tracked
        <5>. QED BY <3>3, <5>1, <5>2
      <4>. QED BY <4>1, <4>2
    <3>4. CASE ~(FolderIndexBegins \/ \E m \in Message : Change(m))
               /\ ~ \E f \in Folder : FolderCompactStart(f) \/ FolderCompactFinish(f)
      <4>1. UNCHANGED <<hdr, pending>>
        BY <1>9, <3>4 DEF Next, DriverTurn, Callback, Hire, NothingToHire,
             IndexingSweep, FolderIndexVisits, FolderIndexEnds, MessageIndexVisits,
             MessageIndexEnds, CompactionPassBegins, MessageRead,
             CompactionPassEnds, Commit, GoOffline, GoOnline, ScheduleInitialSweep,
             mailVars, trackVars
      <4>. QED BY <4>1
    <3>. QED BY <3>1, <3>2, <3>3, <3>4
  <2>. QED BY <1>1, <1>3, <1>4, <2>1, <2>2 DEF HeadersFit, Without
<1>. QED BY <1>5, <1>6, <1>7, <1>8, <1>9

-----------------------------------------------------------------------------
(* Filthy folders: nobody works on their messages, and the database knows.  *)

InPass(f) == job.type = "folder" /\ job.folder = f /\ job.stage = "pass"

FilthyFits ==
  \A m \in Message : Filthy(Home(m)) =>
    /\ \A e \in Events : e.m # m
    /\ job.at # m /\ ~InPass(Home(m))
    /\ disk.dirty[Home(m)] = "filthy"

(* How a message comes into hand, and a folder to its pass.                *)
LEMMA JobTurns ==
  ASSUME IndexerInv, Next
  PROVE  /\ \A m \in Message : job'.at = m =>
              \/ job.at = m
              \/ FolderIndexVisits /\ m \in job.left /\ InPass(Home(m))
              \/ MessageIndexVisits /\ \E e \in Events : e.m = m
         /\ job'.type = "folder" /\ job'.stage = "pass" =>
              /\ job'.folder = job.folder
              /\ FolderIndexBegins \/ InPass(job.folder)
<1>1. /\ job \in Job /\ Types /\ NoMessage \notin Message
      /\ NoJob.at = NoMessage /\ NoJob.stage = "new"
  BY GlodaAssumption DEF IndexerInv, Types, WorkTypes, NoJob, GlodaAssumption
<1>2. CASE Hire
  <2>1. job' \in Waiting
    BY <1>1, <1>2, HireMoves
  <2>. QED BY <1>1, <2>1 DEF Waiting, NotBegun
<1>3. CASE FolderIndexBegins
  <2>1. PICK d : job' = [job EXCEPT !.stage = "pass", !.left = d]
    BY <1>3 DEF FolderIndexBegins
  <2>. QED BY <1>1, <1>3, <2>1 DEF Job
<1>4. CASE FolderIndexVisits
  <2>1. job.type = "folder" /\ job.stage = "pass" /\ job.at = NoMessage
    BY <1>4 DEF FolderIndexVisits
  <2>2. PICK m \in job.left, rest \in SUBSET job.left :
          job' = [job EXCEPT !.at = m, !.left = rest]
    BY <1>4 DEF FolderIndexVisits
  <2>3. job.left \subseteq Delivered(job.folder)
    BY <2>1 DEF IndexerInv, WorkerFits, JobFits
  <2>4. job'.at = m /\ job'.type = job.type /\ job'.folder = job.folder
    BY <1>1, <2>2 DEF Job
  <2>5. InPass(Home(m))
    BY <2>1, <2>2, <2>3 DEF Delivered, InPass
  <2>. QED BY <1>4, <2>1, <2>2, <2>4, <2>5 DEF InPass
<1>5. CASE MessageIndexVisits
  <2>1. /\ Head(job.items) \in Events /\ job'.type = "message"
        /\ job'.at = NoMessage \/ job'.at = Head(job.items).m
    BY <1>1, <1>5, VisitTakesEvent
  <2>. QED BY <1>1, <1>5, <2>1
<1>6. CASE IndexMessage
  <2>1. job' = [job EXCEPT !.at = NoMessage, !.read = 0]
    BY <1>6 DEF IndexMessage
  <2>. QED BY <1>1, <2>1 DEF Job, InPass
<1>7. CASE MessageRead
  <2>1. job' = job \/ \E v : job' = [job EXCEPT !.read = v]
    BY <1>7 DEF MessageRead
  <2>. QED BY <1>1, <2>1 DEF Job, InPass
<1>8. CASE CompactionPassMatches \/ CompactionPassBegins
  <2>1. job' = NoJob \/ \E s \in {"match", "flushed"} : job' = [job EXCEPT !.stage = s]
    BY <1>8 DEF CompactionPassMatches, CompactionPassBegins, JobEnds
  <2>. QED BY <1>1, <2>1 DEF Job, InPass
<1>9. CASE \/ FolderIndexEnds \/ MessageIndexEnds \/ CompactionPassEnds \/ Quit \/ Crash
           \/ \E f \in Folder : FolderCompactStart(f) \/ FolderCompactFinish(f)
  <2>1. job' \in {job, NoJob}
    BY <1>9 DEF FolderIndexEnds, MessageIndexEnds, CompactionPassEnds, Quit, Crash,
         NewSession, FolderCompactStart, FolderCompactFinish, KillIfIn, JobEnds
  <2>. QED BY <1>1, <2>1 DEF InPass
<1>10. CASE \/ NothingToHire \/ IndexingSweep \/ CommitDone \/ Commit \/ IdleCommit
            \/ IdleCommitDone \/ GoOffline \/ GoOnline \/ ScheduleInitialSweep
            \/ \E m \in Message : Change(m)
  <2>1. job' = job
    BY <1>10 DEF NothingToHire, IndexingSweep, CommitDone, Commit, IdleCommit,
         IdleCommitDone, GoOffline, GoOnline, ScheduleInitialSweep, Change, jobVars
  <2>. QED BY <2>1 DEF InPass
<1>. QED
  BY <1>2, <1>3, <1>4, <1>5, <1>6, <1>7, <1>8, <1>9, <1>10 DEF Next, DriverTurn, Callback

LEMMA DiskNext ==
  ASSUME IndexerInv, Next
  PROVE  disk' = disk \/ disk' = Snapshot \/ disk' = Snapshot'
<1>1. CASE \/ NothingToHire \/ Commit \/ IdleCommit \/ Quit \/ Crash
           \/ \E m \in Message : Change(m)
  BY <1>1 DEF NothingToHire, Commit, IdleCommit, Quit, Crash, Change, Persist
<1>2. CASE \E f \in Folder : FolderCompactStart(f) \/ FolderCompactFinish(f)
  <2>1. disk' = disk \/ Persist
    BY <1>2 DEF FolderCompactStart, FolderCompactFinish
  <2>. QED BY <2>1 DEF Persist
<1>3. CASE \/ Hire \/ IndexingSweep \/ FolderIndexBegins \/ FolderIndexVisits
           \/ FolderIndexEnds \/ MessageIndexVisits \/ MessageIndexEnds
           \/ IndexMessage \/ CompactionPassBegins \/ CompactionPassMatches
           \/ MessageRead \/ CompactionPassEnds \/ CommitDone
           \/ IdleCommitDone \/ GoOffline \/ GoOnline \/ ScheduleInitialSweep
  BY <1>3 DEF Hire, IndexingSweep, FolderIndexBegins, FolderIndexVisits,
       FolderIndexEnds, MessageIndexVisits, MessageIndexEnds, IndexMessage,
       CompactionPassBegins, CompactionPassMatches, MessageRead, CompactionPassEnds,
       CommitDone, IdleCommitDone, GoOffline, GoOnline, ScheduleInitialSweep, dbVars
<1>. QED BY <1>1, <1>2, <1>3 DEF Next, DriverTurn, Callback

LEMMA FilthyHasNoEvents ==
  ASSUME IndexerInv, NEW m \in Message, Filthy(Home(m)), \A e \in Events : e.m # m, Next
  PROVE  \A e \in Events' : e.m # m
<1>1. CASE Events' \subseteq Events
  BY <1>1
<1>2. CASE \E n \in Message : Change(n) /\ Events' \subseteq Events \cup {Noted(n)}
  <2>1. PICK n \in Message : Change(n) /\ Events' \subseteq Events \cup {Noted(n)}
    BY <1>2
  <2>2. CASE n = m
    <3>1. queue' = queue /\ job' = job
      BY <2>1, <2>2 DEF Change, ReindexChangedMessage, Filthy
    <3>. QED BY <3>1, EventsUnmoved
  <2>3. CASE n # m
    BY <2>1, <2>3 DEF Noted
  <2>. QED BY <2>2, <2>3
<1>. QED BY <1>1, <1>2, EventsNext DEF IndexerInv

LEMMA FilthyFoldersStay ==
  ASSUME IndexerInv, FilthyFits, Next
  PROVE  FilthyFits'
<1>1. MailGoesOn /\ Types
  BY IndexerStep DEF IndexerInv
<1>. SUFFICES ASSUME NEW m \in Message, Filthy(Home(m))'
              PROVE  /\ \A e \in Events' : e.m # m
                     /\ job'.at # m /\ ~InPass(Home(m))'
                     /\ disk'.dirty[Home(m)] = "filthy"
  BY <1>1, ThereStays DEF FilthyFits
<1>2. Home(m)' = Home(m) /\ Home(m) \in Folder
  BY <1>1, ThereStays, CaseType DEF Types, OtherTypes
<1>3. fld'[Home(m)].dirty = "filthy"
  BY <1>2 DEF Filthy
<1>4. CASE Crash
  <2>1. /\ queue' = <<>> /\ job' = NoJob /\ disk' = disk
        /\ fld'[Home(m)].dirty = disk.dirty[Home(m)]
    BY <1>2, <1>4 DEF Crash, NewSession, JobEnds
  <2>2. EventsOf(NoJob) = {} /\ Elements(queue') = {}
    BY <2>1, NewJobs, NoElements
  <2>3. Events' = {}
    BY <2>1, <2>2 DEF Events, EventsIn
  <2>4. job'.at # m /\ job'.type # "folder"
    BY <2>1, GlodaAssumption DEF NoJob, GlodaAssumption
  <2>. QED BY <1>3, <2>1, <2>3, <2>4 DEF InPass
<1>5. CASE ~Crash
  <2>1. Filthy(Home(m))
    <3>1. Filthy(Home(m))' = (fld'[Home(m)].dirty = "filthy")
      BY <1>2 DEF Filthy
    <3>. QED BY <1>2, <1>3, <1>5, FilthyNext DEF Filthy
  <2>2. /\ \A e \in Events : e.m # m
        /\ job.at # m /\ ~InPass(Home(m)) /\ disk.dirty[Home(m)] = "filthy"
    BY <2>1 DEF FilthyFits
  <2>3. \A e \in Events' : e.m # m
    BY <2>1, <2>2, FilthyHasNoEvents
  <2>4. job'.at # m
    BY <2>2, JobTurns
  <2>5. ~InPass(Home(m))'
    <3>. SUFFICES ASSUME InPass(Home(m))' PROVE FALSE
      OBVIOUS
    <3>1. job'.type = "folder" /\ job'.stage = "pass" /\ job'.folder = Home(m)
      BY <1>2 DEF InPass
    <3>2. FolderIndexBegins /\ job.folder = Home(m)
      BY <2>2, <3>1, JobTurns
    <3>3. fld'[Home(m)].dirty = "dirty"
      BY <1>1, <1>2, <2>1, <3>2 DEF FolderIndexBegins, Filthy, Types, DbTypes, FolderStatus
    <3>. QED BY <1>3, <3>3
  <2>6. disk'.dirty[Home(m)] = "filthy"
    <3>1. Snapshot.dirty[Home(m)] = "filthy" /\ Snapshot'.dirty[Home(m)] = "filthy"
      BY <1>2, <1>3, <2>1 DEF Snapshot, Filthy
    <3>. QED BY <2>2, <3>1, DiskNext
  <2>. QED BY <2>3, <2>4, <2>5, <2>6
<1>. QED BY <1>4, <1>5

-----------------------------------------------------------------------------
(* Where no folder is compacted: keys stay, and the tracker's maps agree.   *)

NeverCompacted ==
  /\ driver.wait # "fetch"
  /\ \A f \in Folder : /\ ~fld[f].compacting /\ ~fld[f].compacted
                       /\ ~disk.compacted[f]
  /\ \A m \in Message : msg[m].key = 0
  /\ \A e \in Events : e.key = 0

TrackerFits ==
  \A m \in Message :
    /\ pending[m].byKey = pending[m].byId
    /\ pending[m].byKey => /\ pending[m].dirty = "dirty" => hdr[m].dirty # "clean"
                           /\ ~Filthy(Home(m))

PlainMail == Without({"compact"}) => NeverCompacted /\ TrackerFits

(* A change of a message marks what the indexer believes of it.            *)
LEMMA ChangeWrites ==
  ASSUME Types, NEW m \in Message, Change(m)
  PROVE  /\ \A n \in Message : n # m =>
              hdr'[n] = hdr[n] /\ pending'[n] = pending[n] /\ msg'[n] = msg[n]
         /\ msg'[m].version = msg[m].version + 1 /\ msg'[m].key = msg[m].key
         /\ hdr'[m].id = hdr[m].id
         /\ pending'[m].byKey = pending[m].byKey /\ pending'[m].byId = pending[m].byId
         /\ hdr'[m].dirty = hdr[m].dirty \/ hdr'[m].dirty = "dirty"
         /\ pending'[m].dirty = pending[m].dirty \/ pending'[m].dirty = "dirty"
         /\ Filthy(Home(m)) => hdr' = hdr /\ pending' = pending
         /\ ~Filthy(Home(m)) /\ pending[m].byKey =>
              /\ pending'[m].dirty = "dirty"
              /\ pending[m].dirty = "clean" => hdr'[m].dirty = "dirty"
              /\ pending[m].dirty = "dirty" => hdr'[m] = hdr[m]
         /\ ~Filthy(Home(m)) /\ ~pending[m].byKey =>
              /\ pending'[m] = pending[m]
              /\ hdr[m].id /\ hdr[m].dirty = "clean" => hdr'[m].dirty = "dirty"
<1>1. /\ msg \in [Message -> MailRecord] /\ hdr \in [Message -> Header]
      /\ pending \in [Message -> Tracked]
  BY DEF Types, MailTypes
<1>2. /\ \A n \in Message : n # m => msg'[n] = msg[n]
      /\ msg'[m].version = msg[m].version + 1 /\ msg'[m].key = msg[m].key
  BY <1>1 DEF Change, MailRecord
<1>3. CASE Filthy(Home(m))
  <2>1. hdr' = hdr /\ pending' = pending
    BY <1>3 DEF Change, ReindexChangedMessage, Filthy, trackVars
  <2>. QED BY <1>2, <1>3, <2>1
<1>4. CASE ~Filthy(Home(m)) /\ pending[m].byKey
  <2>1. GlodaState(m) = [id |-> TRUE, dirty |-> pending[m].dirty]
    BY <1>4 DEF GlodaState
  <2>2. pending[m].dirty \in {"clean", "dirty"}
    BY <1>1 DEF Tracked
  <2>3. /\ pending' = [pending EXCEPT ![m].dirty = "dirty"]
        /\ hdr' = IF pending[m].dirty = "clean" THEN [hdr EXCEPT ![m].dirty = "dirty"]
                  ELSE hdr
    BY <1>4, <2>1, <2>2 DEF Change, ReindexChangedMessage, Filthy
  <2>. QED BY <1>1, <1>2, <1>4, <2>2, <2>3 DEF Header, Tracked
<1>5. CASE ~Filthy(Home(m)) /\ ~pending[m].byKey
  <2>1. GlodaState(m) = hdr[m]
    BY <1>5 DEF GlodaState
  <2>2. /\ pending' = pending
        /\ hdr' = IF hdr[m].id /\ hdr[m].dirty = "clean"
                  THEN [hdr EXCEPT ![m].dirty = "dirty"] ELSE hdr
    BY <1>5, <2>1 DEF Change, ReindexChangedMessage, Filthy
  <2>. QED BY <1>1, <1>2, <1>5, <2>2 DEF Header, Tracked
<1>. QED BY <1>3, <1>4, <1>5

LEMMA NothingIsCompacted ==
  ASSUME IndexerInv, Without({"compact"}), NeverCompacted
  PROVE  /\ ~CompactionPassMatches /\ ~CompactionPassEnds
         /\ \A f \in Folder : ~FolderCompactStart(f) /\ ~FolderCompactFinish(f)
BY DEF Without, NeverCompacted, CompactionPassMatches, CompactionPassEnds,
     CalledBack, FolderCompactStart, FolderCompactFinish, Has

LEMMA NeverCompactedStays ==
  ASSUME IndexerInv, Without({"compact"}), NeverCompacted, Next
  PROVE  NeverCompacted'
<1>1. /\ Types /\ fld \in [Folder -> FolderStatus] /\ msg \in [Message -> MailRecord]
      /\ driver \in Driver /\ Steady(driver) /\ Types'
  BY IndexerStep DEF IndexerInv, Types, MailTypes, DbTypes, WorkTypes
<1>2. driver'.wait # "fetch"
  <2>1. CASE \/ Hire \/ IndexingSweep \/ FolderIndexBegins \/ FolderIndexVisits
             \/ FolderIndexEnds \/ MessageIndexVisits \/ MessageIndexEnds
             \/ IndexMessage \/ Commit \/ CompactionPassBegins
    <3>1. job.type = "compact" => job.folder \in Folder
      BY DEF IndexerInv, WorkerFits, JobFits
    <3>2. Pause \/ WaitFor("index") \/ WaitFor("commit")
      BY <2>1, <3>1 DEF Hire, IndexingSweep, FolderIndexBegins, FolderIndexVisits,
           FolderIndexEnds, MessageIndexVisits, MessageIndexEnds, IndexMessage,
           Commit, CompactionPassBegins, NeverCompacted
    <3>. QED BY <1>1, <3>2, PauseIsSteady, WaitIsSteady
  <2>2. CASE NothingToHire \/ MessageRead \/ CommitDone \/ IdleCommit \/ IdleCommitDone
             \/ GoOffline \/ GoOnline
    BY <1>1, <2>2 DEF NothingToHire, InBatch, MessageRead, CommitDone, Paused,
         IdleCommit, IdleCommitDone, GoOffline, GoOnline, Driver, NeverCompacted
  <2>3. CASE ScheduleInitialSweep \/ \E m \in Message : Change(m)
    <3>1. driver' \in {driver, Kicked(driver)}
      BY <2>3 DEF ScheduleInitialSweep, Change, ReindexChangedMessage
    <3>. QED BY <1>1, <3>1, KickIsSteady DEF NeverCompacted
  <2>4. CASE Quit \/ Crash
    BY <2>4 DEF Quit, Crash, NewSession, StartedDriver
  <2>. QED
    BY <2>1, <2>2, <2>3, <2>4, NothingIsCompacted DEF Next, DriverTurn, Callback
<1>3. \A f \in Folder : ~fld'[f].compacting /\ ~fld'[f].compacted
  <2>1. CASE FolderIndexBegins \/ FolderIndexEnds \/ \E m \in Message : Change(m)
    <3>1. \A m \in Message : Home(m) \in Folder
      BY <1>1, CaseType DEF Types, OtherTypes
    <3>2. job.type = "folder" => job.folder \in Folder
      BY DEF IndexerInv, WorkerFits, JobFits
    <3>3. \/ fld' = fld
          \/ \E f \in Folder, d \in Dirty : fld' = [fld EXCEPT ![f].dirty = d]
          \/ \E f \in Folder :
               fld' = [fld EXCEPT ![f].dirty = IF @ = "clean" THEN "dirty" ELSE @]
      BY <2>1, <3>1, <3>2 DEF FolderIndexBegins, FolderIndexEnds, Change,
           ReindexChangedMessage, Dirty
    <3>. QED BY <1>1, <3>3 DEF NeverCompacted, FolderStatus
  <2>2. CASE Quit \/ Crash
    BY <1>1, <2>2 DEF Quit, Crash, NeverCompacted, FolderStatus
  <2>3. CASE ~(FolderIndexBegins \/ FolderIndexEnds \/ Quit \/ Crash)
             /\ ~ \E m \in Message : Change(m)
    <3>1. fld' = fld
      BY <2>3, NothingIsCompacted DEF Next, DriverTurn, Callback, Hire, NothingToHire,
           IndexingSweep, FolderIndexVisits, MessageIndexVisits, MessageIndexEnds,
           IndexMessage, CompactionPassBegins, MessageRead, CommitDone, Commit,
           IdleCommit, IdleCommitDone, GoOffline, GoOnline, ScheduleInitialSweep,
           dbVars
    <3>. QED BY <3>1 DEF NeverCompacted
  <2>. QED BY <2>1, <2>2, <2>3
<1>4. \A f \in Folder : ~disk'.compacted[f]
  <2>1. \A f \in Folder : ~Snapshot.compacted[f] /\ ~Snapshot'.compacted[f]
    BY <1>3 DEF Snapshot, NeverCompacted
  <2>. QED BY <2>1, DiskNext DEF NeverCompacted
<1>5. \A m \in Message : msg'[m].key = 0
  <2>1. CASE \E m \in Message : Change(m)
    <3>1. PICK n \in Message : Change(n)
      BY <2>1
    <3>2. \A m \in Message : msg'[m].key = msg[m].key
      BY <1>1, <3>1, ChangeWrites
    <3>. QED BY <3>2 DEF NeverCompacted
  <2>2. CASE ~ \E m \in Message : Change(m)
    <3>1. msg' = msg
      BY <2>2, NothingIsCompacted DEF Next, DriverTurn, Callback, Hire, NothingToHire,
           IndexingSweep, FolderIndexBegins, FolderIndexVisits, FolderIndexEnds,
           MessageIndexVisits, MessageIndexEnds, IndexMessage, CompactionPassBegins,
           MessageRead, CommitDone, Commit, IdleCommit, IdleCommitDone, GoOffline,
           GoOnline, ScheduleInitialSweep, Quit, Crash, NewSession, mailVars
    <3>. QED BY <3>1 DEF NeverCompacted
  <2>. QED BY <2>1, <2>2
<1>6. \A e \in Events' : e.key = 0
  BY <1>1, EventsNext DEF NeverCompacted, Noted
<1>. QED BY <1>2, <1>3, <1>4, <1>5, <1>6 DEF NeverCompacted

(* The ways in which what is known of a message changes.                   *)
LEMMA TrackerNext ==
  ASSUME IndexerInv, Without({"compact"}), NeverCompacted, Next, NEW m \in Message
  PROVE  \/ hdr'[m] = hdr[m] /\ pending'[m] = pending[m] /\ ~Crash
            /\ rows'[m] = rows[m] /\ msg'[m] = msg[m]
         \/ Change(m) /\ rows'[m] = rows[m]
         \/ /\ IndexMessage /\ m = job.at /\ msg'[m] = msg[m] /\ hdr'[m] = hdr[m]
            /\ pending'[m] = [byKey |-> TRUE, byId |-> TRUE, dirty |-> "clean"]
         \/ /\ CommitDone \/ IdleCommit \/ IdleCommitDone
            /\ rows'[m] = rows[m] /\ msg'[m] = msg[m] /\ pending'[m] = NotTracked
            /\ \/ ~pending[m].byId /\ hdr'[m] = hdr[m]
               \/ pending[m].byId /\ hdr'[m] = [id |-> TRUE, dirty |-> pending[m].dirty]
         \/ /\ FolderIndexBegins /\ rows'[m] = rows[m] /\ msg'[m] = msg[m]
            /\ pending'[m] = pending[m]
            /\ hdr[m].id /\ hdr'[m].id /\ hdr'[m].dirty = "filthy"
         \/ /\ Quit \/ Crash
            /\ hdr'[m] = hdr[m] /\ pending'[m] = NotTracked /\ msg'[m] = msg[m]
            /\ rows'[m] = rows[m] \/ (Crash /\ rows'[m] = disk.rows[m])
<1>1. /\ Types /\ hdr \in [Message -> Header] /\ pending \in [Message -> Tracked]
      /\ \A n \in Message : Home(n) \in Folder
  BY CaseType DEF IndexerInv, Types, MailTypes, OtherTypes
<1>2. CASE \E n \in Message : Change(n)
  <2>1. PICK n \in Message : Change(n)
    BY <1>2
  <2>2. rows' = rows /\ job' = job
    BY <2>1 DEF Change
  <2>3. n # m => hdr'[m] = hdr[m] /\ pending'[m] = pending[m] /\ msg'[m] = msg[m]
    BY <1>1, <2>1, ChangeWrites
  <2>4. Crash => Quit \/ Crash
    OBVIOUS
  <2>5. CASE Crash
    BY <2>1, <2>2, <2>5 DEF Crash, NewSession, mailVars
  <2>. QED BY <2>1, <2>2, <2>3, <2>5
<1>3. CASE IndexMessage
  <2>1. msg' = msg /\ hdr' = hdr /\ Runs /\ driver' # StartedDriver
    BY <1>3 DEF IndexMessage, mailVars, Pause, Paused, InBatch, StartedDriver
  <2>2. ~Crash
    BY <2>1 DEF Crash, NewSession
  <2>3. m = job.at => pending'[m] = [byKey |-> TRUE, byId |-> TRUE, dirty |-> "clean"]
    BY <1>3 DEF IndexMessage, Track
  <2>4. m # job.at => pending'[m] = pending[m] /\ rows'[m] = rows[m]
    BY <1>3, HandIsRead DEF IndexMessage, Track
  <2>. QED BY <1>3, <2>1, <2>2, <2>3, <2>4
<1>4. CASE CommitDone \/ IdleCommit \/ IdleCommitDone
  <2>1. rows' = rows /\ msg' = msg
    BY <1>4 DEF CommitDone, IdleCommit, IdleCommitDone, dbVars
  <2>2. Flush \/ UNCHANGED <<hdr, pending>>
    BY <1>4 DEF CommitDone, IdleCommit, IdleCommitDone, RunPostCommit, trackVars
  <2>3. CASE Flush
    <3>1. ~fld[Home(m)].compacting
      BY <1>1 DEF NeverCompacted
    <3>. QED BY <1>1, <1>4, <2>1, <2>3, <3>1, FlushWrites
  <2>4. CASE UNCHANGED <<hdr, pending>> /\ ~Crash
    BY <2>1, <2>4
  <2>5. CASE UNCHANGED <<hdr, pending>> /\ Crash
    BY <2>1, <2>5 DEF Crash, NewSession
  <2>. QED BY <2>2, <2>3, <2>4, <2>5
<1>5. CASE FolderIndexBegins
  <2>1. /\ rows' = rows /\ msg' = msg /\ pending' = pending
        /\ driver' # StartedDriver
    BY <1>5 DEF FolderIndexBegins, trackVars, Pause, Paused, InBatch, StartedDriver
  <2>2. ~Crash
    BY <2>1 DEF Crash, NewSession
  <2>3. \/ hdr'[m] = hdr[m]
        \/ hdr[m].id /\ hdr'[m] = [hdr[m] EXCEPT !.dirty = "filthy"]
    BY <1>5 DEF FolderIndexBegins
  <2>4. [hdr[m] EXCEPT !.dirty = "filthy"].dirty = "filthy"
        /\ [hdr[m] EXCEPT !.dirty = "filthy"].id = hdr[m].id
    BY <1>1 DEF Header
  <2>. QED BY <1>5, <2>1, <2>2, <2>3, <2>4
<1>6. CASE Quit \/ Crash
  BY <1>6 DEF Quit, Crash, NewSession, mailVars
<1>7. CASE ~(IndexMessage \/ CommitDone \/ IdleCommit \/ IdleCommitDone)
           /\ ~(FolderIndexBegins \/ Quit \/ Crash \/ \E n \in Message : Change(n))
  <2>1. UNCHANGED <<rows, msg, hdr, pending>>
    BY <1>7, NothingIsCompacted DEF Next, DriverTurn, Callback, Hire, NothingToHire,
         IndexingSweep, FolderIndexVisits, FolderIndexEnds, MessageIndexVisits,
         MessageIndexEnds, CompactionPassBegins, MessageRead, Commit, GoOffline,
         GoOnline, ScheduleInitialSweep, mailVars, trackVars, dbVars
  <2>. QED BY <1>7, <2>1
<1>. QED BY <1>2, <1>3, <1>4, <1>5, <1>6, <1>7

LEMMA TrackerStays ==
  ASSUME IndexerInv, FilthyFits, Without({"compact"}), NeverCompacted, TrackerFits, Next
  PROVE  TrackerFits'
<1>1. MailGoesOn /\ Types
  BY IndexerStep DEF IndexerInv
<1>. SUFFICES ASSUME NEW m \in Message
              PROVE  /\ pending'[m].byKey = pending'[m].byId
                     /\ pending'[m].byKey =>
                          /\ pending'[m].dirty = "dirty" => hdr'[m].dirty # "clean"
                          /\ ~Filthy(Home(m))'
  BY DEF TrackerFits
<1>2. /\ Home(m)' = Home(m) /\ Home(m) \in Folder /\ pending[m] \in Tracked
  BY <1>1, ThereStays, CaseType DEF Types, OtherTypes, MailTypes
<1>3. ~Crash => (Filthy(Home(m))' => Filthy(Home(m)))
  <2>1. Filthy(Home(m))' = (fld'[Home(m)].dirty = "filthy")
    BY <1>2 DEF Filthy
  <2>. QED BY <1>2, <2>1, FilthyNext DEF Filthy
<1>4. /\ pending[m].byKey = pending[m].byId
      /\ pending[m].byKey => /\ pending[m].dirty = "dirty" => hdr[m].dirty # "clean"
                             /\ ~Filthy(Home(m))
  BY DEF TrackerFits
<1>5. CASE pending'[m] = NotTracked
  BY <1>5 DEF NotTracked
<1>6. CASE pending'[m] = pending[m] /\ hdr'[m] = hdr[m] /\ ~Crash
  BY <1>3, <1>4, <1>6
<1>7. CASE Change(m)
  <2>1. ~Crash
    <3>1. msg'[m].version = msg[m].version + 1 /\ msg[m].version \in Nat
      BY <1>1, <1>7, ChangeWrites, ThereStays
    <3>. QED BY <3>1 DEF Crash, NewSession, mailVars
  <2>2. /\ pending'[m].byKey = pending[m].byKey /\ pending'[m].byId = pending[m].byId
        /\ ~Filthy(Home(m)) /\ pending[m].byKey =>
              /\ pending[m].dirty = "clean" => hdr'[m].dirty = "dirty"
              /\ pending[m].dirty = "dirty" => hdr'[m] = hdr[m]
    BY <1>1, <1>7, ChangeWrites
  <2>3. pending[m].dirty \in {"clean", "dirty"}
    BY <1>2 DEF Tracked
  <2>. QED BY <1>3, <1>4, <2>1, <2>2, <2>3
<1>8. CASE IndexMessage /\ m = job.at
           /\ pending'[m] = [byKey |-> TRUE, byId |-> TRUE, dirty |-> "clean"]
  <2>1. ~Filthy(Home(m))
    BY <1>8 DEF FilthyFits
  <2>2. ~Crash
    BY <1>8 DEF IndexMessage, Crash, NewSession, Pause, Paused, InBatch, StartedDriver
  <2>. QED BY <1>3, <1>8, <2>1, <2>2
<1>9. CASE FolderIndexBegins /\ pending'[m] = pending[m] /\ hdr'[m].dirty = "filthy"
  <2>1. ~Crash
    BY <1>9 DEF FolderIndexBegins, Crash, NewSession, Pause, Paused, InBatch, StartedDriver
  <2>. QED BY <1>3, <1>4, <1>9, <2>1
<1>. QED BY <1>5, <1>6, <1>7, <1>8, <1>9, TrackerNext

-----------------------------------------------------------------------------
(* What a clean header says.                                               *)

HandIsCurrent == job.read > 0 => job.read = msg[job.at].version

CleanFits ==
  \A m \in Message :
    /\ disk.dirty[Home(m)] = "filthy" => ~hdr[m].id
    /\ pending[m].byId /\ pending[m].dirty = "clean" => rows[m].version = msg[m].version
    /\ hdr[m].id /\ hdr[m].dirty = "clean" =>
         rows[m].version = msg[m].version /\ disk.rows[m].version = msg[m].version

CleanMail == Without({"inHand", "compact", "idleRace"}) => HandIsCurrent /\ CleanFits

(* Only a stream that ends reads the message in hand.                      *)
LEMMA ReadTurns ==
  ASSUME IndexerInv, Next, job'.read > 0
  PROVE  /\ job'.at = job.at /\ job.at \in Message
         /\ \/ job'.read = job.read /\ job.read > 0
            \/ MessageRead /\ job'.read = msg[job.at].version
<1>1. /\ job \in Job /\ Types /\ NoJob.read = 0
  BY DEF IndexerInv, Types, WorkTypes, NoJob
<1>2. /\ job.read \in Nat /\ (job.read > 0 => job.at # NoMessage)
      /\ job.at # NoMessage => job.at \in Message
  BY <1>1, GlodaAssumption DEF Job, Version, GlodaAssumption, IndexerInv, WorkerFits, HandFits
<1>3. CASE Hire
  <2>1. job' \in Waiting
    BY <1>1, <1>3, HireMoves
  <2>. QED BY <2>1 DEF Waiting, NotBegun
<1>4. CASE FolderIndexBegins
  <2>1. PICK d : job' = [job EXCEPT !.stage = "pass", !.left = d]
    BY <1>4 DEF FolderIndexBegins
  <2>. QED BY <1>1, <1>2, <2>1 DEF Job
<1>5. CASE FolderIndexVisits
  <2>1. PICK m \in job.left, rest \in SUBSET job.left :
          job' = [job EXCEPT !.at = m, !.left = rest]
    BY <1>5 DEF FolderIndexVisits
  <2>2. job.at = NoMessage /\ job'.read = job.read
    BY <1>1, <1>5, <2>1 DEF FolderIndexVisits, Job
  <2>. QED BY <1>2, <2>2
<1>6. CASE MessageIndexVisits
  <2>1. job.at = NoMessage /\ job'.read = job.read
    BY <1>1, <1>6, VisitTakesEvent DEF MessageIndexVisits
  <2>. QED BY <1>2, <2>1
<1>7. CASE IndexMessage
  BY <1>1, <1>7 DEF IndexMessage, Job
<1>8. CASE MessageRead
  <2>1. CASE job.at = NoMessage
    BY <1>2, <1>8, <2>1 DEF MessageRead
  <2>2. CASE job.at # NoMessage
    <3>1. PICK v : v = msg[job.at].version /\ job' = [job EXCEPT !.read = v]
      BY <1>8, <2>2 DEF MessageRead
    <3>2. job'.read = v /\ job'.at = job.at
      BY <1>1, <3>1 DEF Job
    <3>. QED BY <1>2, <1>8, <2>2, <3>1, <3>2
  <2>. QED BY <2>1, <2>2
<1>9. CASE CompactionPassMatches \/ CompactionPassBegins
  <2>1. job' = NoJob \/ \E s \in {"match", "flushed"} : job' = [job EXCEPT !.stage = s]
    BY <1>9 DEF CompactionPassMatches, CompactionPassBegins, JobEnds
  <2>. QED BY <1>1, <1>2, <2>1 DEF Job
<1>10. CASE \/ FolderIndexEnds \/ MessageIndexEnds \/ CompactionPassEnds \/ Quit
            \/ Crash \/ \E f \in Folder : FolderCompactStart(f) \/ FolderCompactFinish(f)
  <2>1. job' \in {job, NoJob}
    BY <1>10 DEF FolderIndexEnds, MessageIndexEnds, CompactionPassEnds, Quit, Crash,
         NewSession, FolderCompactStart, FolderCompactFinish, KillIfIn, JobEnds
  <2>. QED BY <1>1, <1>2, <2>1
<1>11. CASE \/ NothingToHire \/ IndexingSweep \/ CommitDone \/ Commit \/ IdleCommit
            \/ IdleCommitDone \/ GoOffline \/ GoOnline \/ ScheduleInitialSweep
            \/ \E m \in Message : Change(m)
  <2>1. job' = job
    BY <1>11 DEF NothingToHire, IndexingSweep, CommitDone, Commit, IdleCommit,
         IdleCommitDone, GoOffline, GoOnline, ScheduleInitialSweep, Change, jobVars
  <2>. QED BY <1>2, <2>1
<1>. QED
  BY <1>3, <1>4, <1>5, <1>6, <1>7, <1>8, <1>9, <1>10, <1>11
    DEF Next, DriverTurn, Callback

LEMMA HandStaysCurrent ==
  ASSUME IndexerInv, Without({"inHand"}), Without({"compact"}), NeverCompacted,
         HandIsCurrent, Next
  PROVE  HandIsCurrent'
<1>. SUFFICES ASSUME job'.read > 0 PROVE job'.read = msg'[job'.at].version
  BY DEF HandIsCurrent
<1>1. PICK m \in Message : m = job.at /\ job'.at = m
  BY ReadTurns
<1>2. CASE MessageRead /\ job'.read = msg[job.at].version
  BY <1>1, <1>2 DEF MessageRead, mailVars
<1>3. CASE job'.read = job.read /\ job.read > 0
  <2>1. ~Change(m)
    BY <1>1, <1>3 DEF Change, Has, Without
  <2>2. msg'[m] = msg[m]
    BY <2>1, TrackerNext
  <2>. QED BY <1>1, <1>3, <2>2 DEF HandIsCurrent
<1>. QED BY <1>2, <1>3, ReadTurns

LEMMA DiskStaysFilthy ==
  ASSUME IndexerInv, FilthyFits, Next, NEW m \in Message,
         disk'.dirty[Home(m)] = "filthy"
  PROVE  disk.dirty[Home(m)] = "filthy"
<1>1. Home(m) \in Folder
  BY CaseType DEF IndexerInv, Types, OtherTypes
<1>2. Home(m)' = Home(m)
  BY IndexerStep, ThereStays DEF IndexerInv
<1>3. CASE disk' = disk
  BY <1>3
<1>4. CASE disk' = Snapshot
  <2>1. Filthy(Home(m))
    BY <1>1, <1>4 DEF Snapshot, Filthy
  <2>. QED BY <2>1 DEF FilthyFits
<1>5. CASE disk' = Snapshot'
  <2>1. fld'[Home(m)].dirty = "filthy"
    BY <1>1, <1>5 DEF Snapshot
  <2>2. Filthy(Home(m))' = (fld'[Home(m)].dirty = "filthy")
    BY <1>2 DEF Filthy
  <2>3. Filthy(Home(m)) \/ disk.dirty[Home(m)] = "filthy"
    BY <1>1, <2>1, <2>2, FilthyNext DEF Filthy
  <2>. QED BY <2>3 DEF FilthyFits
<1>. QED BY <1>3, <1>4, <1>5, DiskNext

LEMMA CleanStays ==
  ASSUME IndexerInv, CommitFits, HeadersFit, FilthyFits,
         Without({"idleRace"}), Without({"compact"}), NeverCompacted, TrackerFits,
         HandIsCurrent, CleanFits, Next
  PROVE  CleanFits'
<1>1. MailGoesOn /\ Types
  BY IndexerStep DEF IndexerInv
<1>. SUFFICES ASSUME NEW m \in Message
              PROVE  /\ disk'.dirty[Home(m)] = "filthy" => ~hdr'[m].id
                     /\ pending'[m].byId /\ pending'[m].dirty = "clean"
                          => rows'[m].version = msg'[m].version
                     /\ hdr'[m].id /\ hdr'[m].dirty = "clean" =>
                          /\ rows'[m].version = msg'[m].version
                          /\ disk'.rows[m].version = msg'[m].version
  BY <1>1, ThereStays DEF CleanFits
<1>2. /\ pending[m] \in Tracked /\ hdr[m] \in Header /\ Home(m) \in Folder
      /\ ~NotTracked.byId
  BY <1>1, CaseType DEF Types, MailTypes, OtherTypes, NotTracked
<1>3. /\ disk.dirty[Home(m)] = "filthy" => ~hdr[m].id
      /\ pending[m].byId /\ pending[m].dirty = "clean" => rows[m].version = msg[m].version
      /\ hdr[m].id /\ hdr[m].dirty = "clean" =>
           rows[m].version = msg[m].version /\ disk.rows[m].version = msg[m].version
  BY DEF CleanFits
<1>4. disk'.dirty[Home(m)] = "filthy" => disk.dirty[Home(m)] = "filthy"
  BY DiskStaysFilthy
<1>5. disk'.rows[m] \in {disk.rows[m], rows[m]}
  BY RowsChange
<1>6. CASE hdr'[m] = hdr[m] /\ pending'[m] = pending[m]
           /\ rows'[m] = rows[m] /\ msg'[m] = msg[m]
  BY <1>3, <1>4, <1>5, <1>6
<1>7. CASE Change(m)
  <2>1. /\ hdr'[m].id = hdr[m].id
        /\ hdr'[m].dirty = hdr[m].dirty \/ hdr'[m].dirty = "dirty"
        /\ pending'[m].byId = pending[m].byId
        /\ Filthy(Home(m)) => hdr' = hdr /\ pending' = pending
        /\ ~Filthy(Home(m)) /\ pending[m].byKey =>
             /\ pending'[m].dirty = "dirty"
             /\ pending[m].dirty = "clean" => hdr'[m].dirty = "dirty"
             /\ pending[m].dirty = "dirty" => hdr'[m] = hdr[m]
        /\ ~Filthy(Home(m)) /\ ~pending[m].byKey =>
             (hdr[m].id /\ hdr[m].dirty = "clean" => hdr'[m].dirty = "dirty")
    BY <1>1, <1>7, ChangeWrites
  <2>2. /\ Filthy(Home(m)) => ~hdr[m].id
        /\ pending[m].byKey = pending[m].byId
        /\ pending[m].byKey => ~Filthy(Home(m))
        /\ pending[m].byKey /\ pending[m].dirty = "dirty" => hdr[m].dirty # "clean"
        /\ pending[m].dirty \in {"clean", "dirty"}
    BY <1>2, <1>3 DEF FilthyFits, TrackerFits, Tracked
  <2>3. ~(hdr'[m].id /\ hdr'[m].dirty = "clean")
    BY <2>1, <2>2
  <2>4. ~(pending'[m].byId /\ pending'[m].dirty = "clean")
    BY <2>1, <2>2
  <2>. QED BY <1>3, <1>4, <2>1, <2>3, <2>4
<1>8. CASE IndexMessage /\ m = job.at /\ msg'[m] = msg[m] /\ hdr'[m] = hdr[m]
  <2>1. rows'[m].version = job.read /\ job.read > 0
    BY <1>8, HandIsRead
  <2>2. rows'[m].version = msg'[m].version
    BY <1>8, <2>1 DEF HandIsCurrent
  <2>3. disk' = disk
    BY <1>8 DEF IndexMessage
  <2>. QED BY <1>3, <1>8, <2>2, <2>3
<1>9. CASE /\ CommitDone \/ IdleCommit \/ IdleCommitDone
           /\ rows'[m] = rows[m] /\ msg'[m] = msg[m] /\ pending'[m] = NotTracked
           /\ \/ ~pending[m].byId /\ hdr'[m] = hdr[m]
              \/ pending[m].byId /\ hdr'[m] = [id |-> TRUE, dirty |-> pending[m].dirty]
  <2>1. disk'.rows = rows /\ (disk'.dirty[Home(m)] = "filthy" => Filthy(Home(m)))
    BY <1>2, <1>9, FlushFollowsCommit
  <2>2. Filthy(Home(m)) => ~pending[m].byId /\ ~hdr[m].id
    BY <1>3 DEF TrackerFits, FilthyFits
  <2>. QED BY <1>2, <1>3, <1>9, <2>1, <2>2
<1>10. CASE /\ FolderIndexBegins /\ rows'[m] = rows[m] /\ msg'[m] = msg[m]
            /\ pending'[m] = pending[m]
            /\ hdr[m].id /\ hdr'[m].id /\ hdr'[m].dirty = "filthy"
  BY <1>3, <1>4, <1>10
<1>11. CASE /\ Quit \/ Crash
            /\ hdr'[m] = hdr[m] /\ pending'[m] = NotTracked /\ msg'[m] = msg[m]
            /\ rows'[m] = rows[m] \/ (Crash /\ rows'[m] = disk.rows[m])
  <2>1. Crash => disk' = disk
    BY DEF Crash
  <2>. QED BY <1>2, <1>3, <1>4, <1>5, <1>11, <2>1
<1>. QED BY <1>6, <1>7, <1>8, <1>9, <1>10, <1>11, TrackerNext

-----------------------------------------------------------------------------
(* All of it.                                                              *)

MirrorInv ==
  /\ IndexerInv /\ RowsAreThere /\ KeysFit /\ CommitFits /\ HeadersFit
  /\ FilthyFits /\ PlainMail /\ CleanMail

LEMMA MirrorInit == Init => MirrorInv
<1>. SUFFICES ASSUME Init PROVE MirrorInv
  OBVIOUS
<1>1. IndexerInv /\ Types
  BY IndexerInit DEF IndexerInv
<1>2. /\ job = NoJob /\ queue = <<>> /\ driver = StartedDriver /\ ~idleCommit
      /\ rows = [m \in Message |-> NoRow] /\ disk = Snapshot
      /\ hdr = [m \in Message |-> [id |-> FALSE, dirty |-> "clean"]]
      /\ pending = [m \in Message |-> NotTracked]
  BY DEF Init
<1>3. Events = {}
  <2>1. EventsOf(job) = {} /\ Elements(queue) = {}
    BY <1>2, NewJobs, NoElements
  <2>. QED BY <2>1 DEF Events, EventsIn
<1>4. /\ job.at = NoMessage /\ job.type = "none" /\ job.read = 0 /\ job.stage = "new"
      /\ driver.wait = "none"
  BY <1>2 DEF NoJob, StartedDriver
<1>5. \A m \in Message :
        /\ rows[m].version = 0 /\ disk.rows[m].version = 0 /\ ~hdr[m].id
        /\ ~pending[m].byId /\ ~pending[m].byKey
        /\ pending[m].byKey = pending[m].byId
        /\ msg[m].key = 0 /\ m # NoMessage /\ Home(m) \in Folder
  <2>1. \A m \in Message : msg[m].key = 0
    BY DEF Init
  <2>2. \A m \in Message : m # NoMessage /\ Home(m) \in Folder
    BY <1>1, CaseType, GlodaAssumption DEF Types, OtherTypes, GlodaAssumption
  <2>. QED BY <1>2, <2>1, <2>2 DEF Snapshot, NoRow, NotTracked
<1>6. \A f \in Folder : /\ ~fld[f].compacting /\ ~fld[f].compacted
                        /\ ~disk.compacted[f] /\ disk.dirty[f] = fld[f].dirty
  BY <1>2 DEF Init, Snapshot
<1>7. RowsAreThere /\ KeysFit /\ CommitFits /\ HeadersFit
  BY <1>2, <1>4, <1>5 DEF RowsAreThere, KeysFit, CommitFits, HeadersFit, Committing
<1>8. FilthyFits
  BY <1>3, <1>4, <1>5, <1>6 DEF FilthyFits, InPass, Filthy
<1>9. NeverCompacted /\ TrackerFits
  BY <1>3, <1>4, <1>5, <1>6 DEF NeverCompacted, TrackerFits
<1>10. HandIsCurrent /\ CleanFits
  BY <1>4, <1>5 DEF HandIsCurrent, CleanFits
<1>. QED
  BY <1>1, <1>7, <1>8, <1>9, <1>10 DEF MirrorInv, PlainMail, CleanMail

LEMMA WithoutEach ==
  /\ Without({"inHand", "compact", "idleRace"}) <=>
       Without({"inHand"}) /\ Without({"compact"}) /\ Without({"idleRace"})
  /\ Without({"inHand", "compact"}) <=> Without({"inHand"}) /\ Without({"compact"})
  /\ Without({"overflow", "compact", "crash"}) <=>
       Without({"overflow"}) /\ Without({"compact"}) /\ Without({"crash"})
  /\ Without({"inHand", "behind"}) <=> Without({"inHand"}) /\ Without({"behind"})
BY DEF Without

LEMMA MirrorStep == ASSUME MirrorInv, Next PROVE MirrorInv'
<1>1. IndexerInv' /\ case' = case
  BY IndexerStep DEF MirrorInv, MailGoesOn
<1>2. RowsAreThere' /\ KeysFit' /\ CommitFits' /\ HeadersFit' /\ FilthyFits'
  BY RowsStay, KeysStay, CommitsStay, HeadersStay, FilthyFoldersStay DEF MirrorInv
<1>3. PlainMail'
  <2>. SUFFICES ASSUME Without({"compact"}) PROVE NeverCompacted' /\ TrackerFits'
    BY <1>1 DEF PlainMail, Without
  <2>1. NeverCompacted /\ TrackerFits
    BY DEF MirrorInv, PlainMail
  <2>. QED BY <2>1, NeverCompactedStays, TrackerStays DEF MirrorInv
<1>4. CleanMail'
  <2>. SUFFICES ASSUME Without({"inHand", "compact", "idleRace"})
                PROVE  HandIsCurrent' /\ CleanFits'
    BY <1>1 DEF CleanMail, Without
  <2>1. Without({"inHand"}) /\ Without({"compact"}) /\ Without({"idleRace"})
    BY WithoutEach
  <2>2. NeverCompacted /\ TrackerFits /\ HandIsCurrent /\ CleanFits
    BY <2>1 DEF MirrorInv, PlainMail, CleanMail
  <2>. QED BY <2>1, <2>2, HandStaysCurrent, CleanStays DEF MirrorInv
<1>. QED BY <1>1, <1>2, <1>3, <1>4 DEF MirrorInv

LEMMA MirrorUnchanged == ASSUME MirrorInv, UNCHANGED vars PROVE MirrorInv'
<1>1. /\ UNCHANGED <<case, msg, hdr, pending, postCommit>>
      /\ UNCHANGED <<rows, fld, disk, queue, job, inFolder>>
      /\ UNCHANGED <<driver, idleCommit, sweepDue, spent>>
  BY DEF vars, mailVars, trackVars, dbVars, jobVars, otherVars
<1>2. IndexerInv'
  BY IndexerNext DEF MirrorInv
<1>3. RowsAreThere' /\ KeysFit' /\ CommitFits' /\ HeadersFit'
  BY <1>1 DEF MirrorInv, RowsAreThere, There, KeysFit, Without, Home, CommitFits,
       Committing, Filthy, HeadersFit, Has
<1>4. Events' = Events
  BY <1>1, EventsUnmoved
<1>5. FilthyFits' /\ PlainMail' /\ CleanMail'
  BY <1>1, <1>4 DEF MirrorInv, FilthyFits, Filthy, Home, InPass, PlainMail, Without,
       NeverCompacted, TrackerFits, CleanMail, HandIsCurrent, CleanFits
<1>. QED BY <1>2, <1>3, <1>5 DEF MirrorInv

LEMMA MirrorNext == MirrorInv /\ [Next]_vars => MirrorInv'
BY MirrorStep, MirrorUnchanged

(* What the mail folders and the database say of each other agrees: where no
   idle-time commit is forgotten a header that says indexed has its committed
   row, and one that says clean has the row of this version; and without a
   crash a row whose key is no longer its message's waits for the compaction
   pass of its folder (PendingCommitTracker and _worker_folderCompactionPass,
   index_msg.js; FolderCompactFinish's listeners).                          *)
THEOREM MailAndIndexAgreeAlways == Spec => []MailAndIndexAgree
<1>1. MirrorInv => MailAndIndexAgree
  <2>. SUFFICES ASSUME MirrorInv PROVE MailAndIndexAgree
    OBVIOUS
  <2>1. HeaderFollowsCommit
    BY WithoutEach
      DEF HeaderFollowsCommit, MirrorInv, HeadersFit, CleanMail, CleanFits
  <2>2. KeysAreFollowed
    BY DEF KeysAreFollowed, MirrorInv, KeysFit
  <2>. QED BY <2>1, <2>2 DEF MailAndIndexAgree
<1>. QED BY <1>1, MirrorInit, MirrorNext, PTL DEF Spec

-----------------------------------------------------------------------------
(* What the index does not have yet is remembered.                         *)

KeptCase ==
  /\ Without({"overflow", "compact", "crash"})
  /\ Without({"inHand", "behind"}) \/ Without({"quit"})

(* A quit forgets the jobs, so only without one is it enough to wait there. *)
Waits(m) == Without({"quit"}) /\ (Queued(m) \/ InHand(m))

(* A folder's pass has dealt with the messages it has gone by, and what was
   read of a message in hand is its last version, or there is a job again.  *)
KeptFor(m) ==
  /\ UpToDate(m) \/ Marked(m) \/ Waits(m)
  /\ InPass(Home(m)) /\ m \notin job.left \cup {job.at} => UpToDate(m) \/ Waits(m)
  /\ job.at = m /\ job.read > 0 /\ job.read # msg[m].version =>
       Without({"quit"}) /\ Queued(m)

Kept == KeptCase => \A m \in Message : KeptFor(m)

LEMMA QueuedIsEvent ==
  ASSUME IndexerInv, NEW m
  PROVE  Queued(m) <=> \E e \in Events : e.m = m
BY DEF Queued, Events, EventsIn, EventsOf, Elements

(* Events leave only when they are visited.                                *)
LEMMA EventsRemain ==
  ASSUME IndexerInv, Without({"compact"}), NeverCompacted, Next, ~Quit, ~Crash
  PROVE  \/ Events \subseteq Events'
         \/ MessageIndexVisits /\ Events \subseteq Events' \cup {Head(job.items)}
<1>1. /\ Types /\ queue \in Seq(Waiting) /\ EventsOf(NoJob) = {}
      /\ job.items = <<>> => EventsOf(job) = {}
  BY NewJobs, NoElements DEF IndexerInv, Types, WorkTypes, EventsOf
<1>2. CASE Hire \/ IndexingSweep
  BY <1>1, <1>2, HireMoves, SweepQueues
<1>3. CASE FolderIndexEnds \/ MessageIndexEnds \/ CompactionPassBegins
  <2>1. queue' = queue /\ job.items = <<>>
    BY <1>3 DEF FolderIndexEnds, MessageIndexEnds, CompactionPassBegins, IndexerInv,
         WorkerFits, JobFits
  <2>2. EventsOf(job) = {}
    BY <1>1, <2>1
  <2>3. EventsIn(Elements(queue')) = EventsIn(Elements(queue))
    BY <2>1
  <2>. QED BY <2>2, <2>3 DEF Events
<1>4. CASE MessageIndexVisits
  BY <1>1, <1>4, VisitTakesEvent
<1>5. CASE FolderIndexBegins \/ FolderIndexVisits \/ IndexMessage \/ MessageRead
  <2>1. queue' = queue /\ job'.items = job.items
    <3>1. job \in Job
      BY <1>1 DEF Types, WorkTypes
    <3>. QED BY <1>5, <3>1 DEF FolderIndexBegins, FolderIndexVisits, IndexMessage,
              MessageRead, Job
  <2>. QED BY <2>1, EventsUnmoved
<1>6. CASE \/ NothingToHire \/ CommitDone \/ Commit \/ IdleCommit \/ IdleCommitDone
           \/ GoOffline \/ GoOnline
  <2>1. queue' = queue /\ job' = job
    BY <1>6 DEF NothingToHire, CommitDone, Commit, IdleCommit, IdleCommitDone,
         GoOffline, GoOnline, jobVars
  <2>. QED BY <2>1, EventsUnmoved
<1>7. CASE \E m \in Message : Change(m)
  BY <1>1, <1>7, ChangeQueues
<1>8. CASE ScheduleInitialSweep
  <2>1. queue' = SweepNeeded(queue) /\ job' = job
    BY <1>8 DEF ScheduleInitialSweep
  <2>. QED BY <1>1, <2>1, SweepNeededQueues DEF Events
<1>. QED
  BY <1>2, <1>3, <1>4, <1>5, <1>6, <1>7, <1>8, NothingIsCompacted
    DEF Next, DriverTurn, Callback

(* A message stays in hand until it is indexed.                            *)
LEMMA HandRemains ==
  ASSUME IndexerInv, Without({"compact"}), NeverCompacted, Next, ~Quit, ~Crash,
         job.at # NoMessage, ~IndexMessage
  PROVE  /\ job'.at = job.at
         /\ job'.read = job.read \/ (MessageRead /\ job'.read = msg[job.at].version)
<1>1. job.type \in {"folder", "message"} /\ (job.type = "folder" => job.stage = "pass")
  BY DEF IndexerInv, WorkerFits, HandFits
<1>2. ~Hire /\ ~NothingToHire /\ ~IndexingSweep
  <2>1. job # NoJob
    BY DEF NoJob
  <2>2. Hire \/ NothingToHire \/ IndexingSweep => job = NoJob
    BY DEF Hire, NothingToHire, IndexingSweep
  <2>. QED BY <2>1, <2>2
<1>3. /\ ~FolderIndexBegins /\ ~FolderIndexVisits /\ ~FolderIndexEnds
      /\ ~MessageIndexVisits /\ ~MessageIndexEnds /\ ~CompactionPassBegins
  BY <1>1 DEF FolderIndexBegins, FolderIndexVisits, FolderIndexEnds,
       MessageIndexVisits, MessageIndexEnds, CompactionPassBegins
<1>4. CASE MessageRead
  <2>1. PICK v : v = msg[job.at].version /\ job' = [job EXCEPT !.read = v]
    BY <1>4 DEF MessageRead
  <2>2. job'.read = v /\ job'.at = job.at
    BY <2>1 DEF IndexerInv, Types, WorkTypes, Job
  <2>. QED BY <1>4, <2>1, <2>2
<1>5. CASE \/ CommitDone \/ Commit \/ IdleCommit \/ IdleCommitDone \/ GoOffline
           \/ GoOnline \/ ScheduleInitialSweep \/ \E m \in Message : Change(m)
  BY <1>5 DEF CommitDone, Commit, IdleCommit, IdleCommitDone, GoOffline, GoOnline,
       ScheduleInitialSweep, Change, jobVars
<1>. QED
  BY <1>2, <1>3, <1>4, <1>5, NothingIsCompacted DEF Next, DriverTurn, Callback

(* Who waits goes on waiting.                                              *)
LEMMA WaitingRemains ==
  ASSUME IndexerInv, Without({"compact"}), NeverCompacted, Next, ~Quit, ~Crash,
         IndexerInv', NEW m \in Message, Queued(m)
  PROVE  Queued(m)' \/ (MessageIndexVisits /\ InHand(m)')
<1>1. PICK e \in Events : e.m = m
  BY QueuedIsEvent
<1>2. CASE e \in Events'
  <2>1. \E d \in Events' : d.m = m
    BY <1>1, <1>2
  <2>2. Queued(m)' <=> \E d \in Events' : d.m = m
    BY DEF Queued, Events, EventsIn, EventsOf, Elements
  <2>. QED BY <2>1, <2>2
<1>3. CASE MessageIndexVisits /\ e = Head(job.items)
  <2>1. /\ job.type = "message" /\ job.at = NoMessage
        /\ Head(job.items) \in Events /\ job'.read = job.read
    BY <1>3, VisitTakesEvent DEF IndexerInv, MessageIndexVisits
  <2>2. job.read = 0
    BY <2>1, GlodaAssumption DEF IndexerInv, WorkerFits, HandFits, Types, WorkTypes,
         Job, Version, GlodaAssumption
  <2>3. Home(m) \in Folder
    BY CaseType DEF IndexerInv, Types, OtherTypes
  <2>4. ~fld[Home(m)].compacting /\ ~fld[Home(m)].compacted /\ msg[m].key = e.key
    BY <1>1, <2>3 DEF NeverCompacted
  <2>5. PICK t : job' = [[job EXCEPT !.items = t] EXCEPT !.at = m]
    BY <1>1, <1>3, <2>4 DEF MessageIndexVisits
  <2>6. job'.at = m
    BY <2>5 DEF IndexerInv, Types, WorkTypes, Job
  <2>. QED BY <1>3, <2>1, <2>2, <2>6 DEF InHand
<1>. QED BY <1>2, <1>3, EventsRemain

-----------------------------------------------------------------------------
(* What marks a message, and what takes the mark away.                     *)

WantsFits ==
  \A m \in Message :
    (WantsIndexing(m) <=>
       /\ ~hdr[m].id \/ hdr[m].dirty # "clean"
       /\ pending[m].byKey => pending[m].dirty # "clean")

LEMMA CleanHeader ==
  ASSUME NEW h \in Header
  PROVE  (h = [id |-> TRUE, dirty |-> "clean"] <=> h.id /\ h.dirty = "clean")
<1>1. h.id \in BOOLEAN /\ h = [id |-> h.id, dirty |-> h.dirty]
  BY DEF Header
<1>2. h.id => h.id = TRUE
  BY <1>1
<1>. QED BY <1>1, <1>2

LEMMA WantsIs == MailTypes => WantsFits
<1>. SUFFICES ASSUME MailTypes, NEW m \in Message
              PROVE  (WantsIndexing(m) <=>
                        /\ ~hdr[m].id \/ hdr[m].dirty # "clean"
                        /\ pending[m].byKey => pending[m].dirty # "clean")
  BY DEF WantsFits
<1>1. hdr[m] \in Header /\ pending[m] \in Tracked
  BY DEF MailTypes
<1>2. CASE pending[m].byKey
  <2>1. GlodaState(m) = [id |-> TRUE, dirty |-> pending[m].dirty]
    BY <1>2 DEF GlodaState
  <2>2. IndexedAndClean(m) <=> pending[m].dirty = "clean"
    <3>1. PICK h \in Header : h = [id |-> TRUE, dirty |-> pending[m].dirty]
      BY <1>1 DEF Tracked, Header, Dirty
    <3>2. h.id /\ h.dirty = pending[m].dirty
      BY <3>1
    <3>. QED BY <2>1, <3>1, <3>2, CleanHeader DEF IndexedAndClean
  <2>. QED BY <1>2, <2>2 DEF WantsIndexing
<1>3. CASE ~pending[m].byKey
  <2>1. GlodaState(m) = hdr[m]
    BY <1>3 DEF GlodaState
  <2>2. IndexedAndClean(m) <=> hdr[m].id /\ hdr[m].dirty = "clean"
    BY <1>1, <2>1, CleanHeader DEF IndexedAndClean
  <2>. QED BY <1>3, <2>2 DEF WantsIndexing
<1>. QED BY <1>2, <1>3

LEMMA DirtNext ==
  ASSUME IndexerInv, Without({"compact"}), NeverCompacted, Next, ~Crash, NEW f \in Folder
  PROVE  \/ fld'[f].dirty = fld[f].dirty
         \/ fld[f].dirty = "clean" /\ fld'[f].dirty = "dirty"
         \/ /\ FolderIndexBegins /\ job.folder = f
            /\ fld[f].dirty = "filthy" /\ fld'[f].dirty = "dirty"
         \/ FolderIndexEnds /\ job.folder = f
<1>1. fld \in [Folder -> FolderStatus]
  BY DEF IndexerInv, Types, DbTypes
<1>2. CASE FolderIndexBegins
  <2>1. \/ fld' = fld
        \/ /\ fld[job.folder].dirty = "filthy"
           /\ fld' = [fld EXCEPT ![job.folder].dirty = "dirty"]
    BY <1>2 DEF FolderIndexBegins
  <2>. QED BY <1>1, <1>2, <2>1 DEF FolderStatus
<1>3. CASE FolderIndexEnds
  <2>1. fld' = [fld EXCEPT ![job.folder].dirty = "clean"]
    BY <1>3 DEF FolderIndexEnds
  <2>. QED BY <1>1, <1>3, <2>1 DEF FolderStatus
<1>4. CASE \E m \in Message : Change(m)
  <2>1. \A m \in Message : Home(m) \in Folder
    BY CaseType DEF IndexerInv, Types, OtherTypes
  <2>2. PICK g \in Folder :
          \/ fld' = fld
          \/ fld' = [fld EXCEPT ![g].dirty = IF @ = "clean" THEN "dirty" ELSE @]
    BY <1>4, <2>1 DEF Change, ReindexChangedMessage
  <2>. QED BY <1>1, <2>2 DEF FolderStatus
<1>5. CASE Quit
  BY <1>1, <1>5 DEF Quit, FolderStatus
<1>6. CASE ~(FolderIndexBegins \/ FolderIndexEnds \/ Quit \/ \E m \in Message : Change(m))
  <2>1. fld' = fld
    BY <1>6, NothingIsCompacted DEF Next, DriverTurn, Callback, Hire, NothingToHire,
         IndexingSweep, FolderIndexVisits, MessageIndexVisits, MessageIndexEnds,
         IndexMessage, CompactionPassBegins, MessageRead, CommitDone, Commit, IdleCommit,
         IdleCommitDone, GoOffline, GoOnline, ScheduleInitialSweep, dbVars
  <2>. QED BY <2>1
<1>. QED BY <1>2, <1>3, <1>4, <1>5, <1>6

(* A change marks its message and the message's folder.                    *)
LEMMA ChangeMarks ==
  ASSUME IndexerInv, IndexerInv', TrackerFits, NEW m \in Message, Change(m)
  PROVE  Marked(m)'
<1>1. /\ Types /\ MailTypes' /\ fld \in [Folder -> FolderStatus] /\ Home(m) \in Folder
      /\ hdr \in [Message -> Header] /\ pending \in [Message -> Tracked]
  BY CaseType DEF IndexerInv, Types, DbTypes, MailTypes, OtherTypes
<1>2. Home(m)' = Home(m)
  BY DEF Change, otherVars, Home
<1>3. CASE Filthy(Home(m))
  <2>1. fld' = fld
    BY <1>3 DEF Change, ReindexChangedMessage, Filthy
  <2>. QED BY <1>2, <1>3, <2>1 DEF Marked, Filthy
<1>4. CASE ~Filthy(Home(m))
  <2>1. fld' = [fld EXCEPT ![Home(m)].dirty = IF @ = "clean" THEN "dirty" ELSE @]
    BY <1>4 DEF Change, ReindexChangedMessage, Filthy
  <2>2. fld'[Home(m)].dirty = "dirty"
    BY <1>1, <1>4, <2>1 DEF FolderStatus, Filthy, Dirty
  <2>3. pending[m].byKey => pending[m].dirty \in {"clean", "dirty"}
    BY <1>1 DEF Tracked
  <2>4. /\ ~hdr'[m].id \/ hdr'[m].dirty # "clean"
        /\ pending'[m].byKey => pending'[m].dirty # "clean"
    <3>1. CASE pending[m].byKey
      BY <1>1, <1>4, <2>3, <3>1, ChangeWrites DEF TrackerFits
    <3>2. CASE ~pending[m].byKey
      BY <1>1, <1>4, <3>2, ChangeWrites
    <3>. QED BY <3>1, <3>2
  <2>5. WantsIndexing(m)'
    <3>1. MailTypes' => WantsFits'
      BY WantsIs, PTL
    <3>. QED BY <1>1, <2>4, <3>1 DEF WantsFits
  <2>. QED BY <1>2, <2>2, <2>5 DEF Marked
<1>. QED BY <1>3, <1>4

(* What is up to date stays so until the message changes or is indexed.    *)
LEMMA UpToDateRemains ==
  ASSUME IndexerInv, Without({"compact"}), NeverCompacted, Next, ~Crash,
         NEW m \in Message, ~Change(m), ~(IndexMessage /\ job.at = m)
  PROVE  /\ msg'[m] = msg[m] /\ rows'[m] = rows[m]
         /\ UpToDate(m)' <=> UpToDate(m)
<1>1. msg'[m] = msg[m] /\ rows'[m] = rows[m]
  BY TrackerNext
<1>. QED BY <1>1 DEF UpToDate

LEMMA WantsRemains ==
  ASSUME IndexerInv, IndexerInv', Without({"compact"}), NeverCompacted, TrackerFits,
         Next, ~Crash, NEW m \in Message, WantsIndexing(m),
         ~Change(m), ~(IndexMessage /\ job.at = m)
  PROVE  WantsIndexing(m)'
<1>1. WantsFits /\ pending \in [Message -> Tracked]
  BY WantsIs DEF IndexerInv, Types, MailTypes
<1>2. MailTypes' => WantsFits'
  BY WantsIs, PTL
<1>3. WantsFits'
  BY <1>2 DEF IndexerInv, Types
<1>4. /\ ~hdr[m].id \/ hdr[m].dirty # "clean"
      /\ pending[m].byKey => pending[m].dirty # "clean"
      /\ pending[m].byKey = pending[m].byId
  BY <1>1 DEF WantsFits, TrackerFits
<1>5. /\ ~hdr'[m].id \/ hdr'[m].dirty # "clean"
      /\ pending'[m].byKey => pending'[m].dirty # "clean"
  <2>1. CASE hdr'[m] = hdr[m] /\ pending'[m] = pending[m]
    BY <1>4, <2>1
  <2>2. CASE /\ pending'[m] = NotTracked
             /\ \/ hdr'[m] = hdr[m]
                \/ pending[m].byId /\ hdr'[m] = [id |-> TRUE, dirty |-> pending[m].dirty]
    BY <1>4, <2>2 DEF NotTracked
  <2>3. CASE pending'[m] = pending[m] /\ hdr'[m].dirty = "filthy"
    BY <1>4, <2>3
  <2>. QED BY <2>1, <2>2, <2>3, TrackerNext
<1>. QED BY <1>3, <1>5 DEF WantsFits

(* A mark is taken away by the indexing of the message or the end of its
   folder's pass.                                                          *)
LEMMA MarkRemains ==
  ASSUME IndexerInv, IndexerInv', Without({"compact"}), NeverCompacted, TrackerFits,
         Next, ~Crash, NEW m \in Message, Marked(m),
         ~Change(m), ~(IndexMessage /\ job.at = m),
         ~(FolderIndexEnds /\ job.folder = Home(m))
  PROVE  Marked(m)' \/ UpToDate(m)'
<1>1. MailGoesOn /\ Types /\ Home(m) \in Folder
  BY IndexerStep, CaseType DEF IndexerInv, Types, OtherTypes
<1>2. Home(m)' = Home(m)
  BY <1>1, ThereStays
<1>3. PICK f \in Folder : f = Home(m)
  BY <1>1
<1>4. CASE fld'[f].dirty = fld[f].dirty
  BY <1>2, <1>3, <1>4, WantsRemains DEF Marked
<1>5. CASE fld[f].dirty = "clean"
  BY <1>3, <1>5 DEF Marked
<1>6. CASE /\ FolderIndexBegins /\ job.folder = f
           /\ fld[f].dirty = "filthy" /\ fld'[f].dirty = "dirty"
  <2>1. ~pending[m].byKey /\ pending' = pending
    BY <1>3, <1>6 DEF TrackerFits, Filthy, FolderIndexBegins, trackVars
  <2>2. CASE ~There(m)
    <3>1. msg[m].version = 0
      BY <1>1, <2>2, GlodaAssumption
        DEF There, Types, MailTypes, MailRecord, Version, GlodaAssumption
    <3>. QED BY <3>1, UpToDateRemains DEF UpToDate
  <2>3. CASE There(m)
    <3>1. m \in Delivered(f)
      BY <1>1, <1>3, <2>3, GlodaAssumption
        DEF There, Delivered, Types, MailTypes, MailRecord, Version, GlodaAssumption
    <3>2. hdr'[m] = IF hdr[m].id THEN [hdr[m] EXCEPT !.dirty = "filthy"] ELSE hdr[m]
      BY <1>6, <3>1 DEF FolderIndexBegins
    <3>3. hdr[m] \in Header
      BY <1>1 DEF Types, MailTypes
    <3>4. ~hdr'[m].id \/ hdr'[m].dirty # "clean"
      BY <3>2, <3>3 DEF Header
    <3>5. MailTypes' => WantsFits'
      BY WantsIs, PTL
    <3>6. WantsIndexing(m)'
      BY <2>1, <3>4, <3>5 DEF IndexerInv, Types, WantsFits
    <3>. QED BY <1>2, <1>3, <1>6, <3>6 DEF Marked
  <2>. QED BY <2>2, <2>3
<1>. QED BY <1>3, <1>4, <1>5, <1>6, DirtNext

(* And who waits goes on waiting.                                          *)
LEMMA WaitRemains ==
  ASSUME IndexerInv, IndexerInv', Without({"compact"}), NeverCompacted, Next, ~Crash,
         NEW m \in Message, Waits(m), ~Change(m), ~(IndexMessage /\ job.at = m)
  PROVE  Waits(m)'
<1>1. ~Quit /\ m # NoMessage
  BY GlodaAssumption DEF Quit, Has, Waits, Without, GlodaAssumption
<1>2. Without({"quit"})'
  BY IndexerStep DEF MailGoesOn, Waits, Without
<1>3. CASE Queued(m)
  BY <1>1, <1>2, <1>3, WaitingRemains DEF Waits
<1>4. CASE InHand(m)
  <2>1. job.at = m /\ job.read \in {0, msg[m].version} /\ msg'[m] = msg[m]
    BY <1>4, UpToDateRemains DEF InHand
  <2>2. job'.at = m /\ job'.read \in {0, msg[m].version}
    BY <1>1, <2>1, HandRemains
  <2>. QED BY <1>2, <2>1, <2>2 DEF Waits, InHand
<1>. QED BY <1>3, <1>4 DEF Waits

(* A pass goes by a message only if it takes it, or has nothing to do for it. *)
LEMMA PassTurns ==
  ASSUME IndexerInv, Without({"compact"}), NeverCompacted, Next, NEW f, InPass(f), InPass(f)',
         NEW m \in job.left, m \notin job'.left \cup {job'.at}
  PROVE  ~WantsIndexing(m)
<1>1. /\ job \in Job /\ job # NoJob /\ NoJob.type = "none"
  BY DEF IndexerInv, Types, WorkTypes, InPass, NoJob
<1>2. /\ ~Hire /\ ~NothingToHire /\ ~IndexingSweep /\ ~FolderIndexBegins
      /\ ~MessageIndexVisits /\ ~MessageIndexEnds /\ ~CompactionPassBegins
  <2>1. Hire \/ NothingToHire \/ IndexingSweep => job = NoJob
    BY DEF Hire, NothingToHire, IndexingSweep
  <2>2. /\ FolderIndexBegins => job.stage = "new"
        /\ MessageIndexVisits \/ MessageIndexEnds => job.type = "message"
        /\ CompactionPassBegins => job.type = "compact"
    BY DEF FolderIndexBegins, MessageIndexVisits, MessageIndexEnds, CompactionPassBegins
  <2>. QED BY <1>1, <2>1, <2>2 DEF InPass
<1>3. CASE FolderIndexVisits
  <2>1. PICK w : w = {n \in job.left : WantsIndexing(n)}
    OBVIOUS
  <2>2. PICK n \in w, before \in SUBSET (job.left \ w) :
          job' = [job EXCEPT !.at = n, !.left = job.left \ ({n} \cup before)]
    BY <1>3, <2>1 DEF FolderIndexVisits
  <2>3. job'.at = n /\ job'.left = job.left \ ({n} \cup before)
    BY <1>1, <2>2 DEF Job
  <2>. QED BY <2>1, <2>2, <2>3
<1>4. CASE FolderIndexEnds \/ Quit \/ Crash
  <2>1. job' = NoJob
    BY <1>4 DEF FolderIndexEnds, Quit, Crash, NewSession, JobEnds
  <2>. QED BY <1>1, <2>1 DEF InPass
<1>5. CASE IndexMessage
  <2>1. job' = [job EXCEPT !.at = NoMessage, !.read = 0]
    BY <1>5 DEF IndexMessage
  <2>2. job'.left = job.left
    BY <1>1, <2>1 DEF Job
  <2>. QED BY <2>2
<1>6. CASE MessageRead
  <2>1. job' = job \/ \E v : job' = [job EXCEPT !.read = v]
    BY <1>6 DEF MessageRead
  <2>2. job'.left = job.left
    BY <1>1, <2>1 DEF Job
  <2>. QED BY <2>2
<1>7. CASE \/ CommitDone \/ Commit \/ IdleCommit \/ IdleCommitDone \/ GoOffline
           \/ GoOnline \/ ScheduleInitialSweep \/ \E n \in Message : Change(n)
  <2>1. job' = job
    BY <1>7 DEF CommitDone, Commit, IdleCommit, IdleCommitDone, GoOffline, GoOnline,
         ScheduleInitialSweep, Change, jobVars
  <2>. QED BY <2>1
<1>. QED
  BY <1>2, <1>3, <1>4, <1>5, <1>6, <1>7, NothingIsCompacted
    DEF Next, DriverTurn, Callback

-----------------------------------------------------------------------------
(* The invariant, message by message: a step that neither changes it nor
   writes its row.                                                         *)

Plain == MirrorInv /\ IndexerInv' /\ NeverCompacted /\ TrackerFits /\ Next /\ ~Crash
         /\ Without({"compact"})

LEMMA KeptQuietly ==
  ASSUME Plain, NEW m \in Message, KeptFor(m),
         ~Change(m), ~(IndexMessage /\ job.at = m)
  PROVE  KeptFor(m)'
<1>1. /\ IndexerInv /\ IndexerInv' /\ Without({"compact"}) /\ NeverCompacted
      /\ TrackerFits /\ Next /\ ~Crash /\ FilthyFits /\ MailGoesOn /\ Types
  BY IndexerStep DEF Plain, MirrorInv, IndexerInv
<1>2. Home(m)' = Home(m) /\ NoMessage # m
  BY <1>1, ThereStays, GlodaAssumption DEF GlodaAssumption
<1>3. UpToDate(m) \/ Waits(m) => UpToDate(m)' \/ Waits(m)'
  BY <1>1, UpToDateRemains, WaitRemains
<1>4. InPass(Home(m)) /\ ~WantsIndexing(m) => UpToDate(m) \/ Waits(m)
  BY <1>1 DEF FilthyFits, KeptFor, Marked, Filthy
<1>5. UpToDate(m)' \/ Marked(m)' \/ Waits(m)'
  <2>1. CASE UpToDate(m) \/ Waits(m)
    BY <1>3, <2>1
  <2>2. CASE Marked(m) /\ ~(FolderIndexEnds /\ job.folder = Home(m))
    BY <1>1, <2>2, MarkRemains
  <2>3. CASE FolderIndexEnds /\ job.folder = Home(m)
    <3>1. InPass(Home(m)) /\ job.at # m
      BY <1>2, <2>3 DEF FolderIndexEnds, InPass
    <3>2. m \in job.left => ~WantsIndexing(m)
      BY <2>3 DEF FolderIndexEnds
    <3>. QED BY <1>3, <1>4, <3>1, <3>2 DEF KeptFor
  <2>. QED BY <2>1, <2>2, <2>3 DEF KeptFor
<1>6. ASSUME InPass(Home(m))', m \notin job'.left \cup {job'.at}
      PROVE  UpToDate(m)' \/ Waits(m)'
  <2>1. job'.folder = job.folder /\ job.folder = Home(m)
        /\ (FolderIndexBegins \/ InPass(Home(m)))
    BY <1>1, <1>2, <1>6, JobTurns DEF InPass
  <2>2. CASE FolderIndexBegins
    <3>1. job' = [job EXCEPT !.stage = "pass", !.left = Delivered(job.folder)]
      BY <2>2 DEF FolderIndexBegins
    <3>2. job'.left = Delivered(job.folder)
      BY <1>1, <3>1 DEF Types, WorkTypes, Job
    <3>3. msg[m].version = 0
      BY <1>1, <1>6, <2>1, <3>2, GlodaAssumption
        DEF Delivered, Types, MailTypes, MailRecord, Version, GlodaAssumption
    <3>. QED BY <1>3, <3>3 DEF UpToDate
  <2>3. CASE InPass(Home(m))
    <3>1. CASE m \notin job.left \cup {job.at}
      BY <1>3, <2>3, <3>1 DEF KeptFor
    <3>2. CASE m \in job.left
      <4>1. ~WantsIndexing(m)
        BY <1>1, <1>2, <1>6, <2>3, <3>2, PassTurns DEF InPass
      <4>. QED BY <1>3, <1>4, <2>3, <4>1
    <3>3. CASE job.at = m
      <4>1. ~Quit
        BY <1>6 DEF Quit, NewSession, JobEnds, NoJob, InPass
      <4>2. job'.at = m
        BY <1>1, <1>2, <3>3, <4>1, HandRemains
      <4>. QED BY <1>6, <4>2
    <3>. QED BY <3>1, <3>2, <3>3
  <2>. QED BY <2>1, <2>2, <2>3
<1>7. ASSUME job'.at = m, job'.read > 0, job'.read # msg'[m].version
      PROVE  Without({"quit"})' /\ Queued(m)'
  <2>1. msg'[m] = msg[m]
    BY <1>1, UpToDateRemains
  <2>2. job.at = m /\ job'.read = job.read /\ job.read > 0
    BY <1>1, <1>7, <2>1, ReadTurns
  <2>3. Without({"quit"}) /\ Queued(m)
    BY <1>7, <2>1, <2>2 DEF KeptFor
  <2>4. ~Quit /\ ~MessageIndexVisits
    BY <1>2, <2>2, <2>3 DEF Quit, Has, Without, MessageIndexVisits
  <2>5. Without({"quit"})'
    BY <1>1, <2>3 DEF MailGoesOn, Without
  <2>. QED BY <1>1, <2>3, <2>4, <2>5, WaitingRemains
<1>. QED BY <1>2, <1>5, <1>6, <1>7 DEF KeptFor, InPass

(* The step that writes its row: either what was read is the last version,
   or there is a job again.                                                *)
LEMMA KeptByIndexing ==
  ASSUME Plain, NEW m \in Message, KeptFor(m), IndexMessage, job.at = m
  PROVE  KeptFor(m)'
<1>1. /\ IndexerInv /\ IndexerInv' /\ Without({"compact"}) /\ NeverCompacted /\ Next
      /\ MailGoesOn /\ m # NoMessage /\ job \in Job
  BY IndexerStep, GlodaAssumption
    DEF Plain, MirrorInv, GlodaAssumption, IndexerInv, Types, WorkTypes
<1>2. job' = [job EXCEPT !.at = NoMessage, !.read = 0] /\ msg' = msg
  BY DEF IndexMessage, mailVars
<1>3. job'.at = NoMessage /\ job.read > 0 /\ rows'[m].version = job.read
  BY <1>1, <1>2, HandIsRead DEF Job
<1>4. UpToDate(m)' \/ Waits(m)'
  <2>1. CASE job.read = msg[m].version
    BY <1>2, <1>3, <2>1 DEF UpToDate
  <2>2. CASE job.read # msg[m].version
    <3>1. Without({"quit"}) /\ Queued(m)
      BY <1>3, <2>2 DEF KeptFor
    <3>2. ~Quit /\ ~Crash /\ ~MessageIndexVisits
      BY <1>1, <3>1 DEF Plain, Quit, Has, Without, MessageIndexVisits
    <3>3. Queued(m)'
      BY <1>1, <3>1, <3>2, WaitingRemains
    <3>. QED BY <1>1, <3>1, <3>3 DEF MailGoesOn, Without, Waits
  <2>. QED BY <2>1, <2>2
<1>. QED BY <1>1, <1>3, <1>4 DEF KeptFor

(* The step that changes it: it is marked, and where the mark would be of no
   use, behind the pass or in hand, there is a new job for it.             *)
LEMMA KeptByChange ==
  ASSUME Plain, KeptCase, NEW m \in Message, KeptFor(m), Change(m)
  PROVE  KeptFor(m)'
<1>1. /\ IndexerInv /\ IndexerInv' /\ TrackerFits /\ FilthyFits /\ Types /\ MailGoesOn
  BY IndexerStep DEF Plain, MirrorInv, IndexerInv
<1>2. job' = job /\ Home(m)' = Home(m)
  BY DEF Change, otherVars, Home
<1>3. Marked(m)'
  BY <1>1, ChangeMarks
<1>4. ASSUME Without({"quit"}), ~Filthy(Home(m))
      PROVE  Without({"quit"})' /\ Queued(m)'
  <2>1. ~EventOverflows
    BY WithoutEach DEF Change, KeptCase, Has, Without
  <2>2. Noted(m) \in Events'
    BY <1>1, <1>4, <2>1, ChangeQueues DEF Filthy
  <2>3. Noted(m).m = m
    BY DEF Noted
  <2>4. Queued(m)' <=> \E d \in Events' : d.m = m
    BY DEF Queued, Events, EventsIn, EventsOf, Elements
  <2>5. Queued(m)'
    BY <2>2, <2>3, <2>4
  <2>. QED BY <1>1, <1>4, <2>5 DEF MailGoesOn, Without
<1>5. ASSUME InPass(Home(m)), m \notin job.left \cup {job.at}
      PROVE  Waits(m)'
  <2>1. Without({"quit"})
    BY <1>5, WithoutEach DEF Change, PassedBy, InPass, Has, Without, KeptCase
  <2>. QED BY <1>1, <1>4, <1>5, <2>1 DEF FilthyFits, Waits
<1>6. ASSUME job.at = m, job.read > 0
      PROVE  Without({"quit"})' /\ Queued(m)'
  <2>1. Without({"quit"})
    BY <1>6, WithoutEach DEF Change, Has, Without, KeptCase
  <2>. QED BY <1>1, <1>4, <1>6, <2>1 DEF FilthyFits
<1>. QED BY <1>2, <1>3, <1>5, <1>6 DEF KeptFor, InPass

LEMMA KeptInit == Init => Kept
<1>. SUFFICES ASSUME Init, NEW m \in Message PROVE KeptFor(m)
  BY DEF Kept
<1>1. job = NoJob /\ Home(m) \in Folder /\ NoMessage # m
  BY MirrorInit, CaseType, GlodaAssumption
    DEF Init, MirrorInv, IndexerInv, Types, OtherTypes, GlodaAssumption
<1>2. job.at = NoMessage /\ job.type = "none"
  BY <1>1 DEF NoJob
<1>3. UpToDate(m) \/ Marked(m)
  <2>1. PICK full \in SUBSET Folder :
          /\ msg = [n \in Message |->
               [version |-> IF n \in case.mail /\ Home(n) \in full THEN 1 ELSE 0,
                key |-> 0]]
          /\ fld = [f \in Folder |->
               [dirty |-> IF f \in full THEN "filthy" ELSE "clean",
                compacting |-> FALSE, compacted |-> FALSE]]
    BY DEF Init
  <2>2. CASE Home(m) \in full
    BY <1>1, <2>1, <2>2 DEF Marked
  <2>3. CASE Home(m) \notin full
    BY <2>1, <2>3 DEF UpToDate
  <2>. QED BY <2>2, <2>3
<1>. QED BY <1>1, <1>2, <1>3 DEF KeptFor, InPass

LEMMA KeptStep == ASSUME MirrorInv, Kept, Next PROVE Kept'
<1>1. IndexerInv /\ IndexerInv' /\ case' = case
  BY IndexerStep DEF MirrorInv, MailGoesOn
<1>. SUFFICES ASSUME KeptCase, NEW m \in Message PROVE KeptFor(m)'
  BY <1>1 DEF Kept, KeptCase, Without
<1>2. Without({"compact"}) /\ Without({"crash"}) /\ KeptFor(m)
  BY WithoutEach DEF Kept, KeptCase
<1>3. Plain
  BY <1>1, <1>2 DEF Plain, MirrorInv, PlainMail, Crash, Has, Without
<1>4. CASE Change(m)
  BY <1>2, <1>3, <1>4, KeptByChange
<1>5. CASE IndexMessage /\ job.at = m
  BY <1>2, <1>3, <1>5, KeptByIndexing
<1>6. CASE ~Change(m) /\ ~(IndexMessage /\ job.at = m)
  BY <1>2, <1>3, <1>6, KeptQuietly
<1>. QED BY <1>4, <1>5, <1>6

LEMMA KeptNext == MirrorInv /\ Kept /\ [Next]_vars => Kept'
<1>. SUFFICES ASSUME Kept, UNCHANGED vars PROVE Kept'
  BY KeptStep
<1>1. /\ UNCHANGED <<case, msg, hdr, pending, rows, fld, queue, job>>
  BY DEF vars, mailVars, trackVars, dbVars, jobVars, otherVars
<1>2. \A m \in Message : (UpToDate(m)' <=> UpToDate(m)) /\ (Marked(m)' <=> Marked(m))
  BY <1>1 DEF UpToDate, Marked, Home, WantsIndexing, IndexedAndClean, GlodaState
<1>3. \A m \in Message : (Queued(m)' <=> Queued(m)) /\ (Waits(m)' <=> Waits(m))
  BY <1>1 DEF Waits, Queued, InHand, Without
<1>4. KeptCase' <=> KeptCase
  BY <1>1 DEF KeptCase, Without
<1>5. \A m \in Message : KeptFor(m)' <=> KeptFor(m)
  BY <1>1, <1>2, <1>3 DEF KeptFor, InPass, Home, Without
<1>. QED BY <1>4, <1>5 DEF Kept

(* Where the event queue does not overflow, no folder is compacted and
   nothing crashes, a change the index does not have yet is not forgotten:
   the message and its folder are marked, or a job has it. A quit may come
   in between if no message changes behind a pass or in hand
   (_reindexChangedMessages, _worker_folderIndex, PendingCommitTracker,
   index_msg.js).                                                          *)
THEOREM ChangeIsRememberedAlways == Spec => []ChangeIsRemembered
<1>1. Kept => ChangeIsRemembered
  BY DEF Kept, KeptCase, KeptFor, Waits, ChangeIsRemembered
<1>2. Init => MirrorInv /\ Kept
  BY MirrorInit, KeptInit
<1>3. MirrorInv /\ Kept /\ [Next]_vars => MirrorInv' /\ Kept'
  BY MirrorNext, KeptNext
<1>. QED BY <1>1, <1>2, <1>3, PTL DEF Spec
=============================================================================
