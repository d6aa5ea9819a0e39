---------------------------- MODULE GlodaIndexer ----------------------------
(***************************************************************************)
(* The global database's message indexer: GlodaIndexer (the job queue and  *)
(* its driver), GlodaMsgIndexer (the sweep, folder, message and compaction *)
(* jobs and the events that queue them), PendingCommitTracker, and what    *)
(* they need of the datastore's transactions and of GlodaFolder's status.  *)
(*                                                                         *)
(* What is to be indexed is remembered in three places with different      *)
(* lives: a job in the queue lives as long as the session, the gloda-dirty *)
(* and gloda-id properties of a header live in the mail folder, the status *)
(* of a folder lives in the gloda database, under its transaction.         *)
(***************************************************************************)
EXTENDS Naturals, Sequences, FiniteSets

CONSTANTS
  Message, Folder, NoMessage, NoFolder,
  MaxVersion,       \* bound: how often a message changes
  EventBudget,      \* _indexMaxEventQueueMessages
  MaxCompactions,   \* bound: compactions of a behaviour
  MaxRestarts,      \* bound: how often the application ends and starts again
  Cases             \* [env, home, mail]: the circumstances, the folder of
                    \* each message and the messages there are to be, one of
                    \* which each behaviour has

Circumstances ==
  { "overflow",     \* more messages change than the event queue takes
    "inHand",       \* a message changes between being read and being tracked
    "behind",       \* a message changes behind the pass of its folder's job
    "idleRace",     \* indexing begins before an idle-time commit has ended
    "compact",      \* a folder is compacted
    "offline",      \* the network comes and goes
    "quit",         \* the application is quit and started again
    "crash" }       \* the application crashes and is started again

ASSUME GlodaAssumption ==
  /\ NoMessage \notin Message /\ NoFolder \notin Folder
  /\ MaxVersion \in Nat \ {0} /\ EventBudget \in Nat \ {0}
  /\ MaxCompactions \in Nat /\ MaxRestarts \in Nat
  /\ Cases \subseteq [env : SUBSET Circumstances, home : [Message -> Folder],
                  mail : SUBSET Message]

VARIABLES
  case,
  msg,              \* the mail folder's messages: version and key
  hdr,              \* their gloda-id and gloda-dirty properties
  pending,          \* PendingCommitTracker's two maps, by message
  postCommit,       \* where PendingCommitTracker._commitCallback is registered
  rows,             \* the messages table as the open transaction sees it
  fld,              \* the GlodaFolders
  disk,             \* the database as it was last committed
  queue,            \* GlodaIndexer._indexQueue
  job,              \* _curIndexingJob and where its worker stands
  inFolder,         \* _indexingFolder
  driver,           \* callbackDriver, workBatch and the transaction
  idleCommit,       \* a commit of the idle observer has not called back
  sweepDue,         \* _longTimer runs: the initial sweep is to come
  spent             \* history: the compactions and restarts so far

mailVars == <<msg, hdr>>
trackVars == <<pending, postCommit>>
dbVars == <<rows, fld, disk>>
jobVars == <<queue, job, inFolder>>
otherVars == <<case, idleCommit, sweepDue, spent>>
vars == <<mailVars, trackVars, dbVars, jobVars, driver, otherVars>>

Has(circumstance) == circumstance \in case.env
Home(m) == case.home[m]
Delivered(f) == {m \in Message : Home(m) = f /\ msg[m].version > 0}

NoJob == [type |-> "none", folder |-> NoFolder, items |-> <<>>,
          left |-> {}, at |-> NoMessage, read |-> 0, stage |-> "new"]
SweepJob(folders) == [NoJob EXCEPT !.type = "sweep", !.left = folders]
FolderJob(f) == [NoJob EXCEPT !.type = "folder", !.folder = f]
CompactJob(f) == [NoJob EXCEPT !.type = "compact", !.folder = f]
MessageJob(items) == [NoJob EXCEPT !.type = "message", !.items = items]

NotTracked == [byKey |-> FALSE, byId |-> FALSE, dirty |-> "clean"]
NoRow == [version |-> 0, key |-> 0]
StartedDriver == [phase |-> "idle", wait |-> "none", desired |-> FALSE,
                  suppressed |-> FALSE, batch |-> FALSE, turned |-> FALSE,
                  tx |-> FALSE]

Snapshot == [rows |-> rows,
             dirty |-> [f \in Folder |-> fld[f].dirty],
             compacted |-> [f \in Folder |-> fld[f].compacted]]

(* Outside a transaction each statement is a transaction of its own.       *)
Persist == disk' = IF driver'.tx THEN disk ELSE Snapshot'

-----------------------------------------------------------------------------
(* The tracker and the header: what the indexer believes of a message.     *)

GlodaState(m) ==
  IF pending[m].byKey THEN [id |-> TRUE, dirty |-> pending[m].dirty] ELSE hdr[m]

IndexedAndClean(m) == GlodaState(m) = [id |-> TRUE, dirty |-> "clean"]

(* kEnumMsgsToIndex, and the second look of _worker_folderIndex.           *)
WantsIndexing(m) ==
  (~hdr[m].id \/ hdr[m].dirty # "clean") /\ ~IndexedAndClean(m)

Track(ms) ==
  /\ pending' = [m \in Message |->
       IF m \in ms THEN [byKey |-> TRUE, byId |-> TRUE, dirty |-> "clean"]
       ELSE pending[m]]
  /\ postCommit' = IF ms # {} /\ postCommit = "none" THEN "open" ELSE postCommit

(* Faulty: the callback does not know that a message has changed since.    *)
FlushAllClean ==
  /\ hdr' = [m \in Message |->
       IF pending[m].byId THEN [id |-> TRUE, dirty |-> "clean"] ELSE hdr[m]]
  /\ pending' = [m \in Message |-> NotTracked]
  /\ postCommit' = "none"

(* _commitCallback writes to the headers it holds. A folder that is being  *)
(* compacted has already copied some of them (missed).                     *)
Flush ==
  \E missed \in SUBSET {m \in Message : pending[m].byId /\ fld[Home(m)].compacting} :
    /\ hdr' = [m \in Message |->
         IF pending[m].byId /\ m \notin missed
         THEN [id |-> TRUE, dirty |-> pending[m].dirty] ELSE hdr[m]]
    /\ pending' = [m \in Message |-> NotTracked]
    /\ postCommit' = "none"

-----------------------------------------------------------------------------
(* The driver.                                                             *)

IndexingWanted(d) == d.desired /\ ~d.suppressed

(* set indexing, from indexJob *)
Kicked(d) ==
  [d EXCEPT !.desired = TRUE,
            !.phase = IF ~d.desired /\ ~d.suppressed /\ @ = "idle" THEN "timer" ELSE @]

SweepActive(q) == \E i \in DOMAIN q : q[i].type = "sweep"
SweepNeeded(q) == IF SweepActive(q) THEN q ELSE Append(q, SweepJob(Folder))

(* A turn of workBatch, in which the batch has a transaction, ends with a  *)
(* pause or by waiting for a callback.                                     *)
Runs == driver.phase = "timer"
InBatch(d) == [d EXCEPT !.batch = TRUE, !.turned = TRUE, !.tx = TRUE,
                        !.wait = "none"]
Paused(d) == [d EXCEPT !.phase = IF IndexingWanted(d) THEN "timer" ELSE "idle"]
Pause == driver' = Paused(InBatch(driver))
WaitFor(what) == driver' = [InBatch(driver) EXCEPT !.phase = "wait", !.wait = what]
CalledBack(what) == driver.phase = "wait" /\ driver.wait = what

JobEnds == job' = NoJob
LeaveFolder == inFolder' = NoFolder

(* killActiveJob and _cleanup_indexing. The driver's callback stays due.   *)
KillIfIn(f) ==
  IF inFolder = f THEN JobEnds /\ LeaveFolder ELSE UNCHANGED <<job, inFolder>>

Hire ==
  /\ Runs /\ job = NoJob /\ queue # <<>>
  /\ Head(queue).type # "sweep"
  /\ job' = Head(queue)
  /\ queue' = Tail(queue)
  /\ inFolder' = IF job'.folder = NoFolder THEN inFolder ELSE job'.folder
  /\ Pause
  /\ UNCHANGED <<mailVars, trackVars, rows, fld, disk, otherVars>>

(* Faulty: the batch is over before its commit has called back.            *)
NothingToHireEndsAtOnce ==
  /\ Runs /\ job = NoJob /\ queue = <<>>
  /\ driver' = [InBatch(driver) EXCEPT !.desired = FALSE, !.batch = FALSE,
                   !.phase = "wait", !.wait = "lastCommit"]
  /\ disk' = Snapshot
  /\ UNCHANGED <<mailVars, trackVars, rows, fld, jobVars, otherVars>>

(* The queue is empty: the batch ends, with a commit or without one.       *)
NothingToHire ==
  /\ Runs /\ job = NoJob /\ queue = <<>>
  /\ \/ /\ driver' = [InBatch(driver) EXCEPT !.desired = FALSE,
                                    !.phase = "wait", !.wait = "lastCommit"]
        /\ disk' = Snapshot
     \/ /\ driver' = [driver EXCEPT !.desired = FALSE, !.phase = "idle",
                                    !.batch = FALSE, !.turned = FALSE,
                                    !.tx = TRUE]
        /\ UNCHANGED disk
  /\ UNCHANGED <<mailVars, trackVars, rows, fld, jobVars, otherVars>>

Commit ==
  /\ Runs /\ driver.turned /\ (job # NoJob \/ queue # <<>>)
  /\ WaitFor("commit")
  /\ disk' = Snapshot
  /\ UNCHANGED <<mailVars, trackVars, rows, fld, jobVars, otherVars>>

RunPostCommit ==
  IF postCommit = "none" THEN UNCHANGED <<hdr, trackVars>> ELSE Flush

CommitDone ==
  /\ ~idleCommit
  /\ \/ /\ CalledBack("commit")
        /\ driver' = [driver EXCEPT !.phase = "timer", !.turned = FALSE,
                                    !.wait = "none"]
     \/ /\ CalledBack("lastCommit")
        /\ driver' = Paused([driver EXCEPT !.batch = FALSE, !.turned = FALSE,
                                           !.tx = FALSE, !.wait = "none"])
  /\ RunPostCommit
  /\ UNCHANGED <<msg, dbVars, jobVars, otherVars>>

(* observe("idle"): the transaction of an ended batch is committed, and    *)
(* nothing waits for it.                                                   *)
IdleCommit ==
  /\ driver.tx /\ ~driver.batch /\ ~idleCommit
  /\ driver' = [driver EXCEPT !.tx = FALSE]
  /\ disk' = Snapshot
  /\ IF Has("idleRace")
     THEN /\ idleCommit' = TRUE
          /\ postCommit' = IF postCommit = "open" THEN "sent" ELSE postCommit
          /\ UNCHANGED <<hdr, pending>>
     ELSE RunPostCommit /\ UNCHANGED idleCommit
  /\ UNCHANGED <<case, msg, rows, fld, jobVars, sweepDue, spent>>

IdleCommitDone ==
  /\ idleCommit
  /\ idleCommit' = FALSE
  /\ IF postCommit = "sent" THEN Flush ELSE UNCHANGED <<hdr, trackVars>>
  /\ UNCHANGED <<case, msg, dbVars, jobVars, driver, sweepDue, spent>>

-----------------------------------------------------------------------------
(* The jobs.                                                               *)

SweepPassesDirty(f) ==  \* faulty: only filthy folders are indexed
  (fld[f].dirty # "filthy" /\ ~fld[f].compacted) \/ fld[f].compacting
SweepPasses(f) == (fld[f].dirty = "clean" /\ ~fld[f].compacted) \/ fld[f].compacting

(* The folders are in the order of their priorities, which may be any.     *)
IndexingSweep ==
  /\ Runs /\ job = NoJob /\ queue # <<>>
  /\ Head(queue).type = "sweep"
  /\ LET folders == Head(queue).left
         passed == {f \in folders : SweepPasses(f)}
     IN \/ /\ folders = passed
           /\ queue' = Tail(queue)
        \/ \E f \in folders \ passed, before \in SUBSET passed :
             queue' = Tail(queue)
               \o (IF fld[f].compacted THEN <<CompactJob(f)>> ELSE <<>>)
               \o (IF fld[f].dirty # "clean" THEN <<FolderJob(f)>> ELSE <<>>)
               \o <<SweepJob(folders \ ({f} \cup before))>>
  /\ Pause
  /\ UNCHANGED <<mailVars, trackVars, dbVars, job, inFolder, otherVars>>

(* _worker_folderIndex up to its second pass. *)
FolderIndexBegins ==
  /\ Runs /\ job.type = "folder" /\ job.stage = "new"
  /\ LET f == job.folder IN
     /\ IF fld[f].dirty = "filthy"
        THEN /\ hdr' = [m \in Message |->
                  IF m \in Delivered(f) /\ hdr[m].id
                  THEN [hdr[m] EXCEPT !.dirty = "filthy"] ELSE hdr[m]]
             /\ fld' = [fld EXCEPT ![f].dirty = "dirty"]
        ELSE UNCHANGED <<hdr, fld>>
     /\ job' = [job EXCEPT !.stage = "pass", !.left = Delivered(f)]
  /\ Pause
  /\ UNCHANGED <<msg, trackVars, rows, disk, queue, inFolder, otherVars>>

(* The enumerator looks at each header when its turn comes. *)
FolderIndexVisits ==
  /\ Runs /\ job.type = "folder" /\ job.stage = "pass" /\ job.at = NoMessage
  /\ LET wanted == {m \in job.left : WantsIndexing(m)} IN
     \E m \in wanted, before \in SUBSET (job.left \ wanted) :
       job' = [job EXCEPT !.at = m, !.left = @ \ ({m} \cup before)]
  /\ WaitFor("index")
  /\ UNCHANGED <<mailVars, trackVars, dbVars, queue, inFolder, otherVars>>

FolderIndexEnds ==
  /\ Runs /\ job.type = "folder" /\ job.stage = "pass" /\ job.at = NoMessage
  /\ \A m \in job.left : ~WantsIndexing(m)
  /\ fld' = [fld EXCEPT ![job.folder].dirty = "clean"]
  /\ JobEnds /\ LeaveFolder
  /\ Pause
  /\ UNCHANGED <<mailVars, trackVars, rows, disk, queue, otherVars>>

MessageIndexVisits ==
  /\ Runs /\ job.type = "message" /\ job.at = NoMessage /\ job.items # <<>>
  /\ LET item == Head(job.items)
         f == Home(item.m)
         next == [job EXCEPT !.items = Tail(@)]
     IN IF fld[f].compacting \/ fld[f].compacted
        THEN job' = next /\ Pause /\ UNCHANGED inFolder
        ELSE /\ inFolder' = f
             /\ IF msg[item.m].key = item.key
                THEN job' = [next EXCEPT !.at = item.m] /\ WaitFor("index")
                ELSE job' = next /\ Pause
  /\ UNCHANGED <<mailVars, trackVars, dbVars, queue, otherVars>>

MessageIndexEnds ==
  /\ Runs /\ job.type = "message" /\ job.at = NoMessage /\ job.items = <<>>
  /\ JobEnds /\ LeaveFolder
  /\ Pause
  /\ UNCHANGED <<mailVars, trackVars, dbVars, queue, otherVars>>

(* _indexMessage: the message streams and its relatives are looked up; then *)
(* grokNounItem reads its attributes; then the row is written and tracked. *)
MessageRead ==
  /\ CalledBack("index")
  /\ job' = IF job.at = NoMessage THEN job
            ELSE [job EXCEPT !.read = msg[job.at].version]
  /\ driver' = [driver EXCEPT !.phase = "timer", !.wait = "none"]
  /\ UNCHANGED <<mailVars, trackVars, dbVars, queue, inFolder, otherVars>>

IndexMessage ==
  /\ Runs /\ job.at # NoMessage
  /\ rows' = [rows EXCEPT ![job.at] = [version |-> job.read, key |-> msg[job.at].key]]
  /\ Track({job.at})
  /\ job' = [job EXCEPT !.at = NoMessage, !.read = 0]
  /\ Pause
  /\ UNCHANGED <<mailVars, fld, disk, queue, inFolder, otherVars>>

(* _worker_folderCompactionPass. A folder that has been processed already  *)
(* is not left again.                                                      *)
CompactionPassBegins ==
  /\ Runs /\ job.type = "compact"
  /\ IF fld[job.folder].compacted
     THEN job' = [job EXCEPT !.stage = "match"] /\ WaitFor("fetch")
     ELSE JobEnds /\ Pause
  /\ UNCHANGED <<mailVars, trackVars, dbVars, queue, inFolder, otherVars>>

(* A row without a header that claims it is tracked again (case 1a); the   *)
(* other rows take the keys of their headers.                              *)
CompactionPassMatches ==
  /\ CalledBack("fetch") /\ job.stage = "match"
  /\ LET known == {m \in Delivered(job.folder) : rows[m].version > 0}
         claimed == {m \in known : hdr[m].id /\ hdr[m].dirty # "filthy"}
     IN /\ Track(known \ claimed)
        /\ rows' = [m \in Message |->
             IF m \in known THEN [rows[m] EXCEPT !.key = msg[m].key] ELSE rows[m]]
  /\ job' = [job EXCEPT !.stage = "flushed"]
  /\ WaitFor("fetch")
  /\ UNCHANGED <<mailVars, fld, disk, queue, inFolder, otherVars>>

CompactionPassEnds ==
  /\ CalledBack("fetch") /\ job.stage # "match"
  /\ IF job = NoJob
     THEN UNCHANGED <<fld, job, inFolder>>
     ELSE /\ fld' = [fld EXCEPT ![job.folder].compacted = FALSE]
          /\ JobEnds /\ LeaveFolder
  /\ Pause
  /\ UNCHANGED <<mailVars, trackVars, rows, disk, queue, otherVars>>

-----------------------------------------------------------------------------
(* The events.                                                             *)

PendingAddJob == {i \in DOMAIN queue : queue[i].type = "message"}
EventOverflows == \E i \in PendingAddJob : Len(queue[i].items) >= EventBudget

QueuedEvent(item) ==
  IF PendingAddJob = {} THEN Append(queue, MessageJob(<<item>>))
  ELSE IF EventOverflows THEN SweepNeeded(queue)
  ELSE [i \in DOMAIN queue |->
          IF i \in PendingAddJob
          THEN [queue[i] EXCEPT !.items = Append(@, item)] ELSE queue[i]]

(* Faulty: only the job knows that the message has changed.                *)
ReindexWithoutMark(m) ==
  /\ queue' = QueuedEvent([m |-> m, key |-> msg[m].key])
  /\ driver' = Kicked(driver)
  /\ UNCHANGED <<hdr, trackVars, fld>>

(* _reindexChangedMessages for one message, which has the key it has now.  *)
ReindexChangedMessage(m) ==
  IF fld[Home(m)].dirty = "filthy"
  THEN UNCHANGED <<hdr, trackVars, fld, queue, driver>>
  ELSE LET state == GlodaState(m)
           indexed == state.id /\ state.dirty # "filthy"
       IN /\ hdr' = IF indexed /\ state.dirty = "clean"
                    THEN [hdr EXCEPT ![m].dirty = "dirty"] ELSE hdr
          /\ pending' = IF indexed /\ pending[m].byKey
                        THEN [pending EXCEPT ![m].dirty = "dirty"] ELSE pending
          /\ fld' = [fld EXCEPT ![Home(m)].dirty =
                       IF @ = "clean" THEN "dirty" ELSE @]
          /\ queue' = QueuedEvent([m |-> m, key |-> msg[m].key])
          /\ driver' = Kicked(driver)
          /\ UNCHANGED postCommit

PassedBy(m) ==
  /\ job.type = "folder" /\ job.folder = Home(m) /\ job.stage = "pass"
  /\ m \notin job.left \cup {job.at}

(* A message arrives and is classified, or the user changes it.            *)
Change(m) ==
  /\ m \in case.mail /\ msg[m].version < MaxVersion
  /\ ~fld[Home(m)].compacting
  /\ job.at = m /\ job.read > 0 => Has("inHand")
  /\ PassedBy(m) => Has("behind")
  /\ EventOverflows => Has("overflow")
  /\ msg' = [msg EXCEPT ![m].version = @ + 1]
  /\ ReindexChangedMessage(m)
  /\ UNCHANGED <<rows, job, inFolder, otherVars>>
  /\ Persist

(* The purge compares the id of a job with a property an nsIMsgFolder does *)
(* not have, so it finds no job.                                           *)
FolderCompactStart(f) ==
  /\ Has("compact") /\ spent.compactions < MaxCompactions
  /\ ~fld[f].compacting /\ Delivered(f) # {}
  /\ fld' = [fld EXCEPT ![f].compacting = TRUE]
  /\ KillIfIn(f)
  /\ pending' = [m \in Message |->
       IF Home(m) = f THEN [pending[m] EXCEPT !.byKey = FALSE] ELSE pending[m]]
  /\ spent' = [spent EXCEPT !.compactions = @ + 1]
  /\ UNCHANGED <<case, mailVars, postCommit, rows, disk, queue, driver,
                 idleCommit, sweepDue>>

(* Messages behind a removed one get new keys, and the old database goes   *)
(* away with its headers (onAnnouncerGoingAway kills a job in the folder). *)
FolderCompactFinish(f) ==
  /\ fld[f].compacting
  /\ \E moved \in SUBSET Delivered(f) :
       /\ msg' = [m \in Message |->
            IF m \in moved THEN [msg[m] EXCEPT !.key = 1 - @] ELSE msg[m]]
       /\ pending' = [m \in Message |->
            IF Home(m) # f THEN pending[m]
            ELSE [pending[m] EXCEPT !.byId = FALSE, !.byKey = @ /\ m \notin moved]]
  /\ fld' = [fld EXCEPT ![f].compacting = FALSE, ![f].compacted = TRUE]
  /\ KillIfIn(f)
  /\ queue' = queue
       \o (IF fld[f].dirty # "filthy" THEN <<CompactJob(f)>> ELSE <<>>)
       \o (IF fld[f].dirty = "dirty" THEN <<FolderJob(f)>> ELSE <<>>)
  /\ driver' = IF queue' = queue THEN driver ELSE Kicked(driver)
  /\ UNCHANGED <<hdr, postCommit, rows, otherVars>>
  /\ Persist

GoOffline ==
  /\ Has("offline") /\ ~driver.suppressed
  /\ driver' = [driver EXCEPT !.suppressed = TRUE]
  /\ UNCHANGED <<mailVars, trackVars, dbVars, jobVars, otherVars>>

GoOnlineQuietly ==  \* faulty
  /\ driver.suppressed
  /\ driver' = [driver EXCEPT !.suppressed = FALSE]
  /\ UNCHANGED <<mailVars, trackVars, dbVars, jobVars, otherVars>>

GoOnline ==
  /\ driver.suppressed
  /\ driver' = [driver EXCEPT !.suppressed = FALSE,
                  !.phase = IF @ = "idle" /\ driver.desired THEN "timer" ELSE @]
  /\ UNCHANGED <<mailVars, trackVars, dbVars, jobVars, otherVars>>

ScheduleInitialSweep ==
  /\ sweepDue
  /\ sweepDue' = FALSE
  /\ queue' = SweepNeeded(queue)
  /\ driver' = IF queue' = queue THEN driver ELSE Kicked(driver)
  /\ UNCHANGED <<case, mailVars, trackVars, dbVars, job, inFolder, idleCommit,
                 spent>>

-----------------------------------------------------------------------------
(* The session ends and the next one begins. A quit commits the open       *)
(* transaction, but no callback runs any more (handleCompletion bails out);*)
(* a crash leaves the last commit.                                         *)

NewSession ==
  /\ spent.restarts < MaxRestarts
  /\ spent' = [spent EXCEPT !.restarts = @ + 1]
  /\ pending' = [m \in Message |-> NotTracked]
  /\ postCommit' = "none"
  /\ queue' = <<>> /\ JobEnds /\ LeaveFolder
  /\ driver' = StartedDriver
  /\ idleCommit' = FALSE
  /\ sweepDue' = TRUE
  /\ UNCHANGED <<case, mailVars>>

Quit ==
  /\ Has("quit")
  /\ NewSession
  /\ fld' = [f \in Folder |-> [fld[f] EXCEPT !.compacting = FALSE]]
  /\ disk' = Snapshot
  /\ UNCHANGED rows

Crash ==
  /\ Has("crash")
  /\ NewSession
  /\ rows' = disk.rows
  /\ fld' = [f \in Folder |-> [dirty |-> disk.dirty[f], compacting |-> FALSE,
                               compacted |-> disk.compacted[f]]]
  /\ UNCHANGED disk

-----------------------------------------------------------------------------
(* At first nothing is indexed: a folder that has messages is filthy.      *)
Init ==
  /\ case \in Cases
  /\ \E full \in SUBSET Folder :
       /\ msg = [m \in Message |->
            [version |-> IF m \in case.mail /\ Home(m) \in full THEN 1 ELSE 0,
             key |-> 0]]
       /\ fld = [f \in Folder |->
            [dirty |-> IF f \in full THEN "filthy" ELSE "clean",
             compacting |-> FALSE, compacted |-> FALSE]]
  /\ hdr = [m \in Message |-> [id |-> FALSE, dirty |-> "clean"]]
  /\ pending = [m \in Message |-> NotTracked]
  /\ postCommit = "none"
  /\ rows = [m \in Message |-> NoRow]
  /\ disk = Snapshot
  /\ queue = <<>> /\ job = NoJob /\ inFolder = NoFolder
  /\ driver = StartedDriver
  /\ idleCommit = FALSE
  /\ sweepDue = TRUE
  /\ spent = [compactions |-> 0, restarts |-> 0]

DriverTurn ==
  \/ Hire \/ NothingToHire \/ IndexingSweep
  \/ FolderIndexBegins \/ FolderIndexVisits \/ FolderIndexEnds
  \/ MessageIndexVisits \/ MessageIndexEnds \/ IndexMessage
  \/ CompactionPassBegins

Callback ==
  \/ MessageRead \/ CompactionPassMatches \/ CompactionPassEnds \/ CommitDone

Next ==
  \/ DriverTurn \/ Callback
  \/ Commit \/ IdleCommit \/ IdleCommitDone
  \/ \E m \in Message : Change(m)
  \/ \E f \in Folder : FolderCompactStart(f) \/ FolderCompactFinish(f)
  \/ GoOffline \/ GoOnline \/ ScheduleInitialSweep
  \/ Quit \/ Crash

Spec == Init /\ [][Next]_vars

(* The timers fire, the database and the messages' streams call back, a    *)
(* compaction ends and the network returns.                                *)
Fairness ==
  /\ WF_vars(DriverTurn) /\ WF_vars(Callback) /\ WF_vars(IdleCommitDone)
  /\ WF_vars(ScheduleInitialSweep) /\ WF_vars(GoOnline)
  /\ \A f \in Folder : WF_vars(FolderCompactFinish(f))

FairSpec == Spec /\ Fairness

-----------------------------------------------------------------------------
Without(circumstances) == case.env \cap circumstances = {}

(* The variables have their types, a wait belongs to a running batch, and  *)
(* only a job of messages or a folder's job has a message in hand.         *)
TypeOK ==
  /\ case \in Cases
  /\ msg \in [Message -> [version : 0..MaxVersion, key : 0..1]]
  /\ hdr \in [Message -> [id : BOOLEAN, dirty : {"clean", "dirty", "filthy"}]]
  /\ pending \in [Message -> [byKey : BOOLEAN, byId : BOOLEAN,
                              dirty : {"clean", "dirty"}]]
  /\ postCommit \in {"none", "open", "sent"}
  /\ rows \in [Message -> [version : 0..MaxVersion, key : 0..1]]
  /\ \A f \in Folder : fld[f].dirty \in {"clean", "dirty", "filthy"}
  /\ inFolder \in Folder \cup {NoFolder}
  /\ driver.phase \in {"idle", "timer", "wait"}
  /\ driver.phase = "wait" <=> driver.wait # "none"
  /\ driver.phase = "wait" => driver.batch /\ driver.tx
  /\ job.at # NoMessage => job.type \in {"folder", "message"}
  /\ job.read > 0 => job.at # NoMessage

UpToDate(m) == msg[m].version \in {0, rows[m].version}
Marked(m) ==
  LET f == Home(m) IN
  fld[f].dirty = "filthy" \/ (fld[f].dirty = "dirty" /\ WantsIndexing(m))
Queued(m) ==
  \/ \E i \in DOMAIN job.items : job.items[i].m = m
  \/ \E j \in DOMAIN queue : \E i \in DOMAIN queue[j].items : queue[j].items[i].m = m
InHand(m) == job.at = m /\ job.read \in {0, msg[m].version}

(* A change the index does not have yet is not forgotten: the message and  *)
(* its folder are marked for a sweep, or a job has it.                     *)
ChangeIsRemembered ==
  /\ Without({"overflow", "compact", "crash"})
  /\ Without({"inHand", "behind"}) \/ Without({"quit"})
  => \A m \in Message : UpToDate(m) \/ Marked(m) \/ Queued(m) \/ InHand(m)

(* A header does not run ahead of the database: when it says that the      *)
(* message is indexed the row is committed, and when it says clean the row *)
(* is of this version.                                                     *)
HeaderFollowsCommit ==
  Without({"idleRace"}) =>
  \A m \in Message : hdr[m].id =>
    /\ disk.rows[m].version > 0
    /\ Without({"inHand", "compact"}) /\ hdr[m].dirty = "clean"
       => disk.rows[m].version = msg[m].version

(* A row that no longer has its message's key is in a folder that waits    *)
(* for its compaction pass.                                                *)
KeysAreFollowed ==
  Without({"crash"}) =>
  \A m \in Message :
    rows[m].version > 0 /\ rows[m].key # msg[m].key
    => fld[Home(m)].compacting \/ fld[Home(m)].compacted

(* What the mail folders and the database say of each other agrees.        *)
MailAndIndexAgree == HeaderFollowsCommit /\ KeysAreFollowed

(* While there is a job the driver is driven: a timer or a callback is     *)
(* due, unless indexing is suppressed.                                     *)
DriverIsDriven ==
  queue # <<>> \/ job # NoJob =>
    driver.desired /\ (driver.phase = "idle" => driver.suppressed)

(* In the end the index has every message as it is.                        *)
EventuallyIndexed ==
  /\ Without({"overflow", "compact", "crash"})
  /\ Without({"inHand", "behind"}) \/ Without({"quit"})
  => \A m \in Message : <>[]UpToDate(m)

(* A quit loses no change: when a new session begins, what the index does  *)
(* not have is marked.                                                     *)
ChangeSurvivesQuit ==
  spent.restarts > 0 /\ sweepDue /\ Without({"crash"}) =>
    \A m \in Message : UpToDate(m) \/ Marked(m)
=============================================================================
