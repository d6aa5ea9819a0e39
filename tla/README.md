# Verification project for the mail client (comm-central, ESR 52)

This directory holds TLA+ models of the parts of Thunderbird, Calendar and
Instantbird in this repository whose correctness depends on the *order* in
which things happen: queues that are re-entered by their own listeners,
background operations whose completion has to be matched to a request, retries,
timers, caches, and what is left on disk when the application ends.  Seven
components are modelled: the message copy service and the send-later service
(C++), the calendar cache, the alarm service, the provider of calendars in one
file, the chat accounts and the global indexer (JavaScript).  All are checked
with TLC on small instances, and theorems that hold for every number of requests,
folders, messages, items and accounts are checked with TLAPS.

`PROJECT.json` lists components, runs, the lines each definition stands for,
a faulty variant of the code for every property (the run must reject it), the
hazards and the theorems.

## 1. Inventory

The repository is an application, not a library: about 9000 files, of which a
large part is user interface, styling, localisation, third-party libraries
(libical, LDAP SDK, mork, jsmime) and tests.  The components with logic of
their own, the state they keep and what can go wrong:

| Component | State | Operations, and who calls them | Hard behaviour | What makes it correct |
|---|---|---|---|---|
| Message copy service, `mailnews/base/src/nsMsgCopyService.cpp` | queue of copy requests, each with sources, "processed" flags, listener, undo batch | `CopyMessages`, `CopyFolders`, `CopyFileMessage` from the UI, filters, send, junk; `NotifyCompletion` from destination folders | completion is matched by (source, destination); listeners re-enter; destinations finish inside the call or later | one copy per destination, FIFO, each listener stopped once, nothing stalls |
| Local and IMAP folders as copy destinations, `nsLocalMailFolder.cpp`, `nsImapMailFolder.cpp`, `nsImapUndoTxn` | the folder's copy state, folder semaphore | called by the copy service, by stream callbacks and by URL completions | errors on many paths, each of which has to notify exactly once | every accepted operation notifies once |
| Send later, `mailnews/compose/src/nsMsgSendLater.cpp` | list of messages to send, enumerator, current message, timer and its flag, listeners, shutdown listener | `SendUnsentMessages`, timer, folder listener; callbacks of reading, sending, copying, rebuilding the summary | an error nobody takes up; a run asked for during a run; quitting | one run, one step; listeners pair up; no message lost or sent twice; the run ends |
| Compose and send, `nsMsgSend.cpp`, `nsSmtpProtocol.cpp` | pending attachments, send state, SMTP protocol state | `CreateAndSendMessage`, `Abort`, stream events | abort while a copy or a delivery is in flight | the message is delivered at most once per send and filed |
| Biff manager, `nsMsgBiffManager.cpp` | sorted array of (server, next biff time), timer | server added/removed, preference changes, timer | the timer callback edits the array it scans | each server is on the list once, sorted, a timer is armed |
| Purge service, `nsMsgPurgeService.cpp` | last purge times, search session | timer, search results | search still running at next timer | one search at a time |
| Folder compaction, `nsMsgFolderCompactor.cpp` | folder list, index, locks, temporary files | `CompactFolders`, URL callbacks | crash or failure between replacing the mbox and its summary | no message lost, locks released |
| Offline manager, `nsMsgOfflineManager.cpp` | state machine over send, download, playback | `GoOnline`, `SynchronizeForOffline`, URL callbacks | failure of one step | every requested step runs, in order |
| IMAP connection pool, `nsImapIncomingServer.cpp` | connection cache, URL queue, parallel consumer queue | UI thread queues URLs, protocol threads finish | URLs that can reuse a busy connection, retries, connection limit | no URL is lost or run twice |
| IMAP auto-sync, `nsAutoSyncManager.cpp`, `nsAutoSyncState.cpp` | priority and update queues, per-folder state | idle/timer, folder change notifications, download completions | stale queue entries, retries | a queued folder is downloaded or dropped |
| IMAP offline playback, `nsImapOfflineSync.cpp` | offline operations, playback iterator | going online, URL completions | failing operations, restarts | every operation is played back once |
| POP3, `nsPop3Protocol.cpp`, `nsPop3Sink.cpp` | UIDL table, download counters, mailbox position | server responses, sink callbacks | connection lost between download and delete | a message is not deleted before it is stored |
| Shutdown service, `nsMsgMailSession.cpp` | list of tasks, index, progress | quit notifications, task completions | tasks that end before they are run, a second attempt to quit | every task is run once, then the application quits |
| Gloda indexer, `mailnews/db/gloda/modules/indexer.js`, `index_msg.js`, `datastore.js` | job queue, current job, callback stack, pending commits | folder events, idle timer, asynchronous SQL | jobs cancelled while suspended, notifications during a sweep | each dirty message ends up indexed |
| Message databases, views, filters, search, address book, MIME | summary files, view index arrays | UI, protocols | view update while sorting or threading | views agree with databases |
| Calendar cache, `calCachedCalendar.js` | cached items, offline flags, pending refresh | UI operations, provider refresh, network state | an operation while a refresh replays local changes | a local change is not lost or applied twice |
| Calendar providers, `calStorageCalendar.js`, `calICSCalendar.js`, `caldav`, `wcap`, `memory`, `composite` | items, operation queues, locks | UI operations, network completions | queued writes, ETag mismatch, failing puts | each operation reports once, in order |
| Calendar transactions, `calTransactionManager.js` | undo/redo stacks with asynchronous do | UI | undo asked for while the do is under way | undo restores the item |
| Calendar alarms, `calAlarmService.js`, `calAlarmMonitor.js` | timers per calendar, item and alarm; loaded flags | calendar observers, timer | item changed while a load is pending | one timer per future alarm |
| Chat accounts, `chat/components/src/imAccounts.js` | connection state, reconnect attempts and timer, auto-login state | UI, protocol plugins, network | plugin reports disconnect during connect; crash detection | status agrees with the protocol |
| Chat conversations, contacts, logger, sockets, IRC and XMPP protocols | conversation list, buddy tree, write queues, session state machines | network data, UI | data arriving after disconnect | session stages only advance |
| User interface, suite, themes, locales, editor, build, vendored libraries | - | - | - | not modelled |

Modelled are the copy service, send later, the calendar cache and the calendar
alarms; in part, the chat accounts with the IRC sockets below them, the calendar
providers (`calICSCalendar`, and the offline flags of `calStorageCalendar`), the
gloda indexer, and, as surroundings of the first two, the folders as copy
destinations, the shutdown service and the sending of a message.

Everything on the UI thread is single-threaded: what interleaves is event-loop
turns, nested callbacks and asynchronous completions.  The exceptions are IMAP
protocol objects (one thread each) and SQL statements of the gloda and calendar
stores.

## 2. The copy service

Source: `src/mailnews/base/src/nsMsgCopyService.cpp`.  Modules:
`CopyService` (the code), `CopyPromise` (what its callers rely on),
`MCCopyService` (instances for TLC), `CopyServiceProofs` (theorems for every
circumstance), `CopyMatchingProofs` (theorems for orderly callers).

### State

| Variable | Code |
|---|---|
| `m_copyRequests` | the member of that name, oldest first |
| `req[r]` | the `nsCopyRequest` r: type, `m_srcSupport`, `m_dstFolder`, `m_dstFolderName`, the source array and the set `handled` of sources whose `m_processed` is set |
| `starts`, `stops` | history: the service's `OnStartCopy` and `OnStopCopy` calls of the request's listener |
| `told` | history: `OnStopCopy` calls of that listener by a folder, behind the service's back |
| `inFlight`, `copied` | history and environment: operations a folder works on after its call returned, operations finished with success |
| `undoBatches` | requests between `BeginBatch` and `EndBatch` of the transaction manager |
| `callStack` | the activations of the service that have not returned; see below |
| `alive` | FALSE after the destructor |

The service runs on one thread, but it calls out in the middle of its loops: to
the destination (`CopyMessages`, `CopyFolder`, `CopyFileMessage`), which may
call `NotifyCompletion` before it returns, and to `OnStopCopy`, which may submit
the next request.  `callStack` therefore keeps one frame for each activation:
`DoNextCopy` (about to scan), `Copying` (inside the destination's method),
`NotifyCompletion` (between two turns of its loop, with `numOrigRequests`) and
`OnStopCopy` (inside the listener).  Only the top frame moves, and a submission
is possible from an empty stack (the event loop) or from a listener.

### Actions

`CopyMessages`, `CopyNoMessages`, `CopyFolders`, `CopyFileMessage` are the three
entry points (`CopyNoMessages` is the early return for an empty message array);
each includes `Init`, `AddNewCopySource`, `QueueRequest` and `DoCopy`.
`DoNextCopy` is the FIFO scan up to and including the start of the source it
finds.  `FolderWorksOn`, `FolderNotifiesAtOnce`, `FolderRefuses`,
`FolderFailsSilently`, `FolderCallReturns` are what can happen inside the
destination's method; `FolderNotifies`, `FolderEndsSilently`, `FolderTellsListener`,
`AbortFileCopy` what happens to the operation afterwards.  `FolderTellsListener` is
the failing end of `nsImapFolderCopyState`, which calls the request's listener itself
and does not notify the service; `FolderTellsAgain` is the end of
`nsMsgMaildirStore::CopyMessages`, which does both.  `CompletionKeys` is what a
notification names, `StrayKeys` among it the pairs by which two kinds of folder
report a folder copy and which no request has.  `NotifyCompletion` is one turn of the
loop: clear the request that was found, or leave the loop and call `DoNextCopy`.
`ClearRequest` removes the request, closes its batch and calls the listener.
`Destroy` is the destructor.

`Env` names what the surroundings do beyond the orderly minimum; every element
is something the repository's callers or folders do: re-entrant listeners,
duplicate and repeated (source, destination) pairs, a refused `CopyFolder`, an
operation that ends without a notification, a folder that calls the listener
itself, a folder copy reported as another pair, a move that renames the folder
("name(2)"), a cancelled send.

### Runs

| Run | Instance | Shows |
|---|---|---|
| `copy_open` | 3 requests, 2 folders (symmetric), 1 file, at most two sources, every circumstance of `Env` | `RequestsAreClosed`: whatever the surroundings do, a request is on the queue exactly until the service clears it and stops its listener, which it does once, and batches pair up; where folders leave it to the service (no `tells`), a listener hears of the end once; `StartsInOrder`: starts are FIFO per destination |
| `copy_live` | 3 requests, 2 folders, 1 file; one source per request, re-entrant listeners, folders that notify success or failure | `OneCopyPerTarget`; `CompletionsAreMatched`: the request of a busy destination is still queued, success is reported only for what was copied, a copied request does not stay; `QueueNeverStalls`: each queued request waits for an operation in its destination; `KeepsFairPromise`: the service implements `CopyPromise`, in whose queues every request ends |

`CopyPromise` keeps for each folder the set of requests it still has to deal with;
as requests are numbered in the order they are submitted, the oldest one is the
least.  The refinement maps that set to the listed requests with this destination,
and how far a request has come to the history of `OnStartCopy` and `OnStopCopy`.

The circumstances that `copy_live` leaves out break one of its properties each;
section 9 says how.

### Bounds

Each cfg fixes the pool of request objects (a request object is created once, so
the pool also bounds the number of submissions; when it is used up the system
stops, which is why deadlock is not checked).  Three requests and two folders
are the smallest numbers with: an older and a younger request for one folder
plus a request for another, a listener submitting a third request while two are
nested, and a completion that finds more than one candidate.  Folders are
interchangeable (`Symmetry`, used for `copy_open`); requests
are not, as they are numbered in the order of creation.  `MaxSources = 2` is the
smallest request whose sources are started one by one.  `callStack` is not
bounded: its depth is bounded by the pool.

### Fairness

`WF(Resume)`: the UI thread, once inside the service, runs on; nothing in the
service waits.  `WF(FolderNotifies(op))` for each operation: an operation a
folder has accepted ends.  No fairness is assumed for submissions.  The
circumstances in which a folder never reports (`silent`) are excluded from
`copy_live`, not assumed away by fairness.

### Abstractions

Messages are not modelled; a source stands for the messages of one folder.
Message flags, keywords, the logging and the folder-notification service are
left out.  A destination that has called `NotifyCompletion` inside `CopyFolder`
then returns success (otherwise `DoNextCopy` would clear a request it has
already deleted).  Listeners do not re-enter the service from `OnStartCopy`,
and modal dialogs with their nested event loops are not modelled.  The message
request that a cross-server folder copy issues with the same source support is
not modelled yet, nor are the notifications of its subfolders
(`CopyAllSubFolders`), which match no request and only lead to one more
`DoNextCopy`, and the second `OnStartCopy` of a Maildir store.  A failing
`nsImapFolderCopyState` tells the listener from the event loop or from the
listener of the message copy it has issued, which are the two places where it
learns of a failure.  The destructor runs from the event loop.  Error codes that
`DoNextCopy` hands up through nested activations are ignored by all callers but
the outermost, and left out.

## 3. The send-later service

Source: `mailnews/compose/src/nsMsgSendLater.cpp` (with the parts of
`nsLocalMailFolder.cpp`, `nsMsgSend.cpp` and `nsMsgMailSession.cpp` it waits
for).  Modules: `SendLater`, `MCSendLater`, `SendLaterProofs`.

### State

| Variable | Code |
|---|---|
| `outbox` | the messages in the unsent messages folder |
| `dbValid`, `m_parsingFolder`, `mReparseListener` | the folder's summary file is up to date; the folder's members of that name (the listener is this service or null) |
| `mUserInitiated` | the member |
| `mSendingMessages`, `mMessage`, `mEnumerator` | the members; `mEnumerator` is the set of messages the run has not taken up, and stands for `mMessagesToSend` as well, which is empty whenever a run begins |
| `pending` | the step whose callback has not come: `read` (the stream of the message), `send` (`nsIMsgSend`), `copy` (the copy to the Sent folder).  A set, so that "at most one" is a property and not an assumption |
| `mTimerSet`, `timerArmed` | the member, and whether `mTimer` is really running |
| `mShutdownTasks`, `mShutdownListener` | the service is on the shutdown service's list; the member is set |
| `online` | what `WeAreOffline` reads |
| `deposited`, `removed`, `tried`, `delivered`, `runsOpen`, `asked` | history: what was put into the folder, deleted by the user, taken up by a run, taken by the server; notifications; the user's request that waits for the folder |

### Actions

`InternalSendMessages` is the whole of that function: refused offline or during
a run, waiting for the folder when the summary is out of date, or a run.  It is
part of `SendUnsentMessages`, `TimerFires` and `ReparseDone`.  A run is carried
by `StepCallback`: `ReadDone`, `SendDone`, `CopyDone` each take one step off
`pending` and go on with `StartNextOrEnd`, which is `StartNextMailFileSend` and
the `EndSendMessages` of its callers when it fails.  `FirstFails` is the one
caller that does not end the run.  `DeleteCurrentMessage` is part of
`SendDone`; `OnItemAdded` is the folder listener; `HasUnsentMessages` the query
of the user interface; `QuitRequested`, `DoShutdownTask` and `QuitApplication`
the shutdown.  `Env` names what may go wrong or what the user may do besides.

### Runs

All instances have two ordinary messages and one with the Queued flag, in the
folder or not when the application starts.

| Run | `Env` | Shows |
|---|---|---|
| `send_open` | everything | `RunIsConsistent`: one run with at most one outstanding step, concerning `mMessage`; `OnStartSending` and `OnStopSending` alternate; the shutdown service does not wait for a run that is over.  `NothingLost`: no message vanishes |
| `send_live` | messages that cannot be sent, a user who deletes; no deposit during a run | no message is sent twice; a run always waits for a callback; `mTimerSet` is right; runs end, and every ordinary message put into the folder is tried |

Three messages are enough for a run that has a past, a present and a future
message; two of them are alike so that a list can be non-trivial in a background
run too.  A message is put into the folder at most once (the only bound besides
the set of messages); `delivered` stops counting at two.  Runs, queries and
attempts to quit are not bounded.

### Fairness

Weak fairness of `TimerFires` (a timer that is armed fires), of `ReparseDone`
(parsing a local folder ends) and of `StepCallback` (`nsIInputStreamPump`,
`nsIMsgSend` and the copy service report the end of what was started).  No
fairness is assumed for users.  The ways in which a callback really fails to come
(`mailLost`, `firstFails`) are in `Env` (section 9); they are not hidden by
fairness.

### Abstractions

The order in which a run takes its messages is left open, which only adds
behaviours.  Header parsing and the temporary file are inside `read`.  A failed
rebuilding of the summary leaves it out of date.  `mailnews.sendInBackground`
is on.  A message's file is not deleted by the user while it is being read (the
folder is locked).  The one shutdown task considered is this service.  A message
stored in the folder during a rebuilding is not modelled: the folder is locked.
Where `CreateAndSendMessage` runs out of memory it may both notify its listener and
return an error (nsMsgSend.cpp:3295); the model has one or the other.

## 4. The calendar cache

Source: `calendar/base/src/calCachedCalendar.js` and the offline journal of
`calendar/providers/storage/calStorageCalendar.js`.  Modules: `CachedCalendar`,
`MCCachedCalendar`, `CachedCalendarProofs`.

### State

| Variable | Code |
|---|---|
| `cache` | the items of the storage calendar, each with its offline flag; an item's content is the time of its last change |
| `db` | the flags the storage calendar is reading (`getItemOfflineFlag`), with what the callback is to do |
| `requests` | what the uncached calendar was asked for, by the user's change or by a playback, and its answer |
| `playback` | the calls of `playbackOfflineItems` that go on: type of the items, items left, what comes after |
| `loading`, `sync`, `mSyncQueue`, `toAdd` | the uncached calendar's own refresh; the stage of `synchronize`; the responders waiting for it; the items still to be put into the new cache |
| `offline` | `Services.io.offline` |
| `disabled` | the property of the calendar |
| `server`, `owed` | environment and history: what the server has; the changes the user was told of that it lacks |
| `conflicts` | history: the items with versions on the server that the cache was not told of, by others or because an answer was lost |

### Actions

`AddItem`, `ModifyItem`, `DeleteItem` are the user's changes; `UserAnswered` is
the `cacheListener` of each, which falls back on an offline change when the
server is unavailable.  `DbReads` and `DbCallback` are the two halves of
reading a flag, with `doModifyItem`, `modifyOfflineItem` and
`deleteOfflineItem` behind them.  `ServerTakes` and `ServerRefuses` are the
server.  `UserRefreshes`, `GoOnline` and `UncachedLoaded` lead to `Synchronize`;
`ReplayDone` is the synchronisation of providers with a change log: `Replayed` is
what calDavCalendar writes to the cache of the items that changed on the server,
flagged or not, and the storage calendar drops the flag of what it is given.
`ItemsGot`, `AddGotItem`, `Reconcile` and `GetItemsFailed` are the synchronisation of
the others.  `Disable` is the user, or the provider, disabling the calendar;
`Synchronize` has the branch for it.
`PlaybackReads` and `PlaybackAnswered` are a step of the playback and its
`opListener`, with the resetting of the flag.  `Restart` ends the application
between any two of these.

### Runs

| Run | Shows |
|---|---|
| `cache_all` | `OwedIsKept`: an offline change keeps its flag until the server has it, or a change of the same item on the server overwrites it.  `AddFindsNoCopy`: a playback does not add what the server has.  `UnflaggedIsServers`: when nothing goes on, what has no flag is what the server has.  `SyncAnswered`: every responder in the queue is called.  `CreatedReachesServer`: an item created offline reaches the server |
| `cache_full_sync` | the disagreement of section 9: with providers synchronised in full, the offline changes are lost |

Each case of `AllCases` is a set of circumstances (of `Circumstances`) and a
kind of provider; a behaviour has one of them.  Unavailable and refusing servers
and failing downloads are in all of them.  The properties except, by
`Without(...)`, the circumstances that break them; section 9 lists these.

### Bounds

Two items, three times (an initial content and two changes), two playbacks at
once, one waiting responder counted.  Two changes are an edit and the edit of
the edit; two items let a playback be between two items; two playbacks are what
"a refresh during a refresh" needs.  The number of refreshes, restarts and
failures is not bounded.  A third change is beyond the time of the run: with it
(and one item) the inductive invariant of the proofs was checked, which showed
that `UnflaggedIsServers` needs `undoDelete` excluded.  The theorems of section 10
hold for any number of changes.

### Fairness

Callbacks of the database, of listeners and of the server come (weak fairness);
the calendar's refresh timer fires; and the server, asked for a change of an
item again and again, takes it some time (strong fairness): without this no
retry could ever be said to succeed.  Nothing is assumed of users, nor that a
playback succeeds at once.

### Abstractions

Queries, batches, properties of the calendar other than "disabled" and the
notification of observers are left out.  A calendar that was disabled stays so: it
is not refreshed by the user or by its timer, but still on going online.  A replay
brings any of the `conflicts` to the cache and leaves the other flagged items alone,
as their versions on the server are those the cache was told of.

## 5. The alarm service

Source: `calendar/base/src/calAlarmService.js`, `calAlarmMonitor.js`.  Modules:
`AlarmService`, `MCAlarmService`, `AlarmServiceProofs`.

### State

`mTimerMap` has each item's timer, `orphans` the timers that still run but are
in no map; `search[s]` is one `getListener` of `findAlarms`: for each calendar
whether it was asked, its items are being added, or it is done, what is left of
the slices of `cal.forEach`, `batchCount`, `results`, and whether the shared
promise is resolved.  `mRangeEnd`, `nextUpdate`, `mLoadedCalendars` are the
service's, `mAlarms` is the monitor's list (with a second copy counted),
`item`, `registered`, `suppressAlarms` are the calendars.  An item has two dates:
`end`, the last at which a search may begin and still find it, and `alarm`, when its
alarm is due.

### Actions

`UpdateTimerFires` is the callback of the update timer; `WakeUp` is the shutdown
and startup of the wake notification; `ItemsGot`, `SliceAdds`, `BatchAdded` are
`onOperationComplete`, one slice of `onGetResult` and the end of a batch.
`TimerFires` and `OrphanFires` are the alarm timers.  `UserChanges`,
`DismissAlarm`, `SnoozeAlarm` and `Reload` go through the calendars' observers
(`Notify`, `onLoad`); `Register`, `Unregister` and `SwitchSuppressAlarms` through
the calendar manager's and `onPropertyChanged`.

### Run `alarm_all`

`NothingStale`: alarms shown and timers running belong to items as they are, none
twice.  `EveryAlarmRings`: once no search goes on, each due alarm is shown or has
a timer, through overlapping searches, reloads, snoozes, suppression and sleep.
`LoadingEnds`: every calendar counts as loaded in the end.

Bounds: two items in two calendars, four ticks, an update every two ticks,
two searches at once, one or two changes per case.  Items end, and alarms are due,
before, at the end of, and after the range of the first search, in any combination
that matters: alarms before their item, with it, after it but before the next search,
and after both (`lateAlarm`); the second search is the one that may overlap or miss.
Deadlock is not checked: time is bounded.  Fairness: calendars answer and the
event queue moves on.

Abstractions: each item has one alarm; a search looks for items that end at its
beginning or later, and the end of its range, which lies further ahead than the
behaviour, is left out; a tick stands for an hour,
and the month a search looks back for the whole behaviour; alarms of recurring
items are those of separate items; time zones are left out.

## 6. Chat accounts

Source: `chat/components/src/imAccounts.js` over `chat/protocols/irc/irc.js`,
`ircBase.jsm` and `chat/modules/socket.jsm`.  Modules: `ChatAccounts`,
`MCChatAccounts`, `ChatAccountsProofs`.

### State

`acc[a]` joins the `imAccount` (error, status observer, reconnect timer and
attempts, first-connection state, pending auto-login), its `ircAccount` (state,
the two seconds for QUIT) and the socket (its stage, ping and disconnect timers,
and a second disconnect timer that replaced one).  These three call each other
synchronously, so a record and functions of it are the natural form.
`disk` and `saveTimer` are the preferences as saved and `SavePrefTimer`; `wanted`
and `lastEnd` are history: the user's last word on each account and how the last
session ended.

### Actions

The functions `Connect`, `Disconnect`, `GotDisconnected`, `ObserveStatus`,
`CheckAutoLogin`, `StartReconnectTimer`... are methods of the same names; the actions
are the events that call them: of the user (connect, disconnect, cancel, change
settings, delete, status), of timers (reconnection, QUIT, ping, no answer to the
ping, saving), of the server (opening, welcome, refusal, end, data, silence),
and `Start`, `Crash` and `Quit` of the application.

### Run `chat_all`

`UserDisconnectIsFinal`: what the user disconnected is not connected behind his
back.  `WantedIsNotForgotten`: a wanted account without a fatal error is
connected, on its way, or has a timer.  `CrashIsRemembered`: what was being
connected for the first time when the application crashed is not tried on the
next start, automatic login is off after a crash in its course and on after a
quit.  `DeadConnectionEnds`: disconnecting ends, and dead connections are given
up.  `LostReconnects`: a lost connection is tried again.

Bounds: one account (accounts do not influence one another but through the
auto-login counter, for which one case has two and a crash); the list of delays
has two entries.  Fairness: the timers fire and `executeSoon` runs; nothing is
expected of the server or of the user.

Abstractions: delays are "soon" (less than a second) or "later", which is the
one distinction the code makes; proxies, passwords and the order of accounts are
left out.

## 7. The global indexer

Source: `mailnews/db/gloda/modules/indexer.js`, `index_msg.js`, `datastore.js`,
`datamodel.js`.  Modules: `GlodaIndexer`, `MCGlodaIndexer`,
`GlodaIndexerProofs`.

### State

What is to be indexed is remembered in three places with different lives: jobs
(`queue`, `job`) in the session, the properties gloda-id and gloda-dirty of the
headers (`hdr`) in the mail folder, the status of folders (`fld`) and the rows
(`rows`) in the database under its transaction; `disk` is what was committed.
`pending` and `postCommit` are `PendingCommitTracker`, which sets the headers
when the rows are committed.  `driver` is `callbackDriver` with its batch:
idle, to run by a timer, or waiting for a named callback.

### Actions

`Hire`, `NothingToHire`, `Commit`, `CommitDone`, `IdleCommit`, `IdleCommitDone`
are the driver; `IndexingSweep`, `FolderIndexBegins`/`Visits`/`Ends`,
`MessageIndexVisits`/`Ends`, `MessageRead`, `IndexMessage` and
`CompactionPassBegins`/`Matches`/`Ends` are the workers, cut where their
generators yield; `Change`, `FolderCompactStart`, `FolderCompactFinish`,
`GoOffline`, `GoOnline`, `ScheduleInitialSweep`, `Quit` and `Crash` the events.

### Runs

| Run | Shows |
|---|---|
| `gloda_all` | `ChangeIsRemembered`: a change the index lacks is marked or queued.  `MailAndIndexAgree`: a header says "indexed" only of a committed row, "clean" only of one of this version, and a row whose key has changed is in a folder that waits for its compaction pass.  `DriverIsDriven`: while there is work, a timer or callback is due.  `EventuallyIndexed` |
| `gloda_quit` | the disagreement of section 9: a change behind the pass of a folder's job is lost with the session |

Bounds: two messages, in one folder or two, each with two versions at most; one
place in the event queue; one compaction; one restart.  The cases combine what
interferes: a message behind or in the hand of a pass needs a second one in the
same folder, sweeps over folders need two of these.  Deadlock is not checked:
an indexer with nothing to do stops.

Fairness: timers fire, the database and message streams call back, compactions
end and the network returns.

Abstractions: one row per message; messages are not deleted or moved, no junk,
no forced reindexing, no change during a compaction; a header's properties are
on disk at once; the order of the folders in a sweep is left open; a commit is
durable when it starts; a batch has one token; indexing a message does not throw
(`_recover_indexMessage`, index_msg.js:1593, marks such a message bad and clean).

## 8. Calendars in one file

Source: `calendar/providers/ics/calICSCalendar.js` with its hooks, its memory
calendar and `calIcsParser.js`.  Modules: `ICSCalendar`, `MCICSCalendar`,
`ICSCalendarProofs`.

### State

`cal` is the object: `queue` and `actions` (`mQueue`, `mModificationActions`),
`locked`, the callbacks that are due (`pending`), the memory calendar `mem`,
`etag` (`mEtag`, 0 for null, or the modification time of a file), `modified`
(`mLastModified`), `readOnly`, and of the
transfer under way the version it names (`known`, `match`) and its `body`.  `file`
is the file; `answer`, `stored` and `unasked` are history: what each listener was
told, which changes an upload has stored, and items an upload changed though none
of the changes it answers for asked to.

### Actions

An operation of the calendar runs to its end before the next event, so the
methods (`ProcessQueue`, `WriteICS`, `DoRefresh`, `Unlock`...) are operators on the
record, and the actions are the events: `AdoptItem`, `ModifyItem`, `DeleteItem`,
`RefreshRequested`, `EnableWriting` by the user; `GetAnswered`, `BackupDone`,
`PutStored`, `PutRefused`, `PutAnswered`, `EtagAnswered` by the network;
`OthersChange`.  `EtagAnswered` is the end of the PROPFIND by which `onAfterPut` asks
for a version the server did not name: the path it looks for begins with
`/D:propfind`, while the root of an answer is `D:multistatus`, so `mEtag` becomes null
(`etag` is 0), whatever the answer says, and the next upload has no condition; an
answer that is not UTF-8 makes the listener throw, and the calendar stays locked.
`LastSeen` is what the next download asks about then, the date of the last one.

### Runs

| Run | Shows |
|---|---|
| `ics_all` | `UploadChangesWhatWasAsked`: although each upload replaces the whole file, it changes only what its changes asked for; with others about, of a server that names versions.  `OkIsStored`: success means stored.  `RestShowsFile`: a calendar at rest that knows the file's version, or whose file nobody else changes, shows its items, after failed uploads too.  `EveryChangeAnswered` |
| `ics_unreadable` | the disagreement of section 9: an unreadable file is written over |

Bounds: two items, two changes, one refresh besides the one at startup, one
change of others; on a server or on disk.  Two changes are needed for one to
wait while the other is uploaded.  Everything is bounded, so deadlock is not
checked.  Fairness: every transfer is answered in the end.

Abstractions: an item's content is one of two values and its generation;
queries, which wait in the queue too, are left out; so are startup without a
file, answers that disable the calendar (410 and other errors), failing backups,
observers that change the calendar and listeners that throw.  Last-Modified is taken
to tell versions apart, though it counts in seconds; so is the modification time of
a file.

## 9. Where the code and its comments disagree

Three disagreements are runs that TLC must find violated; `PROJECT.json` quotes
the lines.

| Run, property | What happens |
|---|---|
| `cache_full_sync`, `OwedIsKeptBySync` | after a full synchronisation `cal.forEach` passes pairs of an object's entries to a body written for items, so no offline change is made again on the new cache (calCachedCalendar.js:389) |
| `gloda_quit`, `ChangeSurvivesQuit` | a message that changed behind the pass of its folder's job is in a folder marked clean; a quit drops the job that knew of it (index_msg.js:1475) |
| `ics_unreadable`, `UnreadableIsReadOnly` | the parser reports failure by its return code, which the listener ignores; the calendar becomes empty, stays writable, and is uploaded over the file (calICSCalendar.js:267) |

The circumstances below also break a property.  The passing runs exclude them, by
the cfg's `Env` or by `Without(...)` in the property, for that reason and not
because they cannot happen; adding the circumstance shows the counterexample.

Copy service (the cfg of `copy_live` with the circumstance added):

- `MaxSources = 2`, `OneCopyPerTarget`: any `DoNextCopy` starts the second source
  of a request whose first is still being copied to the same folder
  (nsMsgCopyService.cpp:296); nsLocalMailFolder.cpp:1392 asserts the contrary;
- `retry` with `duplicate`, `CompletionsAreMatched`: a request that a listener
  adds while completions nest is cleared in place of the one that was completed,
  which the comment at nsMsgCopyService.cpp:672 means to exclude;
- `refuse`, `QueueNeverStalls`: after a refused `CopyFolder` the queue is not
  looked at again (nsMsgCopyService.cpp:335);
- `rename`, `CompletionsAreMatched`: a moved folder that was renamed on the way is
  not recognised, unless its request is the last one (nsMsgCopyService.cpp:416);
- `silent`, `KeepsFairPromise`: an operation that ends without a notification
  blocks its destination;
- `tells`, `QueueNeverStalls` and `KeepsFairPromise`: when nsImapFolderCopyState
  fails, it calls the listener of the folder copy itself (nsImapMailFolder.cpp:7834
  and 7951) and the service keeps the request, which blocks its destination and is
  stopped once more by the destructor.  A Maildir store calls the listener after
  its notification has had the service do so (nsMsgMaildirStore.cpp:1128).  This also
  breaks the last part of `RequestsAreClosed` (`ToldOnce`), which excepts it;
- `strays`, `CompletionsAreMatched`, `QueueNeverStalls` and `KeepsFairPromise`: a local
  folder reports the copy of a folder without messages from another server as the new
  folder on both sides (nsLocalMailFolder.cpp:1769), and an IMAP folder whose copy state
  is taken reports a move of a folder with itself as the destination
  (nsImapMailFolder.cpp:8072).  `FindRequest` looks for the parent of the destination,
  so the request stays on the queue after the copy has ended;
- `Parent` not flat, `CompletionsAreMatched`: messages are copied from a folder to a
  subfolder of P, and the folder itself into P.  The completion of the messages names
  their source, and P as the parent of their destination.  Once their request is
  cleared, `FindRequest` takes the folder copy for it: it compares the source and the
  parent, and when only the name differs it does not forget the request again
  (nsMsgCopyService.cpp:416), so the folder copy, if it is the last request, is
  cleared while it goes on.  The cfgs use `FlatParent` for this reason.

Send later:

- `firstFails`, `RunNeverStalls`: when the first message cannot be opened the run
  is never ended, and no other can begin (nsMsgSendLater.cpp:834);
- `mailLost`, `RunNeverStalls`: an early error of the mail half of a
  news-and-mail delivery is dropped (nsMsgSend.cpp:3584), with the same effect;
- `query`: `HasUnsentMessages` replaces the listener that waits for the folder,
  and the user's request is forgotten (nsLocalMailFolder.cpp:310);
- `deleteFails`, `DeliveredOnce`: what cannot be deleted is sent again;
- `quit`, `TimerSetMeansArmed`: `DoShutdownTask` cancels the timer but leaves
  `mTimerSet` (nsMsgSendLater.cpp:1531); if the application stays open, nothing
  is sent in the background any more;
- `depositBusy`, `RunsComplete`: a timer that fires during a run is not set again
  (nsMsgSendLater.cpp:145), so a message that arrived during the run waits for
  the next one.

Calendar cache:

- `editDuring`, `OwedIsKept`: a change made while an earlier one of the same item
  is played back loses its flag (calCachedCalendar.js:528);
- `overlap`, `OwedIsKept`: a modification and a deletion that overlap read the flag
  before and write after each other (calStorageCalendar.js:1025);
- `answerLost` or `restart`, `AddFindsNoCopy`: an item is added again, as nothing
  asks the server first;
- `undoDelete`, `CreatedReachesServer`: an item deleted offline and added again is
  flagged "created" though the server has it, and its addition is refused for ever;
- `foreign` or `answerLost`, `OwedIsKept`: the replay of a change on the server writes
  the item over the one in the cache, or deletes it (calDavCalendar.js:1144 and 1175),
  and the storage calendar writes it without its flag (calStorageCalendar.js:565), so
  an offline change of the same item is gone.  The property excepts such items only
  (`conflicts`);
- `disable`, `SyncAnswered`: of a disabled calendar `synchronize` empties the queue and
  returns before its own responder has joined it (calCachedCalendar.js:292), so that
  one is never called; the property speaks of the responders in the queue.
  `CreatedReachesServer` excludes `disable`, as nothing refreshes such a calendar, and
  `answerLost`, as the server refuses the second addition for ever;
- `undoDelete`, `UnflaggedIsServers`: if such an item is deleted once more before the
  playback, `deleteOfflineItem` takes it for one the server never had and drops it
  (calStorageCalendar.js:1057), so the deletion never reaches the server.

Alarms:

- `editDuring`, `NothingStale`: a slice adds an item that was changed or deleted
  since the search got it (calAlarmService.js:511);
- `longSnooze`, `EveryAlarmRings`: an alarm snoozed beyond the next search is not
  found by it, as it looks for items by their own dates (calAlarmService.js:236);
- `lateAlarm`, `EveryAlarmRings`: an alarm whose own date is after both its item's end
  and the next search is lost without any snooze: it gets no timer when it is set
  (calAlarmService.js:366), and no later search finds the item.

Chat accounts:

- `lateWelcome`, `UserDisconnectIsFinal`: a welcome that crosses the QUIT makes the
  account connected, and the ERROR that answers the QUIT a lost connection, which
  reconnects (ircBase.jsm:347 and 144);
- `lastSecond`, `UserDisconnectIsFinal`: connecting by hand within the last second
  before a reconnection leaves the timer running (imAccounts.js:221);
- `infoChange`, `UserDisconnectIsFinal`: settings changed before the user
  disconnects are still tried;
- an account that was connecting at a crash keeps `ERROR_CRASHED` as its error even
  when it is connected later, and the status does not reconnect it
  (imAccounts.js:190); `WantedIsNotForgotten` excepts it;
- the code that looks at the last crash uses an undefined name
  (imAccounts.js:952), so every crash with a report switches automatic login off.

Indexer:

- `compact`, `ChangeIsRemembered`: the start of a compaction drops what the tracker
  held; the message job skips the folder, and the compaction pass finds the
  message with its row and marks it clean (index_msg.js:2727, 1532);
- `overflow`, `ChangeIsRemembered`: a full event queue asks for a sweep, which is
  ignored while one is active that has passed the folder (index_msg.js:972);
- `inHand` with `quit`, `ChangeIsRemembered`: a change between reading and tracking
  is marked clean (index_msg.js:3224);
- `idleRace`, `MailAndIndexAgree`: the callback of an idle-time commit also marks
  headers whose rows came after it (datastore.js:1766);
- `crash`, `ChangeIsRemembered`: a folder's status is lost with the open transaction.

Calendars in one file:

- `neverLoaded`, `UploadChangesWhatWasAsked`: a failed download at startup leaves an
  empty, writable calendar without a version (calICSCalendar.js:217);
- `pipelined` with `putFails`, the same: what waits during an upload that fails is
  uploaded together with what was answered as failed (calICSCalendar.js:436);
- `getFails` with `putFails` or `openFails`, the same and `RestShowsFile`: when the
  forced refresh after a failed upload fails too, nothing is tried again; what was
  answered as failed stays in the memory calendar, with the version of the file, and
  the next upload includes it (calICSCalendar.js:436 and 217).  In a calendar that
  was never loaded the refresh that fails is `neverLoaded`;
- `race`, the same: a file on disk that others change between an upload and the look
  at its modification time is taken for the one uploaded (calICSCalendar.js:1108);
- `noEtag` with `others`, `UploadChangesWhatWasAsked`: the path by which the answer to
  the PROPFIND is searched begins with /D:propfind, but the root of such an answer is
  D:multistatus (calICSCalendar.js:1029), so `mEtag` becomes null and the next upload
  carries no condition (990): it drops what others did since the last download.  The
  comment at 1005 says that the version is got immediately; the comment at the head of
  the file (16) says that changes made meanwhile are overwritten.  `unversioned` with
  `others` has the same effect from a download on (974);
- `badAnswer`, `EveryChangeAnswered`: the answer to the PROPFIND cannot be converted;
  the failure is caught (1025), the next line searches an undefined document and
  throws before `aRespFunc`, and the calendar stays locked for ever;
- `gone`, `EveryChangeAnswered`: the deletion of an item that is gone throws out of
  `processQueue` (calMemoryCalendar.js:282).

## 10. What is proved

Each `THEOREM` is checked by TLAPS for every value of the constants that
satisfies the module's assumption (`CopyAssumption`,
`SendAssumption`, `CacheAssumption`, `GlodaAssumption`, `ChatAssumption`, `AlarmAssumption`, `ICSAssumption`), from
`Spec` alone, without fairness.

`CopyServiceProofs`: `TypeCorrect`, `RequestsAreClosedAlways` (from
`StoppedOnceAlways` and `BatchesPairUpAlways`) and `StartsInOrderAlways`, in every
circumstance, strays and folders that call listeners included: these three are about
what the service does, and only the last part of `RequestsAreClosed`, that a listener
hears of the end once, leaves such folders out.  The inductive invariant is `Inv`.  `StoppedOnce` alone is not
inductive: that `FolderRefuses` clears a request which is still queued needs
`CallsOK` (a call to a folder that has not notified is the newest activation, and
its request is still listed), which holds because nothing clears a request while
such a call is on top of the stack; and a typed notification needs to know that
operations under way belong to sources their requests really have
(`OperationsOK`, `RequestsOK`).  The argument for activations is in terms of
`Settled(stack)`: below the top every call has notified.  `StartsInOrder` follows
without induction on the queue: if an older request for the same folder is not
`Processed` then, not being startable, it has a processed one before it, and that
one blocks the younger request as well (`OlderRequestBlocks`).

`CopyMatchingProofs`: `OneCopyPerTargetAlways`, `CompletionsAreMatchedAlways`,
`KeepsPromiseAlways` and `QueueNeverStallsAlways`, for any number of requests,
folders and files and any depth of nesting.  The first three assume `Ordinary`: one
source per request, pairs of source and destination that are unique as
nsIMsgCopyService.idl asks, no renamed folder or aborted send, folders that are
not nested in one another, that report a folder copy as the pair of its request
(no `strays`) and leave the listener to the service (no `tells`); the last assumes
`EndsAreTold` as well, that every end is notified.  So they say nothing of copies of
folders across servers: a local destination reports those without messages as a pair of
its own, and an IMAP destination notifies only when it succeeds.  Section 9 shows what happens without each of them.  Re-entrant listeners
are allowed throughout, refusals and silence in the first three.  The inductive
invariant `MatchInv` adds to `Inv`:

- the pair tells listed requests apart (`PairsOK`), and only the oldest request of a
  folder has been begun (`FirstOK`), so that what a folder works on is the single
  operation of that request (`ActiveOK`), which gives `OneCopyPerTarget`;
- a completion's key was made from a request (`Genuine`) and therefore matches at
  most one that is listed; the request that `FindRequest` fails to forget is then
  never returned (`FoundMatches`), which is the heart of `CompletionsAreMatched`;
- the loop of `NotifyCompletion` clears that request in its first turn (`TopOK`), and
  whatever lies below the newest activation will find nothing when it resumes
  (`Spent`, `FramesOK`): a listener may queue the same pair again only once the
  completion's key is off the stack;
- for `QueueNeverStalls`, which no local argument gives because one activation's
  `DoNextCopy` may start what another was called for, a count: the folders that are
  wanted and idle are at most as many as the activations that still have a
  `DoNextCopy` ahead of them, with one to spare while a completion has something to
  clear (`IdleOK`).  With an empty stack there is no such activation, hence no such
  folder.

`KeepsPromiseAlways` is the refinement of `CopyPromise` without its fairness, the
safety part of what `copy_live` checks as `KeepsFairPromise`.
`OrderInv` adds to `MatchInv` that queued requests have been started exactly if the
scan counts them as processed (`StartedOK`) and that the queue is in the order of
submission (`NumbersOK`).  Each action then is `Submit`, `SubmitNothing`, `Start`,
`Stop` or `Exit` of the promise or leaves its variables unchanged (the lemmas named
`...Promise`).

`SendLaterProofs`: `TypeCorrect`, `RunIsConsistentAlways` (from
`OneStepAtATimeAlways`, `NotificationsPairAlways` and
`ShutdownWaitsForRunAlways`) and `NothingLostAlways` hold in every circumstance.
Three theorems say what the code relies on, and thereby that the circumstances
they exclude are the only ways to break them:

- `RunNeverStallsWhenToldOf`: if `firstFails` and `mailLost` do not occur, a run
  always has an outstanding step;
- `TimerSetMeansArmedUnlessQuitting`: if nobody quits, `mTimerSet` is right;
- `DeliveredOnceWhenDeletable`: if sent messages can be deleted from the folder,
  none is delivered twice, over any number of runs.

The inductive invariant `Inv` joins the types, `RunOK` (what a run, its step, its
notifications and the shutdown listener have to do with one another) and `Kept`.
`DeliveredOnce` needs to know in addition where the messages of a run are: one
that has been delivered is no longer in the folder, so neither the read step nor
the next run's list can hold it.

`GlodaIndexerProofs`: `TypeCorrect` and `DriverIsDrivenAlways`, in every circumstance.
The inductive invariant `DriverInv` says what the driver's record holds, that a driver
which is wanted and not suppressed is not idle (`NotAsleep`), and that there is work
only while indexing is wanted (`WorkIsWanted`): `NothingToHire` ceases to want it only
when the queue is empty, and whoever queues a job kicks the driver.  `IndexerInv` adds
the types and where a worker stands: only messages that are there are queued or in
hand (`EventsAreThere`), one in hand was read before the driver runs again
(`WorkerFits`).
`MailAndIndexAgreeAlways` follows from `MirrorInv`.  A header is set by the callback of
a commit, after other steps have come in between, so what it will be set to is followed
from the start: rows written while a commit is on its way do not exist, because the
batch waits for it (`CommitFits`); the tracker's two maps agree where no folder is
compacted, and what they call dirty the header does not call clean (`TrackerFits`); and
a tracked clean message has a row of this version, since what was read is current when
it is written (`HandIsCurrent`, `CleanFits`).  A filthy folder has no message in a job
or in its pass (`FilthyFits`), so a change that is not noted there is seen by the pass
to come.  For the keys, `KeysFit` says that a compaction pass which has matched
leaves no row of its folder with an old key, so its end may clear the folder's mark.
`ChangeIsRememberedAlways` needs `Kept`.  `ChangeIsRemembered` alone is not inductive:
when the pass of a folder ends, the folder's mark goes and with it those of its
messages, so a message the pass has gone by must be up to date or have a job
(second part of `KeptFor`); and when a message is tracked its own mark goes, so what
was read of it must be its last version, or it has a job again (third part).  Only
where nothing is quit is it enough to wait in the queue (`Waits`).
It allows offline phases, repeated sweeps and idle-time commits that are overtaken, and
it excludes exactly what the property excludes: an overflow of the event queue, a
compaction, a crash, and a quit together with a change behind a pass or in hand.

`ChatAccountsProofs`: `TypeCorrect`, and `UserDisconnectIsFinalAlways` unless
`lateWelcome`, `lastSecond` or `infoChange` occurs.  The inductive invariant says
how an account's state and socket go together (`SocketOK`), that a reconnect timer
waits only for a lost connection of an account that is disconnected (`TimerOK`,
without which a second timer would be started over the first and left running),
and that an account the user has disconnected has neither observer nor timer and
is not on its way up (`AtRest`).  `WantedIsNotForgottenAlways` excludes nothing.  Its
invariant `WantedInv` follows one idea through every function of the record: an
account that is wanted keeps its status observer, which connects it whenever it ends
without an error while the status allows it; an error of the network leaves a timer,
unless the network itself has gone, and then the status will connect it (`Pursued`);
settings changed while there was an error take the observer's place until they are
tried (`ToBeTried`); and who is disconnecting has met with no error (`EndsWell`).
`CrashIsRememberedAlways` relates memory, preferences and the next session.  While a
session runs, every first connection being made and the automatic login are in the
saved preferences (`AllIsSaved`); when it has ended, they hold what was interrupted,
or nothing after a clean end (`EndIsSaved`).  That a step saves them in time rests on
an account never becoming a first connection without beginning to connect
(`Remembers`), which needs that the two seconds of a QUIT never end a connection that
is being made (`QuitOK`): the observer would begin the next within the same step.

`AlarmServiceProofs`: `TypeCorrect`, and `NothingStaleAlways` unless a calendar
changes while a search goes on.  Each search holds only current items of registered
calendars (`HoldsCurrent`), and an item whose timer runs is not shown (`TimerOK`),
so that adding it again replaces what was there.  That the reload of a calendar is
not ignored when no search goes on (`onLoad` skips one that is not loaded) needs
`LoadedOK`: a calendar that is not loaded is waited for
by a search whose promise is open, which in turn needs the count of batches to be
that of the calendars whose slices still run (`PromiseOK`).  `EveryAlarmRingsAlways`,
unless an item is edited while a search holds it, or an alarm is snoozed or set beyond
both the range and its item's end, says of every alarm that falls due that it has been handled (shown if its date has passed,
timed if it lies within the range that was searched) or is awaited by a search that
has not got to it (`RingInv`): a search that holds an item has not finished with its
calendar, and the range ends no earlier than the next search begins, so that an alarm
beyond it belongs to an item that ends in what the next search covers (`RangeOK`).

`CachedCalendarProofs`: `TypeCorrect`, `OwedIsKeptAlways` (of items whose versions on
the server the cache was told of), `AddFindsNoCopyAlways` and
`UnflaggedIsServersAlways`.  None of the three is inductive: whether an item's flag
may be reset, or its copy replaced, depends on what else is on its way for the same
item.  The inductive invariant `Inv` has two layers.  The first says who may act:
the user and a refresh take turns (`TurnsOK`), a playback has one request at a time
and at most one change of each item still to send (`PlayersOK`), only one of the
provider's refresh, the synchronisation and a playback goes on (`StagesOK`), and the
storage calendar has at most one task for an item (`QueueOK`).  The second is stated
item by item, so that a step which touches one item leaves the others' parts alone
(`OthersKept`): a task and a request never concern the same item, and nothing
happens to it behind a task's back (`ApartAt`); what is owed is flagged, and covered
by whatever is under way for the item (`OwedAt`); an item flagged "created" is not on
the server, or the playback's answer that says so is still to come (`CreatedAt`); and
copy and server agree except where a flag, an answer or a task stands for the
difference (`ServerAt`).  Each part names the circumstances it needs excluded, and no
more: `OwedAt` survives restarts and concurrent refreshes, and of an item whose answer
was lost or that others changed nothing is claimed, as the replay overwrites it;
`CreatedAt` and `ServerAt` survive none of these.

`ICSCalendarProofs`: `TypeCorrect` and `OkIsStoredAlways`, unless the deletion of an
item that is gone throws (`gone`; section 9), and `RestShowsFileAlways` and
`UploadChangesWhatWasAskedAlways`, with the exceptions of section 9; for any number of
items and changes, any length of the queue and either transport.  The inductive
invariant `Inv` says what the lock stands for (`Orderly`): a calendar waits for at most
one callback, and is locked while it does; an unlocked one has nothing queued and
nothing unanswered.  A locked calendar that waits for nothing exists only where the
answer to a PROPFIND could not be read (`badAnswer`), and stays as it is.  That each callback
finds the calendar so depends on the exception never being thrown, that is on every
deletion in the queue finding its item (`Doable`): the item is there when it is
requested, and neither a download nor another deletion of it can come first.  `Kept`
says that what an upload carried is stored while its answer, or the version of the
file, is awaited, which is when `unlock` answers.  The loop of `processQueue` takes a
queue of any length, so its lemmas (`RoundKeeps`) need an induction over its rounds.
`Round` is written as a function on `0..Len(queue)` for this purpose; since the
library's induction theorems cannot be used, the lemmas go by the least round that
fails (`LeastNatural` and `UpTo`, from the well-foundedness of the naturals), and
`StepsExist` builds the function a step at a time.

What the calendar shows is a second invariant, `ShowInv`, inductive on top of `Inv`.
`UploadFits`: what is uploaded is what is shown, and what has been stored is still in
the file as long as the file has the version of the upload.  `Shows`: with the file's
version a calendar shows the file's items, or is about to upload its own, or an upload
has failed and a forced refresh is queued or under way (`Reloads`).  `AskedFor`: what
is about to be uploaded differs from the file only where a change waits for its
answer.  `KnowsFile`: only the first download finds a calendar that was not loaded; afterwards
it has a version, unless nobody else changes the file (`Alone`), when it needs none:
`Current` counts a loaded calendar without a version as having the file's then.
`Processed` carries all of it through `processQueue`; the delicate step is the unlock
after a failed upload, where the refused items are still shown and must meet no change
in the queue (`OnlyRefreshes`), which is why `pipelined` and `putFails` exclude each
other in `UploadChangesWhatWasAsked`.  Proving it, and TLC on the invariant, showed that the two properties had
to except a forced refresh that fails too (section 9), and need not except
an answer that is lost.

With this every safety invariant and action property that a passing run checks is a
theorem.  What stays with TLC are the properties under fairness, which are out of the
prover's reach (`KeepsFairPromise`, `RunsComplete`, `SyncAnswered`,
`CreatedReachesServer`, `LoadingEnds`, `DeadConnectionEnds`, `LostReconnects`,
`EventuallyIndexed`, `EveryChangeAnswered`).

## 11. Plan

Each with a module, an MC module, its runs and mutants:

1. **The destinations.** `LocalCopyState` (nsLocalMailCopyState) and
   `FolderCopyState` (nsImapFolderCopyState), composed with `CopyService` in place
   of the abstract `Folder...` actions.  Property: every accepted operation
   notifies exactly once.
2. **Shutdown** (`nsMsgShutdownService`: list, index, `ProcessNextTask`) composed
   with `SendLater`.
3. **IMAP connection pool**: URL queue, cache, connection threads; each URL is run
   at most once, and in order per folder.
4. **Gloda**: deletion and moves of messages.
5. **IMAP auto-sync**, **offline playback**, **offline manager**, **folder
   compaction** with a crash between any two steps, **biff** and **purge**.
6. The XMPP session over the socket, and the chat conversations.

## 12. What is not modelled

User interface, themes, localisation, build files and vendored libraries have no
logic of this kind.  Protocol dialogues (SMTP, NNTP, the IMAP command stream),
parsers and formats (MIME, iCalendar, mork) are sequential data processing that
tests reach better.  Databases, views and the address book are large data
structures; only the order in which they are updated is of interest, and that
belongs to the components above.  The calendar's transactions
(`calTransactionManager.js`) are a thin layer over the toolkit's transaction
manager, which is not in this repository; what can go wrong in them (undo before
the change was answered, a move undone whose second half fails, `canUndo` asking
for the old item of an addition, which has none) is in one method each.
`PROJECT.json` lists every component with its status.
