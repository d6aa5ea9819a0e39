---------------------------- MODULE CachedCalendar ----------------------------
(***************************************************************************)
(* calCachedCalendar (calendar/base/src/calCachedCalendar.js): a calendar  *)
(* on a server with a copy of its items in the local storage calendar.     *)
(* While the server cannot be reached, changes go to the copy, whose items *)
(* then carry an offline flag: created, modified or deleted.  A refresh    *)
(* plays them back to the server and brings the copy up to date.           *)
(*                                                                         *)
(* Everything is asynchronous and nothing is locked: the user's changes,   *)
(* the flag the storage calendar reads on its own thread                   *)
(* (calStorageCalendar.js), the requests to the server, the playback and   *)
(* the synchronisation interleave on one copy of the items.                *)
(*                                                                         *)
(* Content is abstracted to the time of an item's last change.             *)
(***************************************************************************)
EXTENDS Integers, Sequences

CONSTANTS
  Item,
  MaxTime,     \* bound on the number of changes
  MaxSyncs,    \* responders waiting for a synchronisation are counted up to this
  Player,      \* bound on the playbacks that run at the same time
  Cases        \* Circumstances and providers that are looked at

Circumstances ==
  { "foreign",       \* somebody else changes the calendar on the server
    "unavailable",   \* the server cannot be reached for a request
    "refuse",        \* the server refuses a request
    "answerLost",    \* it does what it is asked, but its answer is lost
    "overlap",       \* the user changes an item again before the answer
    "editDuring",    \* ... or while a playback or synchronisation goes on
    "refreshAgain",  \* a refresh is asked for during another
    "undoDelete",    \* an item that was deleted offline is added again
    "getFails",      \* the items cannot be got from the server
    "disable",       \* the calendar is disabled at any moment, for good
    "restart" }      \* the application ends at any moment and starts again

ASSUME CacheAssumption ==
  /\ MaxTime \in Nat \ {0}
  /\ MaxSyncs \in Nat \ {0}
  /\ "user" \notin Player   \* who else makes requests
  /\ Cases \subseteq [env : SUBSET Circumstances, log : BOOLEAN]

VARIABLES
  env,                \* the circumstances of this behaviour
  supportsChangeLog,  \* the provider replays the server's changes
  offline,            \* Services.io.offline
  disabled,           \* the calendar's property
  now,                \* time of the latest change
  server,             \* time of each item on the server, 0 if not there
  conflicts,          \* items with versions on the server the cache was not told of
  cache,              \* the storage calendar's items and flags
  db,                 \* flags being read by the storage calendar
  requests,           \* requests to the uncached calendar
  playback,           \* what each playback is doing
  loading,            \* the uncached calendar refreshes itself
  sync,               \* stage of the synchronisation
  mSyncQueue,         \* number of responders waiting for it
  toAdd,              \* items got from the server, not yet in the cache
  owed                \* changes the user was told of that the server lacks

given == <<env, supportsChangeLog>>
status == <<given, disabled, conflicts>>
syncVars == <<loading, sync, mSyncQueue, toAdd>>
vars == <<status, offline, now, server, cache, db, requests, playback,
          syncVars, owed>>

Time == 0..MaxTime
OfflineFlag == {"created", "modified", "deleted"}
Flag == OfflineFlag \cup {"none"}
Entry == [time : Time, flag : Flag]
Change == [kind : {"add", "modify", "delete"}, item : Item, time : Time]

Absent == [time |-> 0, flag |-> "none"]
Entries(time, flag) == [time |-> time, flag |-> flag]

(* What getItem and getItems show without a flag filter.                   *)
Visible(i) == cache[i].time # 0 /\ cache[i].flag # "deleted"

Idle == [type |-> "none", left |-> {}, then |-> "none"]
Playbacks == [type : OfflineFlag \cup {"none"}, left : SUBSET Change,
              then : {"none", "refresh", "onLoad", "emptyQueue"}]

Init ==
  /\ \E case \in Cases : env = case.env /\ supportsChangeLog = case.log
  /\ offline = FALSE /\ disabled = FALSE
  /\ conflicts = {}
  /\ server \in [Item -> {0, 1}]
  /\ now = 1
  /\ cache = [i \in Item |-> Entries(server[i], "none")]
  /\ db = <<>>
  /\ requests = {}
  /\ playback = [p \in Player |-> Idle]
  /\ loading = FALSE
  /\ sync = "idle"
  /\ mSyncQueue = 0
  /\ toAdd = [i \in Item |-> 0]
  /\ owed = {}

-----------------------------------------------------------------------------
(* The user's listener hears of success without the server: from now on    *)
(* the change is owed to the server.                                       *)

SupersededBy(c) == {o \in owed : o.item = c.item /\ o.time <= c.time}

Owe(c) ==
  owed' = IF \E o \in owed : o.item = c.item /\ o.time > c.time
            THEN owed ELSE (owed \ SupersededBy(c)) \cup {c}

-----------------------------------------------------------------------------
(* The storage calendar.  getItemOfflineFlag reads the flag on another     *)
(* thread and calls back later; the record says what then goes on.         *)

ReadFlag(then, c, by) == [then |-> then, change |-> c, by |-> by, flag |-> "unread"]

DbReads ==
  \E k \in 1..Len(db) :
    /\ db[k].flag = "unread"
    /\ \A j \in 1..(k - 1) : db[j].flag # "unread"
    /\ db' = [db EXCEPT ![k].flag = cache[db[k].change.item].flag]
    /\ UNCHANGED <<status, offline, now, server, cache, requests, playback,
                   syncVars, owed>>

Request(c, by) == [change |-> c, by |-> by, answer |-> "waiting"]

(* flagListener of modifyItem and deleteItem: an item with a flag of its
   own is changed offline, any other at the server.                        *)
Route(t) ==
  /\ t.then = "route"
  /\ IF t.flag \in {"created", "modified"}
       THEN /\ db' = Append(Tail(db),
                       ReadFlag(IF t.change.kind = "delete" THEN "flagDeleted"
                                                            ELSE "doModifyOffline",
                                t.change, "user"))
            /\ UNCHANGED requests
       ELSE /\ requests' = requests \cup {Request(t.change, "user")}
            /\ db' = Tail(db)
  /\ UNCHANGED <<cache, owed>>

(* doModifyItem: the item is written with the flag that was read before.   *)
DoModifyItem(t) ==
  /\ t.then \in {"doModify", "doModifyOffline"}
  /\ cache' = [cache EXCEPT ![t.change.item] = Entries(t.change.time, t.flag)]
  /\ db' = IF t.then = "doModify" THEN Tail(db)
             ELSE Append(Tail(db), ReadFlag("flagModified", t.change, t.by))
  /\ UNCHANGED <<requests, owed>>

(* The callback of the storage calendar's modifyOfflineItem.               *)
FlagModified(t) ==
  /\ t.then = "flagModified"
  /\ IF t.flag \in {"created", "deleted"} \/ cache[t.change.item].time = 0
       THEN UNCHANGED cache
       ELSE cache' = [cache EXCEPT ![t.change.item].flag = "modified"]
  /\ db' = Tail(db)
  /\ Owe(t.change)
  /\ UNCHANGED requests

(* The callback of the storage calendar's deleteOfflineItem: an item the
   server never had is removed, any other is kept for the playback.        *)
FlagDeleted(t) ==
  LET i == t.change.item
  IN /\ t.then = "flagDeleted"
     /\ CASE t.flag = "created" -> cache' = [cache EXCEPT ![i] = Absent]
          [] t.flag # "created" /\ (t.flag = "deleted" \/ cache[i].time = 0) ->
               UNCHANGED cache
          [] OTHER -> cache' = [cache EXCEPT ![i].flag = "deleted"]
     /\ db' = Tail(db)
     /\ IF t.flag = "created" THEN owed' = owed \ SupersededBy(t.change)
                              ELSE Owe(t.change)
     /\ UNCHANGED requests

(* A faulty storage calendar that does not wait for the statement.         *)
CallsBackEarly(t) == TRUE

(* handleCompletion comes after the statement was executed.                *)
Completed(t) == t.flag # "unread"

DbCallback ==
  /\ db # <<>>
  /\ Completed(Head(db))
  /\ \/ Route(Head(db))
     \/ DoModifyItem(Head(db))
     \/ FlagModified(Head(db))
     \/ FlagDeleted(Head(db))
  /\ UNCHANGED <<status, offline, now, server, playback, syncVars>>

-----------------------------------------------------------------------------
(* The user's changes.                                                     *)

Busy == loading \/ sync # "idle" \/ \E p \in Player : playback[p] # Idle

InProgress(i) ==
  \/ \E k \in 1..Len(db) : db[k].change.item = i
  \/ \E r \in requests : r.change.item = i

MayEdit(i) ==
  /\ now < MaxTime
  /\ ~disabled
  /\ Busy => "editDuring" \in env
  /\ InProgress(i) => "overlap" \in env

AdoptOfflineItem(c) ==
  /\ cache' = [cache EXCEPT ![c.item] = Entries(c.time, "created")]
  /\ Owe(c)

AddItem(i) ==
  LET c == [kind |-> "add", item |-> i, time |-> now + 1]
  IN /\ MayEdit(i)
     /\ ~InProgress(i)
     /\ \/ cache[i].time = 0 /\ server[i] = 0
        \/ cache[i].flag = "deleted" /\ "undoDelete" \in env
     /\ now' = now + 1
     /\ IF offline THEN AdoptOfflineItem(c) /\ UNCHANGED requests
                   ELSE /\ requests' = requests \cup {Request(c, "user")}
                        /\ UNCHANGED <<cache, owed>>
     /\ UNCHANGED <<status, offline, server, db, playback, syncVars>>

(* modifyItem and deleteItem; offline the server is not even tried.        *)
ChangeItem(i, kind, offlineRoute) ==
  LET c == [kind |-> kind, item |-> i, time |-> now + 1]
  IN /\ MayEdit(i)
     /\ Visible(i)
     /\ now' = now + 1
     /\ db' = Append(db, ReadFlag(IF offline THEN offlineRoute ELSE "route", c, "user"))
     /\ UNCHANGED <<status, offline, server, cache, requests, playback, syncVars, owed>>

ModifyItem(i) == ChangeItem(i, "modify", "doModifyOffline")
DeleteItem(i) == ChangeItem(i, "delete", "flagDeleted")

-----------------------------------------------------------------------------
(* The server, as the uncached calendar's callbacks show it.               *)

CanTake(c) == (c.kind = "add") <=> (server[c.item] = 0)

Answered(r, answer) == requests' = (requests \ {r}) \cup {[r EXCEPT !.answer = answer]}

serverIdle == <<given, offline, disabled, cache, db, playback, syncVars>>

ServerTakes(r) ==
  LET c == r.change
  IN /\ r.answer = "waiting"
     /\ CanTake(c)
     /\ server' = [server EXCEPT ![c.item] = IF c.kind = "delete" THEN 0 ELSE c.time]
     /\ owed' = {o \in owed : \/ o.item # c.item
                              \/ o.time > c.time /\ ~(o.kind = "delete" /\ c.kind = "delete")}
     /\ \/ Answered(r, "ok") /\ UNCHANGED conflicts
        \/ /\ "answerLost" \in env
           /\ Answered(r, "unavailable")
           /\ conflicts' = conflicts \cup {c.item}
     /\ UNCHANGED <<serverIdle, now>>

ServerRefuses(r) ==
  /\ r.answer = "waiting"
  /\ \/ (~CanTake(r.change) \/ "refuse" \in env) /\ Answered(r, "error")
     \/ "unavailable" \in env /\ Answered(r, "unavailable")
  /\ UNCHANGED <<serverIdle, now, server, conflicts, owed>>

OthersChange(i) ==
  /\ "foreign" \in env
  /\ now < MaxTime
  /\ now' = now + 1
  /\ server' = [server EXCEPT ![i] = IF @ = 0 THEN now + 1 ELSE 0]
  /\ conflicts' = conflicts \cup {i}
  /\ UNCHANGED <<serverIdle, requests, owed>>

(* isUnavailableCode and the cacheListeners of adoptItem, modifyItem and
   deleteItem: without the server the change is made offline instead.      *)
AddAnswered(r) ==
  /\ r.change.kind = "add"
  /\ CASE r.answer = "unavailable" -> AdoptOfflineItem(r.change)
       [] r.answer = "ok" ->
            /\ cache' = [cache EXCEPT ![r.change.item] = Entries(r.change.time, "none")]
            /\ UNCHANGED owed
       [] OTHER -> UNCHANGED <<cache, owed>>
  /\ UNCHANGED db

(* A faulty cacheListener that leaves the cache to the next refresh.       *)
ModifyOnlyOffline(r) ==
  /\ r.change.kind = "modify"
  /\ db' = IF r.answer = "unavailable"
             THEN Append(db, ReadFlag("doModifyOffline", r.change, "user")) ELSE db
  /\ UNCHANGED <<cache, owed>>

ModifyAnswered(r) ==
  /\ r.change.kind = "modify"
  /\ db' = CASE r.answer = "unavailable" ->
                  Append(db, ReadFlag("doModifyOffline", r.change, "user"))
             [] r.answer = "ok" -> Append(db, ReadFlag("doModify", r.change, "user"))
             [] OTHER -> db
  /\ UNCHANGED <<cache, owed>>

DeleteAnswered(r) ==
  /\ r.change.kind = "delete"
  /\ db' = IF r.answer = "unavailable"
             THEN Append(db, ReadFlag("flagDeleted", r.change, "user")) ELSE db
  /\ cache' = IF r.answer = "ok" THEN [cache EXCEPT ![r.change.item] = Absent] ELSE cache
  /\ UNCHANGED owed

UserAnswered(r) ==
  /\ r.by = "user"
  /\ r.answer # "waiting"
  /\ AddAnswered(r) \/ ModifyAnswered(r) \/ DeleteAnswered(r)
  /\ requests' = requests \ {r}
  /\ UNCHANGED <<status, offline, now, server, playback, syncVars>>

-----------------------------------------------------------------------------
(* Synchronisation.  At most one goes on; others wait for it.              *)

(* synchronize.  Offline it answers at once.  Of a disabled calendar it
   empties the queue before its own responder, which is never called, could
   join it; a synchronisation that goes on is left alone.                  *)
Synchronize ==
  CASE disabled -> mSyncQueue' = 0 /\ UNCHANGED sync
    [] ~disabled /\ mSyncQueue > 0 ->
                         /\ mSyncQueue' = IF mSyncQueue = MaxSyncs THEN MaxSyncs
                                                                 ELSE mSyncQueue + 1
                         /\ UNCHANGED sync
    [] ~disabled /\ mSyncQueue = 0 /\ offline -> UNCHANGED <<mSyncQueue, sync>>
    [] OTHER -> /\ mSyncQueue' = 1
                /\ sync' = IF supportsChangeLog THEN "replay" ELSE "getItems"

(* A faulty emptyQueue that answers the responders but keeps them.          *)
KeepQueue == sync' = "idle" /\ UNCHANGED mSyncQueue

EmptyQueue == mSyncQueue' = 0 /\ sync' = "idle"

DownstreamRefresh ==
  /\ IF offline THEN Synchronize /\ UNCHANGED loading
                ELSE loading' = TRUE /\ UNCHANGED <<mSyncQueue, sync>>
  /\ UNCHANGED toAdd

(* What the callback of a playback does.                                   *)
PlaybackDone(then) ==
  CASE then = "refresh" -> DownstreamRefresh
    [] then = "emptyQueue" -> EmptyQueue /\ UNCHANGED <<loading, toAdd>>
    [] OTHER -> UNCHANGED syncVars

(* A faulty playbackOfflineItems with another default of aPlaybackType.     *)
StartWithModified(p, then) ==
  /\ playback[p] = Idle
  /\ playback' = [playback EXCEPT ![p] = [type |-> "modified", left |-> {}, then |-> then]]

StartPlayback(p, then) ==
  /\ playback[p] = Idle
  /\ playback' = [playback EXCEPT ![p] = [type |-> "created", left |-> {}, then |-> then]]

(* refresh: by the user, by the calendar's timer, or on going online.      *)
Refresh ==
  /\ Busy => "refreshAgain" \in env
  /\ "editDuring" \in env \/ \A i \in Item : ~InProgress(i)
  /\ IF ~offline' /\ supportsChangeLog
       THEN (\E p \in Player : StartPlayback(p, "refresh")) /\ UNCHANGED syncVars
       ELSE /\ UNCHANGED playback
            /\ IF offline' THEN Synchronize /\ UNCHANGED <<loading, toAdd>>
                           ELSE loading' = TRUE /\ UNCHANGED <<sync, mSyncQueue, toAdd>>

UserRefreshes ==
  /\ ~disabled
  /\ UNCHANGED offline
  /\ Refresh
  /\ UNCHANGED <<status, now, server, cache, db, requests, owed>>

(* The user disables the calendar, or its provider finds it unusable.  No
   user or timer refreshes it then, but going online does.                 *)
Disable ==
  /\ "disable" \in env
  /\ ~disabled
  /\ disabled' = TRUE
  /\ UNCHANGED <<given, offline, now, server, conflicts, cache, db, requests,
                 playback, syncVars, owed>>

(* onOfflineStatusChanged.                                                 *)
GoOffline ==
  /\ ~offline
  /\ offline' = TRUE
  /\ UNCHANGED <<status, now, server, cache, db, requests, playback, syncVars, owed>>

GoOnline ==
  /\ offline
  /\ offline' = FALSE
  /\ Refresh
  /\ UNCHANGED <<status, now, server, cache, db, requests, owed>>

(* The uncached calendar's onLoad.                                         *)
UncachedLoaded ==
  /\ loading
  /\ loading' = FALSE
  /\ Synchronize
  /\ UNCHANGED <<status, offline, now, server, cache, db, requests, playback, toAdd, owed>>

(* What the provider brings to the cache of what changed on the server.  It
   does not look at flags: the storage calendar writes an item it is given
   without the old one, or removes it, and its flag is gone.  Of the flagged
   items those in conflicts may have changed on the server.                *)
Replayed(changed) ==
  [i \in Item |-> IF cache[i].flag = "none" \/ i \in changed
                  THEN Entries(server[i], "none") ELSE cache[i]]

(* replayChangesOn of the provider is over.                                *)
ReplayDone ==
  /\ sync = "replay"
  /\ \/ \E changed \in SUBSET conflicts : cache' = Replayed(changed)
     \/ "getFails" \in env /\ UNCHANGED cache
  /\ EmptyQueue
  /\ UNCHANGED <<status, offline, now, server, db, requests, playback, loading, toAdd, owed>>

(* A full synchronisation gets all items: setupCachedCalendar empties the
   cache, and the items are then added in slices.                          *)
ItemsGot ==
  /\ sync = "getItems"
  /\ cache' = [i \in Item |-> Absent]
  /\ toAdd' = server
  /\ sync' = "adding"
  /\ UNCHANGED <<status, offline, now, server, db, requests, playback, loading,
                 mSyncQueue, owed>>

GetItemsFailed ==
  /\ sync = "getItems"
  /\ "getFails" \in env
  /\ EmptyQueue
  /\ \E p \in Player : StartPlayback(p, "onLoad")
  /\ UNCHANGED <<status, offline, now, server, cache, db, requests, loading, toAdd, owed>>

AddGotItem(i) ==
  /\ sync = "adding"
  /\ toAdd[i] # 0
  /\ cache' = [cache EXCEPT ![i] = Entries(toAdd[i], "none")]
  /\ toAdd' = [toAdd EXCEPT ![i] = 0]
  /\ UNCHANGED <<status, offline, now, server, db, requests, playback, loading,
                 sync, mSyncQueue, owed>>

(* The offline changes are kept in offlineCachedItems, an object by hashId,
   to be made again on the new cache.  cal.forEach passes the entries of an
   object, [hashId, item], to a body written for the items: the flag of the
   pair's own hashId is undefined, and no case applies.  So nothing is
   reconciled, and the playback that follows finds no flags.               *)
Reconcile ==
  /\ sync = "adding"
  /\ \A i \in Item : toAdd[i] = 0
  /\ \E p \in Player : StartPlayback(p, "emptyQueue")
  /\ sync' = "playback"
  /\ UNCHANGED <<status, offline, now, server, cache, db, requests, loading,
                 mSyncQueue, toAdd, owed>>

-----------------------------------------------------------------------------
(* playbackOfflineItems: items created, then modified, then deleted.       *)

NextType(type) ==
  CASE type = "created" -> "modified" [] type = "modified" -> "deleted"
    [] OTHER -> "none"

KindOf(type) ==
  CASE type = "created" -> "add" [] type = "modified" -> "modify"
    [] OTHER -> "delete"

Flagged(type) ==
  {[kind |-> KindOf(type), item |-> i, time |-> cache[i].time] :
     i \in {j \in Item : cache[j].flag = type}}

(* popItemQueue: the next item is sent to the server, or the next type of
   change is begun, or the playback ends.  others are the requests of the
   rest of the program.                                                    *)
PopItemQueue(p, left, others) ==
  LET pb == playback[p]
  IN \/ \E c \in left :
          /\ requests' = others \cup {Request(c, p)}
          /\ playback' = [playback EXCEPT ![p].left = left \ {c}]
          /\ UNCHANGED syncVars
     \/ /\ left = {}
        /\ requests' = others
        /\ IF NextType(pb.type) = "none"
             THEN playback' = [playback EXCEPT ![p] = Idle] /\ PlaybackDone(pb.then)
             ELSE /\ playback' = [playback EXCEPT ![p].type = NextType(pb.type),
                                                  ![p].left = {}]
                  /\ UNCHANGED syncVars

Waiting(p) == \E r \in requests : r.by = p

AbortPlayback(p) ==
  /\ playback' = [playback EXCEPT ![p] = Idle]
  /\ PlaybackDone(playback[p].then)
  /\ UNCHANGED requests

(* The flagged items are read; offline again, the playback is aborted.     *)
PlaybackReads(p) ==
  /\ playback[p] # Idle
  /\ ~Waiting(p)
  /\ IF offline
       THEN AbortPlayback(p)
       ELSE PopItemQueue(p, Flagged(playback[p].type), requests)
  /\ UNCHANGED <<status, offline, now, server, cache, db, owed>>

(* A faulty opListener that does not look at the status.                   *)
AfterAnyAnswer(p, r) ==
  IF playback[p].type = "deleted" \/ cache[r.change.item].time = 0
    THEN [cache EXCEPT ![r.change.item] = Absent]
    ELSE [cache EXCEPT ![r.change.item].flag = "none"]

(* A faulty opListener that leaves it to the synchronisation to reset flags. *)
AfterAnswerNothing(p, r) == cache

(* opListener: what the server took loses its flag, or is removed; what it
   did not take keeps its flag for the next time.                          *)
AfterAnswer(p, r) ==
  CASE r.answer # "ok" -> cache
    [] r.answer = "ok" /\ (playback[p].type = "deleted" \/ cache[r.change.item].time = 0) ->
         [cache EXCEPT ![r.change.item] = Absent]
    [] OTHER -> [cache EXCEPT ![r.change.item].flag = "none"]

PlaybackAnswered(p) ==
  \E r \in requests :
    /\ r.by = p
    /\ r.answer # "waiting"
    /\ cache' = AfterAnswer(p, r)
    /\ PopItemQueue(p, playback[p].left, requests \ {r})
    /\ UNCHANGED <<status, offline, now, server, db, owed>>

-----------------------------------------------------------------------------
(* The application ends and starts again: the storage calendar's file is
   all that is left.                                                       *)
Restart ==
  /\ "restart" \in env
  /\ db' = <<>>
  /\ requests' = {}
  /\ playback' = [p \in Player |-> Idle]
  /\ loading' = FALSE
  /\ sync' = "idle"
  /\ mSyncQueue' = 0
  /\ toAdd' = [i \in Item |-> 0]
  /\ conflicts' = conflicts \cup {r.change.item : r \in {s \in requests : s.answer = "ok"}}
  /\ UNCHANGED <<given, offline, disabled, now, server, cache, owed>>

UserNext ==
  \/ \E i \in Item : AddItem(i) \/ ModifyItem(i) \/ DeleteItem(i)
  \/ GoOffline
  \/ Disable

SyncNext ==
  \/ ReplayDone \/ ItemsGot \/ GetItemsFailed \/ Reconcile
  \/ \E i \in Item : AddGotItem(i)

Next ==
  \/ UserNext
  \/ UserRefreshes \/ GoOnline
  \/ DbReads \/ DbCallback
  \/ \E r \in requests : ServerTakes(r) \/ ServerRefuses(r) \/ UserAnswered(r)
  \/ \E i \in Item : OthersChange(i)
  \/ UncachedLoaded \/ SyncNext
  \/ \E p \in Player : PlaybackReads(p) \/ PlaybackAnswered(p)
  \/ Restart

Spec == Init /\ [][Next]_vars

(* Callbacks come, the calendar's timer refreshes it, and the server cannot
   for ever refuse what it is asked for again and again.                   *)
Fairness ==
  /\ WF_vars(UserRefreshes)
  /\ WF_vars(DbReads) /\ WF_vars(DbCallback)
  /\ WF_vars(UncachedLoaded) /\ WF_vars(SyncNext)
  /\ \A p \in Player : WF_vars(PlaybackReads(p)) /\ WF_vars(PlaybackAnswered(p))
  /\ WF_vars(\E r \in requests : UserAnswered(r))
  /\ WF_vars(\E r \in requests : ServerTakes(r) \/ ServerRefuses(r))
  /\ \A i \in Item : SF_vars(\E r \in requests : r.change.item = i /\ ServerTakes(r))

FairSpec == Spec /\ Fairness

-----------------------------------------------------------------------------
(* Properties.                                                             *)

(* Every variable has its type.                                            *)
TypeOK ==
  /\ [env |-> env, log |-> supportsChangeLog] \in Cases
  /\ offline \in BOOLEAN /\ disabled \in BOOLEAN
  /\ now \in Nat
  /\ server \in [Item -> Time] /\ conflicts \subseteq Item
  /\ cache \in [Item -> Entry]
  /\ \A k \in 1..Len(db) : db[k].change \in Change
  /\ \A r \in requests : r.change \in Change /\ r.by \in Player \cup {"user"}
  /\ playback \in [Player -> Playbacks]
  /\ sync \in {"idle", "replay", "getItems", "adding", "playback"}
  /\ mSyncQueue \in 0..MaxSyncs
  /\ toAdd \in [Item -> Time]
  /\ owed \subseteq Change

Without(circumstances) == env \cap circumstances = {}

Kept(o) ==
  IF o.kind = "delete" THEN cache[o.item].flag = "deleted"
    ELSE /\ cache[o.item].flag \in {"created", "modified"}
         /\ cache[o.item].time >= o.time

(* With a provider that replays changes, a change the user was told of
   stays in the cache with its offline flag until the server has it:
   through failed playbacks, concurrent refreshes and restarts, and whatever
   others do to other items.  Only changes that overlap one another or a
   playback can lose it, as resetItemOfflineFlag and the last step of
   deleteOfflineItem do not look whether the item has changed meanwhile, and
   the replay of a change of the same item on the server: by others, or by a
   request whose answer was lost.                                          *)
OwedIsKept ==
  supportsChangeLog /\ Without({"overlap", "editDuring"}) =>
    \A o \in owed : o.item \in conflicts \/ Kept(o)

(* The same of the providers that are synchronised in full, when nothing
   goes on: the reconciliation makes the offline changes again on the new
   cache ("Created items are not present on the server, so its safe to
   adopt them").                                                           *)
OwedIsKeptBySync ==
  (~supportsChangeLog /\ ~Busy /\ Without({"overlap", "editDuring", "getFails"}))
    => \A o \in owed : Kept(o)

(* A playback never adds an item the server has taken already, unless the
   answer was lost, two playbacks run at once, or somebody else or an undo
   interferes.                                                             *)
AddFindsNoCopy ==
  Without({"restart", "answerLost", "refreshAgain", "undoDelete", "foreign", "editDuring"}) =>
    \A r \in requests : r.answer = "waiting" /\ r.change.kind = "add"
                          => server[r.change.item] = 0

Quiet == db = <<>> /\ requests = {} /\ ~Busy

(* When nothing is in progress, an item without a flag is what the server
   has: no callback of a change, a playback or a synchronisation leaves an
   older or a newer one behind.                                            *)
UnflaggedIsServers ==
  Without({"restart", "answerLost", "refreshAgain", "undoDelete", "editDuring",
           "overlap", "foreign"}) =>
    (Quiet => \A i \in Item : cache[i].flag = "none" => cache[i].time = server[i])

(* Every responder that synchronize takes into its queue is called: whatever
   becomes of the synchronisation and the playback behind it, and even if the
   calendar is disabled meanwhile, emptyQueue is reached.                  *)
SyncAnswered == mSyncQueue > 0 ~> mSyncQueue = 0

OwesAdd(i) == \E o \in owed : o.item = i /\ o.kind = "add"

(* An item created offline reaches the server, once the user stays online
   and if no answer is lost: the server refuses what it has taken.         *)
CreatedReachesServer ==
  (/\ supportsChangeLog
   /\ Without({"undoDelete", "foreign", "restart", "answerLost", "disable"})
   /\ <>[]~offline) =>
    \A i \in Item : OwesAdd(i) ~> ~OwesAdd(i)
=============================================================================
