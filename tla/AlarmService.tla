----------------------------- MODULE AlarmService -----------------------------
(***************************************************************************)
(* calAlarmService (calendar/base/src/calAlarmService.js) keeps a timer    *)
(* for every alarm due before its next search and tells its observers when *)
(* one is due; calAlarmMonitor (calAlarmMonitor.js) keeps the list of the  *)
(* alarms the user is shown.                                               *)
(*                                                                         *)
(* A search gets the items of its calendars and goes through them in       *)
(* slices of the event queue (cal.forEach), while the calendars' observers *)
(* tell of changes at once.  Nothing tells a slice that the item it holds  *)
(* has been changed or deleted since it was got.                           *)
(*                                                                         *)
(* Every item has one alarm, with a date of its own: searches select items *)
(* by the items' dates, timers are set by those of the alarms.  Hours of a *)
(* day are abstracted to ticks, and a month to the length of the behaviour. *)
(***************************************************************************)
EXTENDS Integers, FiniteSets

CONSTANTS
  Calendar, Item,
  CalendarOf,   \* the calendar of each item
  MaxTime,      \* bound on the ticks
  HoursBetweenUpdates,
  Search,       \* 1..n, for at most n searches at the same time
  Cases         \* what is looked at: Circumstances, the dates of items, and
                \* how many changes of items and calendars there are

Circumstances ==
  { "editDuring",   \* calendars change while a search goes on
    "longSnooze",   \* an alarm is snoozed to after the next search
    "lateAlarm",    \* an alarm is set after its item's end and the next search
    "suppress",     \* a calendar's alarms are suppressed, or no longer
    "register",     \* calendars are registered and unregistered
    "reload",       \* a calendar is reloaded as a whole
    "sleep" }       \* the computer sleeps for some time

(* The last date a search may begin at to find the item, and when the alarm
   is due: before the item begins, as a rule, but any date can be set.     *)
Dates == [end : 1..MaxTime, alarm : 1..MaxTime]

ASSUME AlarmAssumption ==
  /\ CalendarOf \in [Item -> Calendar]
  /\ IsFiniteSet(Calendar) /\ IsFiniteSet(Search)
  /\ MaxTime \in Nat \ {0}
  /\ Search = 1..Cardinality(Search) /\ Search # {}
  /\ HoursBetweenUpdates \in Nat \ {0}
  /\ Cases \subseteq
       [env : SUBSET Circumstances, dates : SUBSET Dates, edits : Nat]

VARIABLES
  env, dates,       \* the circumstances of this behaviour
  edits,            \* how many changes are still to come
  now,
  item,             \* the calendars' items
  registered,       \* the calendar manager's calendars
  suppressAlarms,   \* those with the property
  mRangeEnd,        \* until when alarms have timers
  nextUpdate,       \* when mUpdateTimer fires next
  mTimerMap,        \* each item's timer
  orphans,          \* timers that run but are in no map
  mLoadedCalendars,
  search,           \* the getListeners of findAlarms
  mAlarms           \* calAlarmMonitor's list

calVars == <<env, dates, edits, item, registered, suppressAlarms>>
rangeVars == <<mRangeEnd, nextUpdate>>
timerVars == <<mTimerMap, orphans>>
vars == <<calVars, now, rangeVars, timerVars, mLoadedCalendars, search, mAlarms>>

(* What matters of an item: its dates, the snooze time, and when its alarm
   was last acknowledged, 0 for never.                                     *)
Version == [end : 1..MaxTime, alarm : 1..MaxTime,
            snooze : 0..MaxTime, ack : 0..MaxTime]
Deleted == [end |-> 0, alarm |-> 0, snooze |-> 0, ack |-> 0]
New(d) == [end |-> d.end, alarm |-> d.alarm, snooze |-> 0, ack |-> 0]

AlarmDate(v) == IF v.snooze > v.alarm THEN v.snooze ELSE v.alarm

(* What a calendar may be given.                                           *)
NewVersions ==
  {New(d) : d \in {e \in dates : \/ e.alarm <= e.end \/ e.alarm <= mRangeEnd
                                \/ "lateAlarm" \in env}}

Occurrence == [item : Item, v : Version]
NoTimer == [v |-> Deleted, running |-> FALSE]
NoSearch == [from |-> 0, stage |-> [c \in Calendar |-> "none"],
             left |-> {}, batches |-> 0, results |-> FALSE, resolved |-> FALSE]

Items(c) == {i \in Item : CalendarOf[i] = c}
Present(c) == {i \in Items(c) : item[i] # Deleted}

-----------------------------------------------------------------------------
(* calAlarmMonitor.  copies tells an alarm pushed again from one that was
   removed before.                                                         *)

OnAlarm(alarms, o) ==
  IF \E a \in alarms : a.o = o
    THEN {a \in alarms : a.o # o} \cup {[o |-> o, copies |-> 2]}
    ELSE alarms \cup {[o |-> o, copies |-> 1]}

OnRemoveAlarmsByItem(alarms, i) == {a \in alarms : a.o.item # i}
OnRemoveAlarmsByCalendar(alarms, c) == {a \in alarms : CalendarOf[a.o.item] # c}

AlarmFired(alarms, o) ==
  IF CalendarOf[o.item] \in suppressAlarms THEN alarms ELSE OnAlarm(alarms, o)

-----------------------------------------------------------------------------
(* Timers.                                                                 *)

(* addTimer: a timer already in the map is replaced but runs on.           *)
AddTimer(i, v, cancelled) ==
  /\ mTimerMap' = [mTimerMap EXCEPT ![i] = [v |-> v, running |-> TRUE]]
  /\ orphans' = IF mTimerMap[i].running /\ ~cancelled
                  THEN orphans \cup {[item |-> i, v |-> mTimerMap[i].v]} ELSE orphans

RemoveTimer(i) == mTimerMap' = [mTimerMap EXCEPT ![i] = NoTimer] /\ UNCHANGED orphans

DisposeCalendarTimers(timers, cs) ==
  [i \in Item |-> IF CalendarOf[i] \in cs THEN NoTimer ELSE timers[i]]

(* A faulty addAlarmsForItem: what is past was rung by an earlier search.  *)
AddOnlyFutureAlarm(i, v, alarms, cancelled) ==
  /\ IF now <= AlarmDate(v) /\ AlarmDate(v) <= mRangeEnd
       THEN AddTimer(i, v, cancelled)
       ELSE IF cancelled THEN RemoveTimer(i) ELSE UNCHANGED timerVars
  /\ mAlarms' = alarms

(* addAlarmsForItem.  cancelled: removeAlarmsForItem has come before it;
   alarms is then what that left of the monitor's list.                    *)
AddAlarmsForItem(i, v, alarms, cancelled) ==
  /\ IF now <= AlarmDate(v) /\ AlarmDate(v) <= mRangeEnd
       THEN AddTimer(i, v, cancelled)
       ELSE IF cancelled THEN RemoveTimer(i) ELSE UNCHANGED timerVars
  /\ mAlarms' = IF AlarmDate(v) < now /\ v.ack < AlarmDate(v)
                  THEN AlarmFired(alarms, [item |-> i, v |-> v]) ELSE alarms

TimerDue(t) == t.running /\ AlarmDate(t.v) <= now

TimerFires(i) ==
  /\ TimerDue(mTimerMap[i])
  /\ mTimerMap' = [mTimerMap EXCEPT ![i].running = FALSE]
  /\ mAlarms' = AlarmFired(mAlarms, [item |-> i, v |-> mTimerMap[i].v])
  /\ UNCHANGED <<calVars, now, rangeVars, orphans, mLoadedCalendars, search>>

OrphanFires(o) ==
  /\ AlarmDate(o.v) <= now
  /\ orphans' = orphans \ {o}
  /\ mAlarms' = AlarmFired(mAlarms, o)
  /\ UNCHANGED <<calVars, now, rangeVars, mTimerMap, mLoadedCalendars, search>>

-----------------------------------------------------------------------------
(* Searches.                                                               *)

Searching == \E s \in Search : search[s] # NoSearch

(* findAlarms over the calendars cs, for the items from that date on.      *)
FindAlarms(cs, from, suppressed) ==
  LET asked == cs \ suppressed
  IN /\ mLoadedCalendars' = [c \in Calendar |->
          IF c \in cs THEN c \notin asked ELSE mLoadedCalendars[c]]
     /\ IF asked = {} THEN UNCHANGED search
          ELSE \E s \in Search :
                 /\ search[s] = NoSearch
                 /\ \A t \in Search : t < s => search[t] # NoSearch
                 /\ search' = [search EXCEPT ![s] =
                      [NoSearch EXCEPT !.from = from,
                         !.stage = [c \in Calendar |->
                                      IF c \in asked THEN "asked" ELSE "none"]]]

(* initAlarms: as on startup, but of some calendars.                       *)
InitAlarms(cs, timers, alarms, suppressed) ==
  /\ mTimerMap' = DisposeCalendarTimers(timers, cs)
  /\ mAlarms' = {a \in alarms : CalendarOf[a.o.item] \notin cs}
  /\ FindAlarms(cs, 1, suppressed)
  /\ UNCHANGED orphans

(* The listener is done with when all calendars are.                       *)
Finished(s) == IF \A c \in Calendar : s.stage[c] \in {"none", "done"} THEN NoSearch ELSE s

(* The promise is resolved: all calendars whose operation is complete count
   as loaded, as do those that complete later.                             *)
Loaded(s) == {c \in Calendar : s.resolved /\ s.stage[c] \in {"adding", "done"}}

MarkLoaded(s) == mLoadedCalendars' = [c \in Calendar |-> mLoadedCalendars[c] \/ c \in Loaded(s)]

(* A faulty onOperationComplete that resolves the promise only after
   results.                                                                *)
CompletedWithResults(s, c, found) ==
  [s EXCEPT !.stage[c] = IF found = {} THEN "done" ELSE "adding",
            !.left = s.left \cup found,
            !.batches = s.batches + IF found = {} THEN 0 ELSE 1,
            !.results = s.results \/ found # {}]

(* A faulty onGetResult that does not count its batches.                   *)
CompletedUncounted(s, c, found) ==
  [s EXCEPT !.stage[c] = IF found = {} THEN "done" ELSE "adding",
            !.left = s.left \cup found,
            !.results = s.results \/ found # {},
            !.resolved = s.resolved \/ ~(s.results \/ found # {})]

(* onGetResult, if there is anything, and onOperationComplete.             *)
Completed(s, c, found) ==
  [s EXCEPT !.stage[c] = IF found = {} THEN "done" ELSE "adding",
            !.left = s.left \cup found,
            !.batches = s.batches + IF found = {} THEN 0 ELSE 1,
            !.results = s.results \/ found # {},
            !.resolved = s.resolved \/ ~(s.results \/ found # {})]

ItemsGot(id, c) ==
  LET found == {[item |-> i, v |-> item[i]] :
                  i \in {j \in Present(c) : item[j].end >= search[id].from}}
      s == Completed(search[id], c, found)
  IN /\ search[id].stage[c] = "asked"
     /\ search' = [search EXCEPT ![id] = Finished(s)]
     /\ MarkLoaded(s)
     /\ UNCHANGED <<calVars, now, rangeVars, timerVars, mAlarms>>

(* One slice of cal.forEach in onGetResult.                                *)
SliceAdds(id, o) ==
  /\ o \in search[id].left
  /\ AddAlarmsForItem(o.item, o.v, OnRemoveAlarmsByItem(mAlarms, o.item), TRUE)
  /\ search' = [search EXCEPT ![id].left = @ \ {o}]
  /\ UNCHANGED <<calVars, now, rangeVars, mLoadedCalendars>>

BatchAdded(id, c) ==
  LET s == [search[id] EXCEPT !.stage[c] = "done", !.batches = @ - 1,
              !.resolved = @ \/ search[id].batches <= 1]
  IN /\ search[id].stage[c] = "adding"
     /\ \A o \in search[id].left : CalendarOf[o.item] # c
     /\ search' = [search EXCEPT ![id] = Finished(s)]
     /\ MarkLoaded(s)
     /\ UNCHANGED <<calVars, now, rangeVars, timerVars, mAlarms>>

-----------------------------------------------------------------------------
(* The clock.                                                              *)

Tick ==
  /\ now < MaxTime
  /\ nextUpdate > now
  /\ \A i \in Item : ~TimerDue(mTimerMap[i])
  /\ \A o \in orphans : AlarmDate(o.v) > now
  /\ now' = now + 1
  /\ UNCHANGED <<calVars, rangeVars, timerVars, mLoadedCalendars, search, mAlarms>>

(* A subsequent search looks for what is not over before the last one's
   range was.                                                              *)
SearchFrom == mRangeEnd

(* timerCallback.notify, every kHoursBetweenUpdates.                       *)
UpdateTimerFires ==
  /\ nextUpdate <= now
  /\ FindAlarms(registered, SearchFrom, suppressAlarms)
  /\ mRangeEnd' = now + HoursBetweenUpdates
  /\ nextUpdate' = now + HoursBetweenUpdates
  /\ UNCHANGED <<calVars, now, timerVars, mAlarms>>

(* wake_notification: shutdown and startup.  The monitor has stopped
   observing when shutdown removes the alarms.                             *)
WakeUp ==
  /\ "sleep" \in env
  /\ \E t \in (now + 1)..MaxTime :
       /\ now' = t
       /\ mRangeEnd' = t + HoursBetweenUpdates
       /\ nextUpdate' = t + HoursBetweenUpdates
  /\ mTimerMap' = DisposeCalendarTimers(mTimerMap, registered)
  /\ FindAlarms(registered, 1, suppressAlarms)
  /\ UNCHANGED <<calVars, orphans, mAlarms>>

-----------------------------------------------------------------------------
(* The calendars.                                                          *)

MayEdit ==
  /\ edits > 0
  /\ Searching => "editDuring" \in env
  /\ edits' = edits - 1

(* A faulty onModifyItem that does not purge what was shown before.        *)
NotifyWithoutDelete(i, v) ==
  IF v = Deleted
    THEN /\ RemoveTimer(i)
         /\ mAlarms' = OnRemoveAlarmsByItem(mAlarms, i)
    ELSE AddAlarmsForItem(i, v, mAlarms, FALSE)

(* What onAddItem, onModifyItem and onDeleteItem do.                       *)
Notify(i, v) ==
  CASE v = Deleted -> /\ RemoveTimer(i)
                      /\ mAlarms' = OnRemoveAlarmsByItem(mAlarms, i)
    [] v # Deleted /\ item[i] = Deleted -> AddAlarmsForItem(i, v, mAlarms, FALSE)
    [] OTHER -> AddAlarmsForItem(i, v, OnRemoveAlarmsByItem(mAlarms, i), TRUE)

ChangeItem(i, v) ==
  /\ MayEdit
  /\ CalendarOf[i] \in registered
  /\ item' = [item EXCEPT ![i] = v]
  /\ Notify(i, v)
  /\ UNCHANGED <<env, dates, registered, suppressAlarms, now, rangeVars,
                 mLoadedCalendars, search>>

UserChanges(i) ==
  \/ \E v \in NewVersions : ChangeItem(i, v)
  \/ item[i] # Deleted /\ ChangeItem(i, Deleted)

(* A calendar takes a change of the shown item only if it is the current
   one.                                                                    *)
IsShown(i) ==
  /\ item[i] # Deleted
  /\ \E a \in mAlarms : a.o = [item |-> i, v |-> item[i]]

DismissAlarm(i) ==
  /\ IsShown(i)
  /\ ChangeItem(i, [item[i] EXCEPT !.snooze = 0, !.ack = now])

SnoozeAlarm(i) ==
  \E until \in (now + 1)..MaxTime :
    /\ IsShown(i)
    /\ until > mRangeEnd => "longSnooze" \in env
    /\ ChangeItem(i, [item[i] EXCEPT !.snooze = until, !.ack = now])

(* A calendar that cannot tell what has changed notifies onLoad.           *)
Reload(i) ==
  /\ "reload" \in env
  /\ MayEdit
  /\ CalendarOf[i] \in registered
  /\ \E v \in {Deleted} \cup NewVersions : item' = [item EXCEPT ![i] = v]
  /\ IF mLoadedCalendars[CalendarOf[i]]
       THEN InitAlarms({CalendarOf[i]}, mTimerMap, mAlarms, suppressAlarms)
       ELSE UNCHANGED <<timerVars, mAlarms, mLoadedCalendars, search>>
  /\ UNCHANGED <<env, dates, registered, suppressAlarms, now, rangeVars>>

SwitchSuppressAlarms(c) ==
  /\ "suppress" \in env
  /\ MayEdit
  /\ c \in registered
  /\ suppressAlarms' = IF c \in suppressAlarms THEN suppressAlarms \ {c}
                                               ELSE suppressAlarms \cup {c}
  /\ InitAlarms({c}, mTimerMap, mAlarms, suppressAlarms')
  /\ UNCHANGED <<env, dates, item, registered, now, rangeVars>>

Register(c) ==
  /\ "register" \in env
  /\ MayEdit
  /\ c \notin registered
  /\ registered' = registered \cup {c}
  /\ InitAlarms({c}, mTimerMap, mAlarms, suppressAlarms)
  /\ UNCHANGED <<env, dates, item, suppressAlarms, now, rangeVars>>

(* onCalendarUnregistering, unobserveCalendar.                             *)
Unregister(c) ==
  /\ "register" \in env
  /\ MayEdit
  /\ c \in registered
  /\ registered' = registered \ {c}
  /\ mTimerMap' = DisposeCalendarTimers(mTimerMap, {c})
  /\ mAlarms' = OnRemoveAlarmsByCalendar(mAlarms, c)
  /\ UNCHANGED <<env, dates, item, suppressAlarms, now, rangeVars, orphans,
                 mLoadedCalendars, search>>

-----------------------------------------------------------------------------
(* The state just after startup().                                         *)
Init ==
  /\ \E case \in Cases :
       env = case.env /\ dates = case.dates /\ edits = case.edits
  /\ now = 1
  /\ registered = Calendar
  /\ suppressAlarms = {}
  /\ mRangeEnd = 1 + HoursBetweenUpdates
  /\ item \in [Item -> {Deleted} \cup NewVersions]
  /\ nextUpdate = 1 + HoursBetweenUpdates
  /\ mTimerMap = [i \in Item |-> NoTimer]
  /\ orphans = {}
  /\ mLoadedCalendars = [c \in Calendar |-> FALSE]
  /\ search = [s \in Search |->
                  IF s = 1 THEN [NoSearch EXCEPT !.from = 1,
                                   !.stage = [c \in Calendar |-> "asked"]]
                           ELSE NoSearch]
  /\ mAlarms = {}

SearchNext(s) ==
  \/ \E c \in Calendar : ItemsGot(s, c) \/ BatchAdded(s, c)
  \/ \E o \in search[s].left : SliceAdds(s, o)

Next ==
  \/ Tick \/ UpdateTimerFires \/ WakeUp
  \/ \E s \in Search : SearchNext(s)
  \/ \E i \in Item : \/ TimerFires(i) \/ UserChanges(i) \/ DismissAlarm(i)
                     \/ SnoozeAlarm(i) \/ Reload(i)
  \/ \E o \in orphans : OrphanFires(o)
  \/ \E c \in Calendar : SwitchSuppressAlarms(c) \/ Register(c) \/ Unregister(c)

Spec == Init /\ [][Next]_vars

(* Calendars answer and the event queue moves on.                          *)
FairSpec == Spec /\ \A s \in Search : WF_vars(SearchNext(s))

-----------------------------------------------------------------------------
(* Properties.                                                             *)

(* Every variable has its type.                                            *)
TypeOK ==
  /\ env \subseteq Circumstances /\ dates \subseteq Dates
  /\ edits \in Nat /\ now \in 1..MaxTime
  /\ item \in [Item -> Version \cup {Deleted}]
  /\ registered \subseteq Calendar /\ suppressAlarms \subseteq Calendar
  /\ mRangeEnd \in Nat /\ nextUpdate \in Nat
  /\ mTimerMap \in [Item -> [v : Version, running : BOOLEAN] \cup {NoTimer}]
  /\ orphans \subseteq Occurrence
  /\ mLoadedCalendars \in [Calendar -> BOOLEAN]
  /\ \A s \in Search :
       /\ search[s].stage \in [Calendar -> {"none", "asked", "adding", "done"}]
       /\ search[s].left \subseteq Occurrence
       /\ search[s].batches \in 0..Cardinality(Calendar)
  /\ \A a \in mAlarms : a.o \in Occurrence /\ a.copies \in {1, 2}

Without(circumstances) == env \cap circumstances = {}

Current(o) == item[o.item] = o.v /\ CalendarOf[o.item] \in registered

(* The user is shown, and timers run for, nothing but items as they are
   now, of calendars that are there, and no alarm twice: searches overlap
   what is shown, but each item is purged before it is added again.  It
   fails when a calendar changes while a slice holds its item.             *)
NothingStale ==
  Without({"editDuring"}) =>
    /\ \A a \in mAlarms : Current(a.o) /\ a.copies = 1
    /\ \A i \in Item : mTimerMap[i].running => Current([item |-> i, v |-> mTimerMap[i].v])
    /\ orphans = {}

Due(i) ==
  /\ item[i] # Deleted
  /\ CalendarOf[i] \in registered \ suppressAlarms
  /\ item[i].ack < AlarmDate(item[i])

(* When no search goes on, an alarm that was not acknowledged is shown once
   its time has come, and has a timer if it comes before the next search,
   through any sequence of searches, snoozes, reloads and sleep.  An alarm
   that is snoozed, or was set, beyond both the next search and its item's
   end is forgotten: addAlarmsForItem sets no timer for it, and a later
   search looks for items by their own dates.                              *)
EveryAlarmRings ==
  (Without({"editDuring", "longSnooze", "lateAlarm"}) /\ ~Searching) =>
    \A i \in Item : Due(i) =>
      LET date == AlarmDate(item[i])
      IN /\ date < now =>
              \E a \in mAlarms : a.o = [item |-> i, v |-> item[i]]
         /\ now < date /\ date <= mRangeEnd =>
              mTimerMap[i] = [v |-> item[i], running |-> TRUE]

(* Loading ends, with or without results, so that the alarm window can be
   closed (isLoading): the promise the calendars of a search share is
   resolved whatever the order of their answers.                           *)
LoadingEnds == \A c \in Calendar : ~mLoadedCalendars[c] ~> mLoadedCalendars[c]
=============================================================================
