-------------------------- MODULE AlarmServiceProofs --------------------------
(***************************************************************************)
(* Proofs about AlarmService: the types, that nothing stale is shown, and  *)
(* that no alarm is missed.                                                *)
(***************************************************************************)
EXTENDS AlarmService, FiniteSetTheorems, TLAPS

Stage == {"none", "asked", "adding", "done"}
Listener ==
  [ from : Nat, stage : [Calendar -> Stage], left : SUBSET Occurrence,
    batches : Nat, results : BOOLEAN, resolved : BOOLEAN ]
Timer == [v : Version, running : BOOLEAN] \cup {NoTimer}
Alarm == [o : Occurrence, copies : {1, 2}]

Types ==
  /\ env \subseteq Circumstances /\ dates \subseteq Dates
  /\ edits \in Nat /\ now \in 1..MaxTime
  /\ item \in [Item -> Version \cup {Deleted}]
  /\ registered \subseteq Calendar /\ suppressAlarms \subseteq Calendar
  /\ mRangeEnd \in Nat /\ nextUpdate \in Nat
  /\ mTimerMap \in [Item -> Timer]
  /\ orphans \subseteq Occurrence
  /\ mLoadedCalendars \in [Calendar -> BOOLEAN]
  /\ search \in [Search -> Listener]
  /\ mAlarms \subseteq Alarm

-----------------------------------------------------------------------------
(* The promise of a search.                                                *)

Adding(s) == {c \in Calendar : s.stage[c] = "adding"}

(* It is resolved when the first calendar has nothing, or when the batches
   of all those that had something have been added.                        *)
PromiseOK(s) ==
  /\ s.batches = Cardinality(Adding(s))
  /\ s.results /\ ~s.resolved => Adding(s) # {}
  /\ \A c \in Calendar :
       s.stage[c] \in {"adding", "done"} /\ ~s.resolved => s.results

(* What keeps a calendar from being loaded.                                *)
Open(s, c) ==
  \/ s.stage[c] = "asked"
  \/ s.stage[c] \in {"adding", "done"} /\ ~s.resolved

(* A calendar that is not loaded will be by a search that goes on.         *)
LoadedOK ==
  /\ \A s \in Search : PromiseOK(search[s])
  /\ \A c \in Calendar : mLoadedCalendars[c] \/ \E s \in Search : Open(search[s], c)

-----------------------------------------------------------------------------
(* What is current.                                                        *)

(* What a search holds is current, and it is of registered calendars.      *)
HoldsCurrent(s) ==
  /\ \A o \in s.left : Current(o)
  /\ \A c \in Calendar : s.stage[c] # "none" => c \in registered

(* An item whose timer runs is not shown.                                  *)
TimerOK(i) ==
  mTimerMap[i].running =>
    /\ mTimerMap[i].v \in Version
    /\ Current([item |-> i, v |-> mTimerMap[i].v])
    /\ \A a \in mAlarms : a.o.item # i

CurrentOK ==
  Without({"editDuring"}) =>
    /\ \A s \in Search : HoldsCurrent(search[s])
    /\ \A a \in mAlarms : Current(a.o) /\ a.copies = 1
    /\ \A i \in Item : TimerOK(i)
    /\ orphans = {}

Inv == Types /\ LoadedOK /\ CurrentOK

-----------------------------------------------------------------------------
(* What the monitor's list and the timers become.                          *)

LEMMA FiredKeeps ==
  ASSUME NEW alarms \in SUBSET Alarm, NEW o \in Occurrence
  PROVE  /\ AlarmFired(alarms, o) \in SUBSET Alarm
         /\ \A a \in AlarmFired(alarms, o) : a \in alarms \/ a.o = o
         /\ (\A a \in alarms : a.o # o) =>
              \A a \in AlarmFired(alarms, o) : a \in alarms \/ a = [o |-> o, copies |-> 1]
BY DEF AlarmFired, OnAlarm, Alarm

(* An alarm is shown or has a timer, never both.                           *)
LEMMA AddAlarmsKeeps ==
  ASSUME NEW i \in Item, NEW v \in Version, NEW alarms \in SUBSET Alarm,
         NEW cancelled \in BOOLEAN, AddAlarmsForItem(i, v, alarms, cancelled),
         mTimerMap \in [Item -> Timer], orphans \subseteq Occurrence,
         now \in 1..MaxTime
  PROVE  /\ mTimerMap' \in [Item -> Timer]
         /\ orphans' \subseteq Occurrence
         /\ mAlarms' \subseteq Alarm
         /\ \A j \in Item \ {i} : mTimerMap'[j] = mTimerMap[j]
         /\ cancelled \/ ~mTimerMap[i].running =>
              /\ orphans' = orphans
              /\ mTimerMap'[i].running => mTimerMap'[i].v = v /\ mAlarms' = alarms
         /\ (\A a \in alarms : a.o # [item |-> i, v |-> v]) =>
              \A a \in mAlarms' : a \in alarms \/ a = [o |-> [item |-> i, v |-> v], copies |-> 1]
<1>. DEFINE o == [item |-> i, v |-> v]
            date == AlarmDate(v)
<1>1. o \in Occurrence
  BY DEF Occurrence
<1>2. date \in Int
  BY AlarmAssumption DEF AlarmAssumption, AlarmDate, Version
<1>3. NoTimer \in Timer /\ ~NoTimer.running /\ [v |-> v, running |-> TRUE] \in Timer
  BY DEF Timer, NoTimer
<1>4. mAlarms' = alarms \/ (date < now /\ mAlarms' = AlarmFired(alarms, o))
  BY DEF AddAlarmsForItem
<1>5. /\ mAlarms' \subseteq Alarm
      /\ (\A a \in alarms : a.o # o) =>
              \A a \in mAlarms' : a \in alarms \/ a = [o |-> o, copies |-> 1]
  BY <1>1, <1>4, FiredKeeps
<1>6. CASE now <= date /\ date <= mRangeEnd
  <2>1. AddTimer(i, v, cancelled)
    BY <1>6 DEF AddAlarmsForItem
  <2>2. mAlarms' = alarms
    BY <1>2, <1>4, <1>6
  <2>3. mTimerMap[i].running => [item |-> i, v |-> mTimerMap[i].v] \in Occurrence
    BY DEF Timer, NoTimer, Occurrence
  <2>4. /\ orphans' \subseteq Occurrence
        /\ cancelled \/ ~mTimerMap[i].running => orphans' = orphans
    BY <2>1, <2>3 DEF AddTimer
  <2>5. mTimerMap' = [mTimerMap EXCEPT ![i] = [v |-> v, running |-> TRUE]]
    BY <2>1 DEF AddTimer
  <2>. QED BY <1>3, <1>5, <2>2, <2>4, <2>5
<1>7. CASE ~(now <= date /\ date <= mRangeEnd)
  <2>1. IF cancelled THEN RemoveTimer(i) ELSE UNCHANGED timerVars
    BY <1>7 DEF AddAlarmsForItem
  <2>2. \/ mTimerMap' = [mTimerMap EXCEPT ![i] = NoTimer]
        \/ ~cancelled /\ mTimerMap' = mTimerMap
    BY <2>1 DEF RemoveTimer, timerVars
  <2>3. orphans' = orphans
    BY <2>1 DEF RemoveTimer, timerVars
  <2>. QED BY <1>3, <1>5, <2>2, <2>3
<1>. QED BY <1>6, <1>7

LEMMA DisposeKeeps ==
  ASSUME NEW timers \in [Item -> Timer], NEW cs
  PROVE  /\ DisposeCalendarTimers(timers, cs) \in [Item -> Timer]
         /\ \A i \in Item :
              DisposeCalendarTimers(timers, cs)[i].running =>
                /\ CalendarOf[i] \notin cs
                /\ DisposeCalendarTimers(timers, cs)[i] = timers[i]
BY DEF DisposeCalendarTimers, Timer, NoTimer

-----------------------------------------------------------------------------
(* What searches become.                                                   *)

LEMMA NoSearchOK ==
  /\ NoSearch \in Listener /\ PromiseOK(NoSearch) /\ HoldsCurrent(NoSearch)
  /\ \A c \in Calendar : ~Open(NoSearch, c)
<1>1. NoSearch \in Listener
  BY DEF NoSearch, Listener, Stage
<1>2. Adding(NoSearch) = {} /\ NoSearch.batches = 0
  BY DEF Adding, NoSearch
<1>3. PromiseOK(NoSearch)
  BY <1>2, FS_EmptySet DEF PromiseOK, NoSearch
<1>. QED BY <1>1, <1>3 DEF NoSearch, HoldsCurrent, Open

(* A search in which calendars were asked, and none has answered.          *)
AskedSearch(asked, from) ==
  [NoSearch EXCEPT !.from = from,
     !.stage = [c \in Calendar |-> IF c \in asked THEN "asked" ELSE "none"]]

LEMMA AskedKeeps ==
  ASSUME NEW asked \in SUBSET Calendar, NEW from \in Nat
  PROVE  /\ AskedSearch(asked, from) \in Listener
         /\ PromiseOK(AskedSearch(asked, from))
         /\ \A c \in asked : Open(AskedSearch(asked, from), c)
         /\ AskedSearch(asked, from).left = {}
         /\ \A c \in Calendar : AskedSearch(asked, from).stage[c] # "none" => c \in asked
<1>. DEFINE s == AskedSearch(asked, from)
<1>1. s \in Listener
  BY NoSearchOK DEF AskedSearch, Listener, Stage
<1>2. /\ s.stage = [c \in Calendar |-> IF c \in asked THEN "asked" ELSE "none"]
      /\ s.left = {} /\ s.batches = 0 /\ ~s.results
  BY DEF AskedSearch, NoSearch
<1>. HIDE DEF s
<1>3. Adding(s) = {}
  BY <1>2 DEF Adding
<1>4. \A c \in Calendar : s.stage[c] = IF c \in asked THEN "asked" ELSE "none"
  BY <1>2
<1>5. PromiseOK(s)
  <2>1. s.batches = Cardinality(Adding(s))
    BY <1>2, <1>3, FS_EmptySet
  <2>2. \A c \in Calendar : s.stage[c] \notin {"adding", "done"}
    BY <1>4
  <2>. QED BY <1>2, <2>1, <2>2 DEF PromiseOK
<1>6. \A c \in asked : Open(s, c)
  BY <1>4 DEF Open
<1>. QED BY <1>1, <1>2, <1>4, <1>5, <1>6 DEF s

LEMMA FindAlarmsKeeps ==
  ASSUME search \in [Search -> Listener], mLoadedCalendars \in [Calendar -> BOOLEAN],
         LoadedOK, NEW cs \in SUBSET Calendar, NEW from \in Nat, NEW suppressed,
         FindAlarms(cs, from, suppressed)
  PROVE  /\ search' \in [Search -> Listener]
         /\ mLoadedCalendars' \in [Calendar -> BOOLEAN]
         /\ LoadedOK'
         /\ \A s \in Search :
              \/ search'[s] = search[s]
              \/ /\ search'[s].left = {}
                 /\ \A c \in Calendar : search'[s].stage[c] # "none" => c \in cs
<1>. DEFINE asked == cs \ suppressed
<1>1. mLoadedCalendars' = [c \in Calendar |->
         IF c \in cs THEN c \notin asked ELSE mLoadedCalendars[c]]
  BY DEF FindAlarms
<1>2. CASE asked = {}
  <2>1. search' = search
    BY <1>2 DEF FindAlarms
  <2>. QED BY <1>1, <1>2, <2>1 DEF LoadedOK
<1>3. CASE asked # {}
  <2>1. PICK t \in Search :
          /\ search[t] = NoSearch
          /\ search' = [search EXCEPT ![t] = [NoSearch EXCEPT !.from = from,
               !.stage = [c \in Calendar |-> IF c \in asked THEN "asked" ELSE "none"]]]
    BY <1>3 DEF FindAlarms
  <2>2. asked \in SUBSET Calendar
    OBVIOUS
  <2>. HIDE DEF asked
  <2>3. /\ search'[t] \in Listener /\ PromiseOK(search'[t])
        /\ \A c \in asked : Open(search'[t], c)
        /\ search'[t].left = {}
        /\ \A c \in Calendar : search'[t].stage[c] # "none" => c \in asked
    <3>1. search'[t] = AskedSearch(asked, from)
      BY <2>1 DEF AskedSearch
    <3>. DEFINE s == AskedSearch(asked, from)
    <3>2. /\ s \in Listener /\ PromiseOK(s)
          /\ \A c \in asked : Open(s, c)
          /\ s.left = {}
          /\ \A c \in Calendar : s.stage[c] # "none" => c \in asked
      BY <2>2, AskedKeeps
    <3>. HIDE DEF s
    <3>. QED BY <3>1, <3>2 DEF s
  <2>4. \A s \in Search : s # t => search'[s] = search[s]
    BY <2>1
  <2>5. search' \in [Search -> Listener]
    BY <2>1, <2>3, <2>4
  <2>6. \A c \in Calendar : mLoadedCalendars'[c] \/ \E s \in Search : Open(search'[s], c)
    BY <1>1, <2>1, <2>3, <2>4, NoSearchOK DEF LoadedOK
  <2>7. \A s \in Search : PromiseOK(search'[s])
    BY <2>3, <2>4 DEF LoadedOK
  <2>8. LoadedOK'
    BY <2>6, <2>7 DEF LoadedOK
  <2>9. asked \subseteq cs
    BY DEF asked
  <2>. QED BY <1>1, <2>3, <2>4, <2>5, <2>8, <2>9
<1>. QED BY <1>2, <1>3

(* The listener is not forgotten before its promise is resolved.           *)
LEMMA FinishedKeeps ==
  ASSUME NEW s \in Listener, PromiseOK(s)
  PROVE  /\ Finished(s) \in Listener /\ PromiseOK(Finished(s))
         /\ \A c \in Calendar : Open(s, c) => Open(Finished(s), c)
         /\ HoldsCurrent(s) => HoldsCurrent(Finished(s))
<1>1. CASE \A c \in Calendar : s.stage[c] \in {"none", "done"}
  <2>1. Finished(s) = NoSearch
    BY <1>1 DEF Finished
  <2>2. Adding(s) = {}
    BY <1>1 DEF Adding
  <2>3. \A c \in Calendar : ~Open(s, c)
    BY <1>1, <2>2 DEF PromiseOK, Open
  <2>. QED BY <2>1, <2>3, NoSearchOK
<1>2. CASE ~(\A c \in Calendar : s.stage[c] \in {"none", "done"})
  BY <1>2 DEF Finished
<1>. QED BY <1>1, <1>2

(* The calendars that become loaded are those whose search is over or has
   its promise resolved.                                                   *)
LEMMA AnswerKeeps ==
  ASSUME search \in [Search -> Listener], mLoadedCalendars \in [Calendar -> BOOLEAN],
         LoadedOK, NEW id \in Search, NEW s \in Listener, PromiseOK(s),
         \A c \in Calendar : s.stage[c] = "none" => search[id].stage[c] = "none",
         \A c \in Calendar : s.stage[c] = "asked" \/ search[id].stage[c] # "asked"
                               \/ s.stage[c] \in {"adding", "done"},
         search[id].resolved => s.resolved,
         search' = [search EXCEPT ![id] = Finished(s)], MarkLoaded(s)
  PROVE  /\ search' \in [Search -> Listener]
         /\ mLoadedCalendars' \in [Calendar -> BOOLEAN]
         /\ LoadedOK'
<1>1. /\ search'[id] = Finished(s)
      /\ \A t \in Search : t # id => search'[t] = search[t]
      /\ Finished(s) \in Listener /\ PromiseOK(Finished(s))
  BY FinishedKeeps
<1>2. search' \in [Search -> Listener]
  BY <1>1
<1>3. mLoadedCalendars' \in [Calendar -> BOOLEAN]
  BY DEF MarkLoaded
<1>4. \A t \in Search : PromiseOK(search'[t])
  BY <1>1 DEF LoadedOK
<1>5. ASSUME NEW c \in Calendar
      PROVE  mLoadedCalendars'[c] \/ \E t \in Search : Open(search'[t], c)
  <2>1. mLoadedCalendars'[c] <=> mLoadedCalendars[c] \/ c \in Loaded(s)
    BY DEF MarkLoaded
  <2>2. CASE Open(search[id], c)
    <3>1. Open(s, c) \/ c \in Loaded(s)
      BY <2>2 DEF Open, Loaded, Listener, Stage
    <3>. QED BY <1>1, <2>1, <3>1, FinishedKeeps
  <2>3. CASE ~Open(search[id], c)
    BY <1>1, <2>1, <2>3 DEF LoadedOK
  <2>. QED BY <2>2, <2>3
<1>6. LoadedOK'
  BY <1>4, <1>5 DEF LoadedOK
<1>. QED BY <1>2, <1>3, <1>6

LEMMA AddingIsFinite ==
  ASSUME NEW s PROVE IsFiniteSet(Adding(s)) /\ Cardinality(Adding(s)) \in Nat
<1>1. IsFiniteSet(Calendar) /\ Adding(s) \subseteq Calendar
  BY AlarmAssumption DEF AlarmAssumption, Adding
<1>. QED BY <1>1, FS_Subset, FS_CardinalityType

LEMMA CompletedKeeps ==
  ASSUME NEW s \in Listener, PromiseOK(s), NEW c \in Calendar, s.stage[c] = "asked",
         NEW found \in SUBSET Occurrence
  PROVE  /\ Completed(s, c, found) \in Listener /\ PromiseOK(Completed(s, c, found))
         /\ Completed(s, c, found).left = s.left \cup found
         /\ \A d \in Calendar : d # c => Completed(s, c, found).stage[d] = s.stage[d]
         /\ Completed(s, c, found).stage[c] \in {"adding", "done"}
         /\ s.resolved => Completed(s, c, found).resolved
<1>. DEFINE next == IF found = {} THEN "done" ELSE "adding"
            more == IF found = {} THEN 0 ELSE 1
            some == s.results \/ found # {}
            over == s.resolved \/ ~some
            left == s.left \cup found
            count == s.batches + more
            stage == [s.stage EXCEPT ![c] = next]
            r == [s EXCEPT !.stage = stage, !.left = left, !.batches = count,
                           !.results = some, !.resolved = over]
<1>1. Completed(s, c, found) = r
  BY DEF Completed, Listener
<1>2. next \in {"done", "adding"} /\ stage \in [Calendar -> Stage]
      /\ \A d \in Calendar : d # c => stage[d] = s.stage[d]
      /\ stage[c] = next
  BY DEF Listener, Stage
<1>12. stage[c] \in {"adding", "done"}
  BY DEF Listener, Stage
<1>3. count \in Nat /\ some \in BOOLEAN /\ over \in BOOLEAN /\ left \in SUBSET Occurrence
  BY DEF Listener
<1>4. count = Cardinality({d \in Calendar : stage[d] = "adding"})
  <2>1. s.batches = Cardinality(Adding(s)) /\ c \notin Adding(s)
    BY DEF PromiseOK, Adding
  <2>2. CASE found = {}
    <3>1. {d \in Calendar : stage[d] = "adding"} = Adding(s)
      BY <1>2, <2>2 DEF Adding
    <3>2. count = s.batches
      BY <2>2 DEF Listener
    <3>. HIDE DEF stage, count
    <3>. QED BY <2>1, <3>1, <3>2
  <2>3. CASE found # {}
    <3>1. {d \in Calendar : stage[d] = "adding"} = Adding(s) \cup {c}
      BY <1>2, <2>3 DEF Adding
    <3>2. Cardinality(Adding(s) \cup {c}) = Cardinality(Adding(s)) + 1
      BY <2>1, AddingIsFinite, FS_AddElement
    <3>3. count = s.batches + 1
      BY <2>3
    <3>4. count = Cardinality(Adding(s) \cup {c})
      BY <2>1, <3>2, <3>3
    <3>. HIDE DEF stage, count
    <3>. QED BY <3>1, <3>4
  <2>. QED BY <2>2, <2>3
<1>5. some /\ ~over => {d \in Calendar : stage[d] = "adding"} # {}
  <2>1. CASE found # {}
    BY <1>2, <2>1
  <2>2. CASE found = {}
    <3>1. some /\ ~over => \E d \in Adding(s) : d # c
      BY <2>2 DEF PromiseOK, Adding
    <3>. QED BY <1>2, <3>1 DEF Adding
  <2>. QED BY <2>1, <2>2
<1>6. ~over => some
  OBVIOUS
<1>7. s.resolved => over
  OBVIOUS
<1>. HIDE DEF next, more, some, over, left, count, stage
<1>8. r \in Listener
  BY <1>2, <1>3 DEF Listener
<1>9. /\ r.stage = stage /\ r.left = left /\ r.batches = count
      /\ r.results = some /\ r.resolved = over
  BY DEF Listener
<1>. HIDE DEF r
<1>10. PromiseOK(r)
  BY <1>4, <1>5, <1>6, <1>9 DEF PromiseOK, Adding
<1>11. /\ r.left = s.left \cup found
       /\ \A d \in Calendar : d # c => r.stage[d] = s.stage[d]
       /\ r.stage[c] \in {"adding", "done"}
       /\ s.resolved => r.resolved
  <2>1. r.left = s.left \cup found
    BY <1>9 DEF left
  <2>2. \A d \in Calendar : d # c => r.stage[d] = s.stage[d]
    BY <1>2, <1>9
  <2>3. r.stage[c] \in {"adding", "done"}
    <3>1. r.stage[c] = stage[c]
      BY <1>9
    <3>. QED BY <1>12, <3>1
  <2>4. s.resolved => r.resolved
    BY <1>7, <1>9
  <2>. QED BY <2>1, <2>2, <2>3, <2>4
<1>. QED BY <1>1, <1>8, <1>10, <1>11

WithBatchAdded(s, c) ==
  [s EXCEPT !.stage[c] = "done", !.batches = @ - 1, !.resolved = @ \/ s.batches <= 1]

(* The batch that is the last one resolves the promise.                    *)
LEMMA BatchKeeps ==
  ASSUME NEW s \in Listener, PromiseOK(s), NEW c \in Calendar, s.stage[c] = "adding"
  PROVE  /\ WithBatchAdded(s, c) \in Listener /\ PromiseOK(WithBatchAdded(s, c))
         /\ WithBatchAdded(s, c).left = s.left
         /\ \A d \in Calendar : d # c => WithBatchAdded(s, c).stage[d] = s.stage[d]
         /\ WithBatchAdded(s, c).stage[c] = "done"
         /\ s.resolved => WithBatchAdded(s, c).resolved
<1>. DEFINE r == WithBatchAdded(s, c)
            stage == [s.stage EXCEPT ![c] = "done"]
            over == s.resolved \/ s.batches <= 1
            count == s.batches - 1
<1>1. r = [s EXCEPT !.stage = stage, !.batches = count, !.resolved = over]
  BY DEF Listener, WithBatchAdded
<1>. HIDE DEF r
<1>2. /\ stage \in [Calendar -> Stage] /\ stage[c] = "done"
      /\ \A d \in Calendar : d # c => stage[d] = s.stage[d]
  BY DEF Listener, Stage
<1>3. /\ s.batches = Cardinality(Adding(s)) /\ c \in Adding(s)
      /\ {d \in Calendar : stage[d] = "adding"} = Adding(s) \ {c}
  BY <1>2 DEF PromiseOK, Adding
<1>4. count = Cardinality({d \in Calendar : stage[d] = "adding"}) /\ count \in Nat
  <2>1. Cardinality(Adding(s) \ {c}) = Cardinality(Adding(s)) - 1
        /\ IsFiniteSet(Adding(s) \ {c})
    BY <1>3, AddingIsFinite, FS_RemoveElement
  <2>. QED BY <1>3, <2>1, FS_CardinalityType
<1>5. ~over => {d \in Calendar : stage[d] = "adding"} # {}
  <2>1. ~over => count # 0
    BY DEF Listener
  <2>. QED BY <1>4, <2>1, FS_EmptySet
<1>6. over \in BOOLEAN /\ (~over => ~s.resolved) /\ (s.resolved => over)
  OBVIOUS
<1>. HIDE DEF stage, over, count
<1>7. r \in Listener
  BY <1>1, <1>2, <1>4, <1>6 DEF Listener
<1>8. /\ r.stage = stage /\ r.left = s.left /\ r.batches = count
      /\ r.results = s.results /\ r.resolved = over
  BY <1>1 DEF Listener
<1>9. ~over => s.results
  BY <1>6 DEF PromiseOK
<1>10. PromiseOK(r)
  BY <1>4, <1>5, <1>8, <1>9 DEF PromiseOK, Adding
<1>. QED BY <1>2, <1>6, <1>7, <1>8, <1>10 DEF r

-----------------------------------------------------------------------------
(* What the steps have in common.                                          *)

LEMMA DeletedIsNoVersion == Deleted \notin Version
BY DEF Deleted, Version

LEMMA IdleIsLoaded ==
  ASSUME LoadedOK, ~Searching
  PROVE  /\ \A s \in Search : search[s] = NoSearch
         /\ \A c \in Calendar : mLoadedCalendars[c]
BY NoSearchOK DEF LoadedOK, Searching

(* Where neither items nor registrations change, what was current is.      *)
LEMMA CalmKeepsHeld ==
  ASSUME CurrentOK, UNCHANGED <<env, item, registered>>, Without({"editDuring"}),
         \A s \in Search : \/ search'[s] = search[s]
                           \/ HoldsCurrent(search'[s])
  PROVE  \A s \in Search : HoldsCurrent(search[s])'
<1>1. \A s \in Search : HoldsCurrent(search'[s])
  BY DEF CurrentOK
<1>. QED BY <1>1 DEF HoldsCurrent, Current

LEMMA FoundHoldsCurrent ==
  ASSUME NEW cs \in SUBSET registered, NEW s, s.left = {},
         \A c \in Calendar : s.stage[c] # "none" => c \in cs
  PROVE  HoldsCurrent(s)
BY DEF HoldsCurrent

(* The calendars are disposed of and searched again.                       *)
LEMMA InitAlarmsKeeps ==
  ASSUME Inv, NEW cs \in SUBSET Calendar, cs \subseteq registered', NEW suppressed,
         InitAlarms(cs, mTimerMap, mAlarms, suppressed),
         env' = env, Without({"editDuring"}) => ~Searching,
         \A i \in Item : CalendarOf[i] \notin cs => item'[i] = item[i],
         \A c \in Calendar \ cs : c \in registered' <=> c \in registered
  PROVE  /\ mTimerMap' \in [Item -> Timer]
         /\ orphans' \subseteq Occurrence
         /\ mLoadedCalendars' \in [Calendar -> BOOLEAN]
         /\ search' \in [Search -> Listener]
         /\ mAlarms' \subseteq Alarm
         /\ LoadedOK' /\ CurrentOK'
<1>1. /\ mTimerMap' = DisposeCalendarTimers(mTimerMap, cs)
      /\ mAlarms' = {a \in mAlarms : CalendarOf[a.o.item] \notin cs}
      /\ FindAlarms(cs, 1, suppressed) /\ orphans' = orphans
  BY DEF InitAlarms
<1>2. /\ search' \in [Search -> Listener]
      /\ mLoadedCalendars' \in [Calendar -> BOOLEAN]
      /\ LoadedOK'
      /\ \A s \in Search :
           \/ search'[s] = search[s]
           \/ /\ search'[s].left = {}
              /\ \A c \in Calendar : search'[s].stage[c] # "none" => c \in cs
  BY <1>1, FindAlarmsKeeps DEF Inv, Types
<1>3. /\ mTimerMap' \in [Item -> Timer]
      /\ \A i \in Item : mTimerMap'[i].running =>
           CalendarOf[i] \notin cs /\ mTimerMap'[i] = mTimerMap[i]
  BY <1>1, DisposeKeeps DEF Inv, Types
<1>4. orphans' \subseteq Occurrence /\ mAlarms' \subseteq Alarm
  BY <1>1 DEF Inv, Types
<1>5. ASSUME Without({"editDuring"})
      PROVE  /\ \A s \in Search : HoldsCurrent(search[s])'
             /\ \A a \in mAlarms' : Current(a.o)' /\ a.copies = 1
             /\ \A i \in Item : TimerOK(i)'
             /\ orphans' = {}
  <2>1. /\ \A a \in mAlarms : Current(a.o) /\ a.copies = 1
        /\ \A i \in Item : TimerOK(i)
        /\ orphans = {}
    BY <1>5 DEF Inv, CurrentOK
  <2>2. ASSUME NEW o \in Occurrence, Current(o), CalendarOf[o.item] \notin cs
        PROVE  Current(o)'
    BY <2>2, AlarmAssumption DEF AlarmAssumption, Current, Occurrence
  <2>3. \A a \in mAlarms' : Current(a.o)' /\ a.copies = 1
    BY <1>1, <2>1, <2>2 DEF Inv, Types, Alarm
  <2>4. ASSUME NEW i \in Item PROVE TimerOK(i)'
    <3>1. CASE ~mTimerMap'[i].running
      BY <3>1 DEF TimerOK
    <3>2. CASE mTimerMap'[i].running
      <4>1. /\ CalendarOf[i] \notin cs /\ mTimerMap'[i] = mTimerMap[i]
            /\ mTimerMap[i].running
        BY <1>3, <3>2
      <4>2. /\ mTimerMap[i].v \in Version
            /\ item[i] = mTimerMap[i].v /\ CalendarOf[i] \in registered
            /\ \A a \in mAlarms : a.o.item # i
        BY <2>1, <4>1 DEF TimerOK, Current
      <4>3. item'[i] = item[i] /\ CalendarOf[i] \in registered'
        BY <4>1, <4>2, AlarmAssumption DEF AlarmAssumption
      <4>4. \A a \in mAlarms' : a.o.item # i
        BY <1>1, <4>2
      <4>. QED BY <4>1, <4>2, <4>3, <4>4 DEF TimerOK, Current
    <3>. QED BY <3>1, <3>2
  <2>5. \A s \in Search : search'[s].left = {}
          /\ \A c \in Calendar : search'[s].stage[c] # "none" => c \in cs
    <3>1. \A s \in Search : search[s] = NoSearch
      BY <1>5, IdleIsLoaded DEF Inv
    <3>2. NoSearch.left = {} /\ \A c \in Calendar : NoSearch.stage[c] = "none"
      BY DEF NoSearch
    <3>. QED BY <1>2, <3>1, <3>2
  <2>6. \A s \in Search : HoldsCurrent(search[s])'
    BY <2>5 DEF HoldsCurrent
  <2>. QED BY <1>1, <2>1, <2>3, <2>4, <2>6
<1>6. CurrentOK'
  BY <1>5 DEF CurrentOK, Without
<1>. QED BY <1>2, <1>3, <1>4, <1>6

(* An alarm that fires is that of a timer that ran.                        *)
LEMMA ShownKeepsCurrent ==
  ASSUME CurrentOK, UNCHANGED <<env, item, registered, orphans>>,
         Without({"editDuring"}),
         \A s \in Search : search'[s] = search[s] \/ HoldsCurrent(search'[s]),
         \A i \in Item : mTimerMap'[i].running => mTimerMap'[i] = mTimerMap[i],
         \A a \in mAlarms' :
           \/ a \in mAlarms
           \/ /\ Current(a.o) /\ a.copies = 1
              /\ ~mTimerMap'[a.o.item].running
  PROVE  CurrentOK'
<1>1. \A s \in Search : HoldsCurrent(search[s])'
  BY CalmKeepsHeld
<1>2. \A a \in mAlarms' : Current(a.o) /\ a.copies = 1
  BY DEF CurrentOK
<1>3. \A a \in mAlarms' : Current(a.o)' /\ a.copies = 1
  BY <1>2 DEF Current
<1>4. ASSUME NEW i \in Item PROVE TimerOK(i)'
  <2>1. CASE ~mTimerMap'[i].running
    BY <2>1 DEF TimerOK
  <2>2. CASE mTimerMap'[i].running
    <3>1. mTimerMap'[i] = mTimerMap[i] /\ mTimerMap[i].running /\ TimerOK(i)
      BY <2>2 DEF CurrentOK
    <3>2. /\ mTimerMap[i].v \in Version
          /\ item[i] = mTimerMap[i].v /\ CalendarOf[i] \in registered
          /\ \A a \in mAlarms : a.o.item # i
      BY <3>1 DEF TimerOK, Current
    <3>3. \A a \in mAlarms' : a.o.item # i
      BY <2>2, <3>2
    <3>. QED BY <3>1, <3>2, <3>3 DEF TimerOK, Current
  <2>. QED BY <2>1, <2>2
<1>5. orphans' = {}
  BY DEF CurrentOK
<1>. QED BY <1>1, <1>3, <1>4, <1>5 DEF CurrentOK

-----------------------------------------------------------------------------
(* The steps.                                                              *)

LEMMA TimerFiresKeepsInv ==
  ASSUME Inv, NEW i \in Item, TimerFires(i)
  PROVE  Inv'
<1>. DEFINE o == [item |-> i, v |-> mTimerMap[i].v]
<1>1. mTimerMap \in [Item -> Timer] /\ mTimerMap[i].running
  BY DEF Inv, Types, TimerFires, TimerDue
<1>2. mTimerMap[i] \in [v : Version, running : BOOLEAN]
  BY <1>1 DEF Timer, NoTimer
<1>3. mTimerMap' = [mTimerMap EXCEPT ![i] = [@ EXCEPT !.running = FALSE]]
  BY <1>1 DEF TimerFires
<1>4. mTimerMap' \in [Item -> Timer] /\ ~mTimerMap'[i].running
      /\ \A j \in Item : j # i => mTimerMap'[j] = mTimerMap[j]
  BY <1>1, <1>2, <1>3 DEF Timer
<1>5. o \in Occurrence
  BY <1>2 DEF Occurrence
<1>6. mAlarms' = AlarmFired(mAlarms, o)
  BY DEF TimerFires
<1>7. Types'
  BY <1>4, <1>5, <1>6, FiredKeeps
  DEF TimerFires, calVars, rangeVars, Inv, Types
<1>8. LoadedOK'
  BY DEF TimerFires, Inv, LoadedOK
<1>9. CurrentOK'
  <2>1. CASE Without({"editDuring"})
    <3>1. TimerOK(i) /\ CurrentOK
      BY <2>1 DEF Inv, CurrentOK
    <3>2. Current(o) /\ \A a \in mAlarms : a.o # o
      BY <1>1, <3>1 DEF TimerOK
    <3>3. \A a \in mAlarms' : a \in mAlarms \/ a = [o |-> o, copies |-> 1]
      BY <1>5, <1>6, <3>2, FiredKeeps DEF Inv, Types
    <3>. HIDE DEF o
    <3>4. \A a \in mAlarms' :
            \/ a \in mAlarms
            \/ Current(a.o) /\ a.copies = 1 /\ ~mTimerMap'[a.o.item].running
      BY <1>4, <3>2, <3>3 DEF o
    <3>. QED BY <1>4, <2>1, <3>1, <3>4, ShownKeepsCurrent DEF TimerFires, calVars
  <2>2. CASE ~Without({"editDuring"})
    BY <2>2 DEF CurrentOK, Without, TimerFires, calVars
  <2>. QED BY <2>1, <2>2
<1>. QED BY <1>7, <1>8, <1>9 DEF Inv

LEMMA OrphanFiresKeepsInv ==
  ASSUME Inv, NEW o \in orphans, OrphanFires(o)
  PROVE  Inv'
<1>1. o \in Occurrence /\ mAlarms' = AlarmFired(mAlarms, o)
  BY DEF OrphanFires, Inv, Types
<1>2. Types'
  BY <1>1, FiredKeeps DEF OrphanFires, calVars, rangeVars, Inv, Types
<1>3. LoadedOK'
  BY DEF OrphanFires, Inv, LoadedOK
<1>4. CurrentOK'
  BY DEF CurrentOK, Without, OrphanFires, calVars, Inv
<1>. QED BY <1>2, <1>3, <1>4 DEF Inv

LEMMA ItemsGotKeepsInv ==
  ASSUME Inv, NEW id \in Search, NEW c \in Calendar, ItemsGot(id, c)
  PROVE  Inv'
<1>. DEFINE found == {[item |-> i, v |-> item[i]] :
                        i \in {j \in Present(c) : item[j].end >= search[id].from}}
            s == Completed(search[id], c, found)
<1>1. /\ search[id] \in Listener /\ PromiseOK(search[id])
      /\ search[id].stage[c] = "asked"
  BY DEF Inv, Types, LoadedOK, ItemsGot
<1>2. found \in SUBSET Occurrence
  BY DEF Inv, Types, Present, Items, Occurrence
<1>3. search' = [search EXCEPT ![id] = Finished(s)] /\ MarkLoaded(s)
  BY DEF ItemsGot
<1>4. \A o \in found : item[o.item] = o.v /\ CalendarOf[o.item] = c
  BY DEF Present, Items
<1>. HIDE DEF found
<1>5. /\ s \in Listener /\ PromiseOK(s)
      /\ s.left = search[id].left \cup found
      /\ \A d \in Calendar : d # c => s.stage[d] = search[id].stage[d]
      /\ s.stage[c] \in {"adding", "done"}
      /\ search[id].resolved => s.resolved
  BY <1>1, <1>2, CompletedKeeps
<1>. HIDE DEF s
<1>6. /\ \A d \in Calendar : s.stage[d] = "none" => search[id].stage[d] = "none"
      /\ \A d \in Calendar : s.stage[d] = "asked" \/ search[id].stage[d] # "asked"
                               \/ s.stage[d] \in {"adding", "done"}
  BY <1>5
<1>7. /\ search' \in [Search -> Listener]
      /\ mLoadedCalendars' \in [Calendar -> BOOLEAN]
      /\ LoadedOK'
  BY <1>3, <1>5, <1>6, AnswerKeeps DEF Inv, Types
<1>8. Types'
  BY <1>7 DEF ItemsGot, calVars, rangeVars, timerVars, Inv, Types
<1>9. CurrentOK'
  <2>1. CASE Without({"editDuring"})
    <3>1. HoldsCurrent(search[id]) /\ CurrentOK
      BY <2>1 DEF Inv, CurrentOK
    <3>2. HoldsCurrent(s)
      BY <1>1, <1>4, <1>5, <3>1 DEF HoldsCurrent, Current
    <3>3. \A t \in Search : search'[t] = search[t] \/ HoldsCurrent(search'[t])
      BY <1>3, <1>5, <3>2, FinishedKeeps DEF Inv, Types
    <3>. QED BY <2>1, <3>1, <3>3, ShownKeepsCurrent DEF ItemsGot, calVars, timerVars
  <2>2. CASE ~Without({"editDuring"})
    BY <2>2 DEF CurrentOK, Without, ItemsGot, calVars
  <2>. QED BY <2>1, <2>2
<1>. QED BY <1>7, <1>8, <1>9 DEF Inv

LEMMA BatchAddedKeepsInv ==
  ASSUME Inv, NEW id \in Search, NEW c \in Calendar, BatchAdded(id, c)
  PROVE  Inv'
<1>. DEFINE s == WithBatchAdded(search[id], c)
<1>1. /\ search[id] \in Listener /\ PromiseOK(search[id])
      /\ search[id].stage[c] = "adding"
  BY DEF Inv, Types, LoadedOK, BatchAdded
<1>2. search' = [search EXCEPT ![id] = Finished(s)] /\ MarkLoaded(s)
  BY DEF BatchAdded, WithBatchAdded
<1>3. /\ s \in Listener /\ PromiseOK(s)
      /\ s.left = search[id].left
      /\ \A d \in Calendar : d # c => s.stage[d] = search[id].stage[d]
      /\ s.stage[c] = "done"
      /\ search[id].resolved => s.resolved
  BY <1>1, BatchKeeps
<1>. HIDE DEF s
<1>4. /\ \A d \in Calendar : s.stage[d] = "none" => search[id].stage[d] = "none"
      /\ \A d \in Calendar : s.stage[d] = "asked" \/ search[id].stage[d] # "asked"
                               \/ s.stage[d] \in {"adding", "done"}
  BY <1>3
<1>5. /\ search' \in [Search -> Listener]
      /\ mLoadedCalendars' \in [Calendar -> BOOLEAN]
      /\ LoadedOK'
  BY <1>2, <1>3, <1>4, AnswerKeeps DEF Inv, Types
<1>6. Types'
  BY <1>5 DEF BatchAdded, calVars, rangeVars, timerVars, Inv, Types
<1>7. CurrentOK'
  <2>1. CASE Without({"editDuring"})
    <3>1. HoldsCurrent(search[id]) /\ CurrentOK
      BY <2>1 DEF Inv, CurrentOK
    <3>2. HoldsCurrent(s)
      BY <1>1, <1>3, <3>1 DEF HoldsCurrent
    <3>3. \A t \in Search : search'[t] = search[t] \/ HoldsCurrent(search'[t])
      BY <1>2, <1>3, <3>2, FinishedKeeps DEF Inv, Types
    <3>. QED BY <2>1, <3>1, <3>3, ShownKeepsCurrent DEF BatchAdded, calVars, timerVars
  <2>2. CASE ~Without({"editDuring"})
    BY <2>2 DEF CurrentOK, Without, BatchAdded, calVars
  <2>. QED BY <2>1, <2>2
<1>. QED BY <1>5, <1>6, <1>7 DEF Inv

LEMMA PurgeKeeps ==
  ASSUME mAlarms \subseteq Alarm, NEW i
  PROVE  /\ OnRemoveAlarmsByItem(mAlarms, i) \in SUBSET Alarm
         /\ \A a \in OnRemoveAlarmsByItem(mAlarms, i) : a \in mAlarms /\ a.o.item # i
BY DEF OnRemoveAlarmsByItem

(* What an item is shown and timed with after it was given a new version:
   nothing of an old one.                                                  *)
Renewed(i, v) ==
  /\ orphans' = orphans
  /\ \A a \in mAlarms' :
       \/ a \in mAlarms /\ a.o.item # i
       \/ v \in Version /\ a = [o |-> [item |-> i, v |-> v], copies |-> 1]
  /\ mTimerMap'[i].running =>
       /\ v \in Version /\ mTimerMap'[i].v = v
       /\ \A a \in mAlarms' : a.o.item # i

LEMMA PurgedIsRenewed ==
  ASSUME Types, NEW i \in Item, NEW v \in Version,
         AddAlarmsForItem(i, v, OnRemoveAlarmsByItem(mAlarms, i), TRUE)
  PROVE  /\ mTimerMap' \in [Item -> Timer]
         /\ orphans' \subseteq Occurrence
         /\ mAlarms' \subseteq Alarm
         /\ \A j \in Item \ {i} : mTimerMap'[j] = mTimerMap[j]
         /\ Renewed(i, v)
<1>. DEFINE purged == OnRemoveAlarmsByItem(mAlarms, i)
<1>1. purged \in SUBSET Alarm /\ \A a \in purged : a \in mAlarms /\ a.o.item # i
  BY PurgeKeeps DEF Types
<1>. HIDE DEF purged
<1>2. AddAlarmsForItem(i, v, purged, TRUE)
  BY DEF purged
<1>3. /\ mTimerMap' \in [Item -> Timer]
      /\ orphans' \subseteq Occurrence
      /\ mAlarms' \subseteq Alarm
      /\ \A j \in Item \ {i} : mTimerMap'[j] = mTimerMap[j]
      /\ orphans' = orphans
      /\ mTimerMap'[i].running => mTimerMap'[i].v = v /\ mAlarms' = purged
  BY <1>1, <1>2, AddAlarmsKeeps DEF Types
<1>4. \A a \in purged : a.o # [item |-> i, v |-> v]
  BY <1>1
<1>5. \A a \in mAlarms' : a \in purged \/ a = [o |-> [item |-> i, v |-> v], copies |-> 1]
  BY <1>1, <1>2, <1>4, AddAlarmsKeeps DEF Types
<1>. QED BY <1>1, <1>3, <1>5 DEF Renewed

(* Nothing is shown of an item that is not there.                          *)
LEMMA NewIsRenewed ==
  ASSUME Types, NEW i \in Item, NEW v \in Version, AddAlarmsForItem(i, v, mAlarms, FALSE)
  PROVE  /\ mTimerMap' \in [Item -> Timer]
         /\ orphans' \subseteq Occurrence
         /\ mAlarms' \subseteq Alarm
         /\ \A j \in Item \ {i} : mTimerMap'[j] = mTimerMap[j]
         /\ ~mTimerMap[i].running /\ (\A a \in mAlarms : a.o.item # i) => Renewed(i, v)
<1>1. /\ mTimerMap' \in [Item -> Timer]
      /\ orphans' \subseteq Occurrence
      /\ mAlarms' \subseteq Alarm
      /\ \A j \in Item \ {i} : mTimerMap'[j] = mTimerMap[j]
      /\ ~mTimerMap[i].running =>
           /\ orphans' = orphans
           /\ mTimerMap'[i].running => mTimerMap'[i].v = v /\ mAlarms' = mAlarms
  BY AddAlarmsKeeps DEF Types
<1>2. ASSUME ~mTimerMap[i].running, \A a \in mAlarms : a.o.item # i
      PROVE  Renewed(i, v)
  <2>1. \A a \in mAlarms : a.o # [item |-> i, v |-> v]
    BY <1>2
  <2>2. \A a \in mAlarms' : a \in mAlarms \/ a = [o |-> [item |-> i, v |-> v], copies |-> 1]
    BY <2>1, AddAlarmsKeeps DEF Types
  <2>. QED BY <1>1, <1>2, <2>2 DEF Renewed
<1>. QED BY <1>1, <1>2

LEMMA SliceAddsKeepsInv ==
  ASSUME Inv, NEW id \in Search, NEW o \in search[id].left, SliceAdds(id, o)
  PROVE  Inv'
<1>1. search[id] \in Listener /\ o \in Occurrence /\ o.item \in Item /\ o.v \in Version
      /\ o = [item |-> o.item, v |-> o.v]
  BY DEF Inv, Types, Listener, Occurrence
<1>2. /\ mTimerMap' \in [Item -> Timer]
      /\ orphans' \subseteq Occurrence
      /\ mAlarms' \subseteq Alarm
      /\ \A j \in Item \ {o.item} : mTimerMap'[j] = mTimerMap[j]
      /\ Renewed(o.item, o.v)
  BY <1>1, PurgedIsRenewed DEF Inv, SliceAdds
<1>. DEFINE s == [search[id] EXCEPT !.left = @ \ {o}]
<1>3. search' = [search EXCEPT ![id] = s]
  BY DEF SliceAdds, Inv, Types
<1>4. /\ s \in Listener /\ s.left \subseteq search[id].left
      /\ s.stage = search[id].stage /\ s.batches = search[id].batches
      /\ s.results = search[id].results /\ s.resolved = search[id].resolved
  BY <1>1 DEF Listener
<1>. HIDE DEF s
<1>5. /\ search' \in [Search -> Listener] /\ search'[id] = s
      /\ \A t \in Search : t # id => search'[t] = search[t]
  BY <1>3, <1>4 DEF Inv, Types
<1>6. Types'
  BY <1>2, <1>5 DEF SliceAdds, calVars, rangeVars, Inv, Types
<1>7. LoadedOK'
  <2>1. PromiseOK(s) /\ \A c \in Calendar : Open(search[id], c) => Open(s, c)
    BY <1>4 DEF Inv, LoadedOK, PromiseOK, Adding, Open
  <2>2. \A t \in Search : PromiseOK(search'[t])
    BY <1>5, <2>1 DEF Inv, LoadedOK
  <2>3. \A c \in Calendar : mLoadedCalendars'[c] \/ \E t \in Search : Open(search'[t], c)
    BY <1>5, <2>1 DEF Inv, LoadedOK, SliceAdds
  <2>. QED BY <2>2, <2>3 DEF LoadedOK
<1>8. CurrentOK'
  <2>1. CASE Without({"editDuring"})
    <3>1. /\ HoldsCurrent(search[id]) /\ Current(o) /\ orphans = {}
          /\ \A a \in mAlarms : Current(a.o) /\ a.copies = 1
          /\ \A i \in Item : TimerOK(i)
      BY <2>1 DEF Inv, CurrentOK, HoldsCurrent
    <3>2. \A t \in Search : HoldsCurrent(search[t])'
      <4>1. HoldsCurrent(s)
        BY <1>4, <3>1 DEF HoldsCurrent
      <4>2. CurrentOK /\ \A t \in Search : search'[t] = search[t] \/ HoldsCurrent(search'[t])
        BY <1>5, <4>1 DEF Inv
      <4>. QED BY <2>1, <4>2, CalmKeepsHeld DEF SliceAdds, calVars
    <3>3. \A a \in mAlarms' : Current(a.o) /\ a.copies = 1
      BY <1>1, <1>2, <3>1 DEF Renewed
    <3>4. \A a \in mAlarms' : Current(a.o)' /\ a.copies = 1
      BY <3>3 DEF Current, SliceAdds, calVars
    <3>5. ASSUME NEW i \in Item PROVE TimerOK(i)'
      <4>1. CASE ~mTimerMap'[i].running
        BY <4>1 DEF TimerOK
      <4>2. CASE mTimerMap'[i].running /\ i = o.item
        BY <1>1, <1>2, <3>1, <4>2 DEF TimerOK, Renewed, Current, SliceAdds, calVars
      <4>3. CASE mTimerMap'[i].running /\ i # o.item
        <5>1. mTimerMap'[i] = mTimerMap[i] /\ TimerOK(i) /\ mTimerMap[i].running
          BY <1>2, <3>1, <4>3
        <5>2. \A a \in mAlarms' : a.o.item # i
          BY <1>2, <4>3, <5>1 DEF Renewed, TimerOK
        <5>. QED BY <5>1, <5>2 DEF TimerOK, Current, SliceAdds, calVars
      <4>. QED BY <4>1, <4>2, <4>3
    <3>6. orphans' = {}
      BY <1>2, <3>1 DEF Renewed
    <3>. QED BY <3>2, <3>4, <3>5, <3>6 DEF CurrentOK
  <2>2. CASE ~Without({"editDuring"})
    BY <2>2 DEF CurrentOK, Without, SliceAdds, calVars
  <2>. QED BY <2>1, <2>2
<1>. QED BY <1>6, <1>7, <1>8 DEF Inv

LEMMA ChangeItemKeepsInv ==
  ASSUME Inv, NEW i \in Item, NEW v \in Version \cup {Deleted}, ChangeItem(i, v)
  PROVE  Inv'
<1>1. /\ item' = [item EXCEPT ![i] = v] /\ CalendarOf[i] \in registered
      /\ Notify(i, v) /\ search' = search /\ registered' = registered /\ env' = env
      /\ mLoadedCalendars' = mLoadedCalendars
      /\ edits' = edits - 1 /\ edits > 0
      /\ Without({"editDuring"}) => ~Searching
  BY DEF ChangeItem, MayEdit, Without
<1>2. /\ mTimerMap' \in [Item -> Timer]
      /\ orphans' \subseteq Occurrence
      /\ mAlarms' \subseteq Alarm
      /\ \A j \in Item \ {i} : mTimerMap'[j] = mTimerMap[j]
      /\ Without({"editDuring"}) => Renewed(i, v)
  <2>1. CASE v = Deleted
    <3>1. /\ mTimerMap' = [mTimerMap EXCEPT ![i] = NoTimer] /\ orphans' = orphans
          /\ mAlarms' = OnRemoveAlarmsByItem(mAlarms, i)
      BY <1>1, <2>1 DEF Notify, RemoveTimer
    <3>2. NoTimer \in Timer /\ ~NoTimer.running
      BY DEF Timer, NoTimer
    <3>3. mTimerMap' \in [Item -> Timer] /\ ~mTimerMap'[i].running
          /\ \A j \in Item \ {i} : mTimerMap'[j] = mTimerMap[j]
      BY <3>1, <3>2 DEF Inv, Types
    <3>4. mAlarms' \subseteq Alarm /\ \A a \in mAlarms' : a \in mAlarms /\ a.o.item # i
      BY <3>1, PurgeKeeps DEF Inv, Types
    <3>. QED BY <3>1, <3>3, <3>4 DEF Inv, Types, Renewed
  <2>2. CASE v # Deleted /\ item[i] = Deleted
    <3>1. AddAlarmsForItem(i, v, mAlarms, FALSE) /\ v \in Version
      BY <1>1, <2>2 DEF Notify
    <3>2. ASSUME Without({"editDuring"})
          PROVE  ~mTimerMap[i].running /\ \A a \in mAlarms : a.o.item # i
      <4>1. TimerOK(i) /\ \A a \in mAlarms : Current(a.o)
        BY <3>2 DEF Inv, CurrentOK
      <4>2. ~mTimerMap[i].running
        BY <2>2, <4>1, DeletedIsNoVersion DEF TimerOK, Current
      <4>3. \A a \in mAlarms : a.o.item # i
        BY <2>2, <4>1, DeletedIsNoVersion
        DEF Inv, Types, Alarm, Occurrence, Current
      <4>. QED BY <4>2, <4>3
    <3>. QED BY <3>1, <3>2, NewIsRenewed DEF Inv
  <2>3. CASE v # Deleted /\ item[i] # Deleted
    <3>1. AddAlarmsForItem(i, v, OnRemoveAlarmsByItem(mAlarms, i), TRUE) /\ v \in Version
      BY <1>1, <2>3 DEF Notify
    <3>. QED BY <3>1, PurgedIsRenewed DEF Inv
  <2>. QED BY <2>1, <2>2, <2>3
<1>3. edits' \in Nat
  BY <1>1 DEF Inv, Types
<1>4. Types'
  BY <1>1, <1>2, <1>3 DEF ChangeItem, rangeVars, Inv, Types
<1>5. LoadedOK'
  BY <1>1 DEF Inv, LoadedOK
<1>6. CurrentOK'
  <2>1. CASE Without({"editDuring"})
    <3>1. /\ orphans = {}
          /\ \A a \in mAlarms : Current(a.o) /\ a.copies = 1
          /\ \A j \in Item : TimerOK(j)
      BY <2>1 DEF Inv, CurrentOK
    <3>2. item'[i] = v /\ \A j \in Item : j # i => item'[j] = item[j]
      BY <1>1 DEF Inv, Types
    <3>3. \A s \in Search : HoldsCurrent(search[s])'
      <4>1. \A s \in Search : search'[s] = NoSearch
        BY <1>1, <2>1, IdleIsLoaded DEF Inv
      <4>. QED BY <4>1 DEF HoldsCurrent, NoSearch
    <3>4. \A a \in mAlarms' : Current(a.o)' /\ a.copies = 1
      <4>. SUFFICES ASSUME NEW a \in mAlarms' PROVE Current(a.o)' /\ a.copies = 1
        OBVIOUS
      <4>1. CASE a \in mAlarms /\ a.o.item # i
        BY <1>1, <3>1, <3>2, <4>1 DEF Current, Inv, Types, Alarm, Occurrence
      <4>2. CASE v \in Version /\ a = [o |-> [item |-> i, v |-> v], copies |-> 1]
        BY <1>1, <3>2, <4>2 DEF Current
      <4>. QED BY <1>2, <2>1, <4>1, <4>2 DEF Renewed
    <3>5. ASSUME NEW j \in Item PROVE TimerOK(j)'
      <4>1. CASE ~mTimerMap'[j].running
        BY <4>1 DEF TimerOK
      <4>2. CASE mTimerMap'[j].running /\ j = i
        BY <1>1, <1>2, <2>1, <3>2, <4>2 DEF TimerOK, Renewed, Current
      <4>3. CASE mTimerMap'[j].running /\ j # i
        <5>1. mTimerMap'[j] = mTimerMap[j] /\ TimerOK(j) /\ mTimerMap[j].running
          BY <1>2, <3>1, <4>3
        <5>2. \A a \in mAlarms' : a.o.item # j
          BY <1>2, <2>1, <4>3, <5>1 DEF Renewed, TimerOK
        <5>. QED BY <1>1, <3>2, <4>3, <5>1, <5>2 DEF TimerOK, Current
      <4>. QED BY <4>1, <4>2, <4>3
    <3>6. orphans' = {}
      BY <1>2, <2>1, <3>1 DEF Renewed
    <3>. QED BY <3>3, <3>4, <3>5, <3>6 DEF CurrentOK
  <2>2. CASE ~Without({"editDuring"})
    BY <1>1, <2>2 DEF CurrentOK, Without
  <2>. QED BY <2>1, <2>2
<1>. QED BY <1>4, <1>5, <1>6 DEF Inv

LEMMA NewIsVersion ==
  ASSUME dates \subseteq Dates PROVE NewVersions \subseteq Version
<1>1. ASSUME NEW d \in Dates PROVE New(d) \in Version
  <2>1. d.end \in 1..MaxTime /\ d.alarm \in 1..MaxTime /\ 0 \in 0..MaxTime
    BY AlarmAssumption DEF AlarmAssumption, Dates
  <2>. QED BY <2>1 DEF New, Version
<1>. QED BY <1>1 DEF NewVersions

LEMMA ChangesKeepInv ==
  ASSUME Inv, NEW i \in Item, UserChanges(i) \/ DismissAlarm(i) \/ SnoozeAlarm(i)
  PROVE  Inv'
<1>1. CASE UserChanges(i)
  <2>1. PICK v \in Version \cup {Deleted} : ChangeItem(i, v)
    BY <1>1, NewIsVersion DEF UserChanges, Inv, Types
  <2>. QED BY <2>1, ChangeItemKeepsInv
<1>2. ASSUME item[i] # Deleted, NEW until \in 0..MaxTime
      PROVE  [item[i] EXCEPT !.snooze = until, !.ack = now] \in Version
  <2>1. item[i] \in Version
    BY <1>2 DEF Inv, Types
  <2>2. now \in 0..MaxTime
    BY AlarmAssumption DEF AlarmAssumption, Inv, Types
  <2>. QED BY <2>1, <2>2 DEF Version
<1>3. CASE DismissAlarm(i)
  <2>1. 0 \in 0..MaxTime
    BY AlarmAssumption DEF AlarmAssumption
  <2>. QED BY <1>2, <1>3, <2>1, ChangeItemKeepsInv DEF DismissAlarm, IsShown
<1>4. CASE SnoozeAlarm(i)
  <2>1. PICK until \in (now + 1)..MaxTime :
          IsShown(i) /\ ChangeItem(i, [item[i] EXCEPT !.snooze = until, !.ack = now])
    BY <1>4 DEF SnoozeAlarm
  <2>2. until \in 0..MaxTime
    BY AlarmAssumption DEF AlarmAssumption, Inv, Types
  <2>. QED BY <1>2, <2>1, <2>2, ChangeItemKeepsInv DEF IsShown
<1>. QED BY <1>1, <1>3, <1>4

LEMMA ReloadKeepsInv ==
  ASSUME Inv, NEW i \in Item, Reload(i)
  PROVE  Inv'
<1>. DEFINE c == CalendarOf[i]
<1>1. /\ c \in registered /\ c \in Calendar /\ registered' = registered /\ env' = env
      /\ edits' \in Nat /\ (Without({"editDuring"}) => ~Searching)
  BY AlarmAssumption DEF AlarmAssumption, Reload, MayEdit, Inv, Types, Without
<1>2. PICK v \in Version \cup {Deleted} : item' = [item EXCEPT ![i] = v]
  BY NewIsVersion DEF Reload, Inv, Types
<1>3. /\ item' \in [Item -> Version \cup {Deleted}]
      /\ \A j \in Item : j # i => item'[j] = item[j]
  BY <1>2 DEF Inv, Types
<1>4. CASE mLoadedCalendars[c]
  <2>1. InitAlarms({c}, mTimerMap, mAlarms, suppressAlarms)
    BY <1>4 DEF Reload
  <2>2. \A j \in Item : CalendarOf[j] \notin {c} => item'[j] = item[j]
    BY <1>3
  <2>. HIDE DEF c
  <2>3. /\ mTimerMap' \in [Item -> Timer]
        /\ orphans' \subseteq Occurrence
        /\ mLoadedCalendars' \in [Calendar -> BOOLEAN]
        /\ search' \in [Search -> Listener]
        /\ mAlarms' \subseteq Alarm
        /\ LoadedOK' /\ CurrentOK'
    BY <1>1, <2>1, <2>2, InitAlarmsKeeps
  <2>4. Types'
    BY <1>1, <1>3, <2>3 DEF Reload, rangeVars, Inv, Types
  <2>. QED BY <2>3, <2>4 DEF Inv
<1>5. CASE ~mLoadedCalendars[c]
  <2>1. UNCHANGED <<timerVars, mAlarms, mLoadedCalendars, search>>
    BY <1>5 DEF Reload
  <2>2. Types'
    BY <1>1, <1>3, <2>1 DEF Reload, rangeVars, timerVars, Inv, Types
  <2>3. LoadedOK'
    BY <2>1 DEF Inv, LoadedOK
  <2>4. ~Without({"editDuring"})
    BY <1>1, <1>5, IdleIsLoaded DEF Inv
  <2>5. CurrentOK'
    BY <1>1, <2>4 DEF CurrentOK, Without
  <2>. QED BY <2>2, <2>3, <2>5 DEF Inv
<1>. QED BY <1>4, <1>5

LEMMA CalendarsKeepInv ==
  ASSUME Inv, NEW c \in Calendar, SwitchSuppressAlarms(c) \/ Register(c)
  PROVE  Inv'
<1>1. PICK suppressed : InitAlarms({c}, mTimerMap, mAlarms, suppressed)
  BY DEF SwitchSuppressAlarms, Register
<1>2. /\ env' = env /\ item' = item /\ dates' = dates /\ edits' \in Nat
      /\ registered' \subseteq Calendar /\ c \in registered'
      /\ suppressAlarms' \subseteq Calendar
      /\ \A d \in Calendar \ {c} : d \in registered' <=> d \in registered
      /\ UNCHANGED <<now, rangeVars>>
      /\ Without({"editDuring"}) => ~Searching
  BY DEF SwitchSuppressAlarms, Register, MayEdit, Without, Inv, Types
<1>3. /\ mTimerMap' \in [Item -> Timer]
      /\ orphans' \subseteq Occurrence
      /\ mLoadedCalendars' \in [Calendar -> BOOLEAN]
      /\ search' \in [Search -> Listener]
      /\ mAlarms' \subseteq Alarm
      /\ LoadedOK' /\ CurrentOK'
  BY <1>1, <1>2, InitAlarmsKeeps
<1>4. Types'
  BY <1>2, <1>3 DEF rangeVars, Inv, Types
<1>. QED BY <1>3, <1>4 DEF Inv

LEMMA UnregisterKeepsInv ==
  ASSUME Inv, NEW c \in Calendar, Unregister(c)
  PROVE  Inv'
<1>1. /\ registered' = registered \ {c} /\ env' = env /\ item' = item /\ edits' \in Nat
      /\ mTimerMap' = DisposeCalendarTimers(mTimerMap, {c})
      /\ mAlarms' = {a \in mAlarms : CalendarOf[a.o.item] # c}
      /\ orphans' = orphans /\ search' = search /\ mLoadedCalendars' = mLoadedCalendars
      /\ Without({"editDuring"}) => ~Searching
  BY DEF Unregister, OnRemoveAlarmsByCalendar, MayEdit, Without, Inv, Types
<1>2. /\ mTimerMap' \in [Item -> Timer]
      /\ \A i \in Item : mTimerMap'[i].running =>
           CalendarOf[i] # c /\ mTimerMap'[i] = mTimerMap[i]
  BY <1>1, DisposeKeeps DEF Inv, Types
<1>3. Types'
  BY <1>1, <1>2 DEF Unregister, rangeVars, Inv, Types
<1>4. LoadedOK'
  BY <1>1 DEF Inv, LoadedOK
<1>5. CurrentOK'
  <2>1. CASE Without({"editDuring"})
    <3>1. /\ orphans = {}
          /\ \A a \in mAlarms : Current(a.o) /\ a.copies = 1
          /\ \A i \in Item : TimerOK(i)
      BY <2>1 DEF Inv, CurrentOK
    <3>2. \A s \in Search : search'[s] = NoSearch
      BY <1>1, <2>1, IdleIsLoaded DEF Inv
    <3>3. \A s \in Search : HoldsCurrent(search[s])'
      BY <3>2 DEF HoldsCurrent, NoSearch
    <3>4. \A a \in mAlarms' : Current(a.o)' /\ a.copies = 1
      BY <1>1, <3>1 DEF Current
    <3>5. ASSUME NEW i \in Item PROVE TimerOK(i)'
      <4>1. CASE ~mTimerMap'[i].running
        BY <4>1 DEF TimerOK
      <4>2. CASE mTimerMap'[i].running
        <5>1. /\ mTimerMap'[i] = mTimerMap[i] /\ mTimerMap[i].running
              /\ CalendarOf[i] # c /\ TimerOK(i)
          BY <1>2, <3>1, <4>2
        <5>. QED BY <1>1, <5>1 DEF TimerOK, Current
      <4>. QED BY <4>1, <4>2
    <3>. QED BY <1>1, <3>1, <3>3, <3>4, <3>5 DEF CurrentOK
  <2>2. CASE ~Without({"editDuring"})
    BY <1>1, <2>2 DEF CurrentOK, Without
  <2>. QED BY <2>1, <2>2
<1>. QED BY <1>3, <1>4, <1>5 DEF Inv

(* A search looks into registered calendars, and finds them as they are.   *)
LEMMA ClockKeepsInv ==
  ASSUME Inv, Tick \/ UpdateTimerFires \/ WakeUp
  PROVE  Inv'
<1>1. CASE Tick
  <2>1. now' \in 1..MaxTime
    BY <1>1, AlarmAssumption DEF Tick, AlarmAssumption, Inv, Types
  <2>2. Types'
    BY <1>1, <2>1 DEF Tick, calVars, rangeVars, timerVars, Inv, Types
  <2>3. LoadedOK'
    BY <1>1 DEF Tick, Inv, LoadedOK
  <2>4. CurrentOK'
    BY <1>1
    DEF Tick, calVars, timerVars, Inv, CurrentOK, Without, HoldsCurrent, TimerOK, Current
  <2>. QED BY <2>2, <2>3, <2>4 DEF Inv
<1>2. CASE UpdateTimerFires \/ WakeUp
  <2>1. /\ UNCHANGED <<calVars, orphans, mAlarms>>
        /\ now' \in 1..MaxTime /\ mRangeEnd' \in Nat /\ nextUpdate' \in Nat
    <3>1. CASE UpdateTimerFires
      BY <3>1, AlarmAssumption
      DEF UpdateTimerFires, AlarmAssumption, timerVars, Inv, Types
    <3>2. CASE WakeUp
      BY <3>2, AlarmAssumption DEF WakeUp, AlarmAssumption, Inv, Types
    <3>. QED BY <1>2, <3>1, <3>2
  <2>2. PICK from \in Nat : FindAlarms(registered, from, suppressAlarms)
    BY <1>2 DEF UpdateTimerFires, WakeUp, SearchFrom, Inv, Types
  <2>3. registered \in SUBSET Calendar
    BY DEF Inv, Types
  <2>4. /\ search' \in [Search -> Listener]
        /\ mLoadedCalendars' \in [Calendar -> BOOLEAN]
        /\ LoadedOK'
        /\ \A s \in Search :
             \/ search'[s] = search[s]
             \/ /\ search'[s].left = {}
                /\ \A c \in Calendar : search'[s].stage[c] # "none" => c \in registered
    BY <2>2, <2>3, FindAlarmsKeeps DEF Inv, Types
  <2>5. /\ mTimerMap' \in [Item -> Timer]
        /\ \A i \in Item : mTimerMap'[i].running => mTimerMap'[i] = mTimerMap[i]
    <3>1. CASE UpdateTimerFires
      BY <3>1 DEF UpdateTimerFires, timerVars, Inv, Types
    <3>2. CASE WakeUp
      BY <3>2, DisposeKeeps DEF WakeUp, Inv, Types
    <3>. QED BY <1>2, <3>1, <3>2
  <2>6. Types'
    BY <2>1, <2>4, <2>5 DEF calVars, Inv, Types
  <2>7. CurrentOK'
    <3>1. CASE Without({"editDuring"})
      <4>1. \A s \in Search : search'[s] = search[s] \/ HoldsCurrent(search'[s])
        BY <2>4 DEF HoldsCurrent
      <4>. QED BY <2>1, <2>5, <3>1, <4>1, ShownKeepsCurrent DEF Inv, calVars
    <3>2. CASE ~Without({"editDuring"})
      BY <2>1, <3>2 DEF CurrentOK, Without, calVars
    <3>. QED BY <3>1, <3>2
  <2>. QED BY <2>4, <2>6, <2>7 DEF Inv
<1>. QED BY <1>1, <1>2

LEMMA InitInv == Init => Inv
<1>. SUFFICES ASSUME Init PROVE Inv
  OBVIOUS
<1>. DEFINE s1 == AskedSearch(Calendar, 1)
<1>1. PICK case \in Cases : env = case.env /\ dates = case.dates /\ edits = case.edits
  BY DEF Init
<1>2. env \subseteq Circumstances /\ dates \subseteq Dates /\ edits \in Nat
  BY <1>1, AlarmAssumption DEF AlarmAssumption
<1>3. 1 \in Search
  <2>1. PICK s \in Search : TRUE
    BY AlarmAssumption DEF AlarmAssumption
  <2>. DEFINE n == Cardinality(Search)
  <2>2. Search = 1..n /\ n \in Nat
    BY AlarmAssumption, FS_CardinalityType DEF AlarmAssumption
  <2>. HIDE DEF n
  <2>. QED BY <2>1, <2>2
<1>4. /\ search = [s \in Search |->
            IF s = 1 THEN [NoSearch EXCEPT !.from = 1, !.stage = [c \in Calendar |-> "asked"]]
                     ELSE NoSearch]
      /\ mTimerMap = [i \in Item |-> NoTimer]
      /\ mLoadedCalendars = [c \in Calendar |-> FALSE]
      /\ item \in [Item -> {Deleted} \cup NewVersions]
      /\ now = 1 /\ registered = Calendar /\ suppressAlarms = {}
      /\ mRangeEnd = 1 + HoursBetweenUpdates /\ nextUpdate = 1 + HoursBetweenUpdates
      /\ orphans = {} /\ mAlarms = {}
  BY DEF Init
<1>5. /\ s1 \in Listener /\ PromiseOK(s1) /\ HoldsCurrent(s1)
      /\ \A c \in Calendar : Open(s1, c)
  <2>1. /\ s1 \in Listener /\ PromiseOK(s1)
        /\ \A c \in Calendar : Open(s1, c)
        /\ s1.left = {}
    BY AskedKeeps
  <2>. HIDE DEF s1
  <2>. QED BY <1>4, <2>1 DEF HoldsCurrent
<1>6. /\ search[1] = s1
      /\ \A s \in Search : s # 1 => search[s] = NoSearch
  <2>1. [c \in Calendar |-> IF c \in Calendar THEN "asked" ELSE "none"]
          = [c \in Calendar |-> "asked"]
    OBVIOUS
  <2>. QED BY <1>3, <1>4, <2>1 DEF AskedSearch
<1>. HIDE DEF s1
<1>7. /\ search \in [Search -> Listener]
      /\ \A s \in Search : PromiseOK(search[s]) /\ HoldsCurrent(search[s])
      /\ \A c \in Calendar : Open(search[1], c)
  BY <1>4, <1>5, <1>6, NoSearchOK
<1>8. Types
  <2>1. now \in 1..MaxTime
    BY <1>2, <1>4, AlarmAssumption DEF AlarmAssumption
  <2>2. item \in [Item -> Version \cup {Deleted}]
    BY <1>2, <1>4, NewIsVersion
  <2>3. mTimerMap \in [Item -> Timer]
    BY <1>4 DEF Timer
  <2>. QED BY <1>2, <1>4, <1>7, <2>1, <2>2, <2>3, AlarmAssumption
       DEF AlarmAssumption, Types
<1>9. LoadedOK
  BY <1>3, <1>7 DEF LoadedOK
<1>10. CurrentOK
  BY <1>4, <1>7 DEF CurrentOK, TimerOK, NoTimer
<1>. QED BY <1>8, <1>9, <1>10 DEF Inv

LEMMA NextInv == Inv /\ [Next]_vars => Inv'
<1>. SUFFICES ASSUME Inv, [Next]_vars PROVE Inv'
  OBVIOUS
<1>1. CASE Tick \/ UpdateTimerFires \/ WakeUp
  BY <1>1, ClockKeepsInv
<1>2. CASE \E s \in Search : SearchNext(s)
  BY <1>2, ItemsGotKeepsInv, BatchAddedKeepsInv, SliceAddsKeepsInv DEF SearchNext
<1>3. CASE \E i \in Item : TimerFires(i)
  BY <1>3, TimerFiresKeepsInv
<1>4. CASE \E i \in Item : UserChanges(i) \/ DismissAlarm(i) \/ SnoozeAlarm(i)
  BY <1>4, ChangesKeepInv
<1>5. CASE \E i \in Item : Reload(i)
  BY <1>5, ReloadKeepsInv
<1>6. CASE \E o \in orphans : OrphanFires(o)
  BY <1>6, OrphanFiresKeepsInv
<1>7. CASE \E c \in Calendar : SwitchSuppressAlarms(c) \/ Register(c)
  BY <1>7, CalendarsKeepInv
<1>8. CASE \E c \in Calendar : Unregister(c)
  BY <1>8, UnregisterKeepsInv
<1>9. CASE UNCHANGED vars
  <2>1. UNCHANGED <<env, dates, edits, item, registered, suppressAlarms, now,
                    mRangeEnd, nextUpdate, mTimerMap, orphans, mLoadedCalendars,
                    search, mAlarms>>
    BY <1>9 DEF vars, calVars, rangeVars, timerVars
  <2>2. Types'
    BY <2>1 DEF Inv, Types
  <2>3. LoadedOK'
    BY <2>1 DEF Inv, LoadedOK
  <2>4. CurrentOK'
    BY <2>1 DEF Inv, CurrentOK, Without, HoldsCurrent, TimerOK, Current
  <2>. QED BY <2>2, <2>3, <2>4 DEF Inv
<1>. QED BY <1>1, <1>2, <1>3, <1>4, <1>5, <1>6, <1>7, <1>8, <1>9 DEF Next

LEMMA InvAlways == Spec => []Inv
BY InitInv, NextInv, PTL DEF Spec

-----------------------------------------------------------------------------
(* Every variable has its type: in particular the count of the batches that
   onGetResult (calAlarmService.js) has still to add never leaves
   0..Cardinality(Calendar), whatever the order in which the calendars
   answer and the slices run.                                              *)
THEOREM TypeCorrect == Spec => []TypeOK
<1>1. ASSUME Inv PROVE TypeOK
  <2>1. \A s \in Search :
          /\ search[s].stage \in [Calendar -> {"none", "asked", "adding", "done"}]
          /\ search[s].left \subseteq Occurrence
    BY <1>1 DEF Inv, Types, Listener, Stage
  <2>2. ASSUME NEW s \in Search PROVE search[s].batches \in 0..Cardinality(Calendar)
    <3>1. search[s].batches = Cardinality(Adding(search[s]))
      BY <1>1 DEF Inv, LoadedOK, PromiseOK
    <3>2. IsFiniteSet(Calendar) /\ Adding(search[s]) \subseteq Calendar
      BY AlarmAssumption DEF AlarmAssumption, Adding
    <3>3. Cardinality(Adding(search[s])) <= Cardinality(Calendar)
      BY <3>2, FS_Subset
    <3>4. Cardinality(Adding(search[s])) \in Nat /\ Cardinality(Calendar) \in Nat
      BY <3>2, FS_CardinalityType, AddingIsFinite
    <3>. QED BY <3>1, <3>3, <3>4
  <2>3. \A a \in mAlarms : a.o \in Occurrence /\ a.copies \in {1, 2}
    BY <1>1 DEF Inv, Types, Alarm
  <2>. QED BY <1>1, <2>1, <2>2, <2>3 DEF Inv, Types, Timer, TypeOK
<1>. QED BY <1>1, InvAlways, PTL

(* However many searches of calAlarmService.js overlap, with timers that
   fire, calendars reloaded, suppressed, registered and unregistered and a
   computer that sleeps: as long as no calendar changes while a search goes
   on, the monitor shows nothing but items as they are now and no alarm
   twice, and no timer runs that is in no map.                             *)
THEOREM NothingStaleAlways == Spec => []NothingStale
<1>1. Inv => NothingStale
  BY DEF Inv, CurrentOK, NothingStale, TimerOK
<1>. QED BY <1>1, InvAlways, PTL

-----------------------------------------------------------------------------
(* Every alarm rings: what that needs besides.                             *)

(* A search will add the alarm: it has the item, or has still to get it.   *)
Awaits(s, i) ==
  \/ s.stage[CalendarOf[i]] = "asked" /\ s.from <= item[i].end
  \/ [item |-> i, v |-> item[i]] \in s.left

Shown(i) == \E a \in mAlarms : a.o = [item |-> i, v |-> item[i]]
Timed(i) == mTimerMap[i] = [v |-> item[i], running |-> TRUE]

(* The alarm has what its date asks for.                                   *)
Handled(i) ==
  LET date == AlarmDate(item[i])
  IN /\ date < now => Shown(i)
     /\ date = now => Shown(i) \/ Timed(i)
     /\ now < date /\ date <= mRangeEnd => Timed(i)

Awaited(i) == \E s \in Search : Awaits(search[s], i)

(* An alarm after the range has an item that the next search looks for, and
   nothing is snoozed that far.                                            *)
InSight(v) ==
  /\ Without({"longSnooze"}) => v.snooze <= mRangeEnd
  /\ Without({"lateAlarm"}) => v.alarm <= v.end \/ v.alarm <= mRangeEnd

RangeOK ==
  /\ now <= mRangeEnd /\ mRangeEnd <= now + HoursBetweenUpdates
  /\ nextUpdate = mRangeEnd
  /\ \A i \in Item : InSight(item[i])

(* A search that holds an item has not finished with its calendar.         *)
HoldsAdding(s) == \A o \in s.left : s.stage[CalendarOf[o.item]] = "adding"

Calm == Without({"editDuring", "longSnooze", "lateAlarm"})

RingOK == Calm => \A i \in Item : Due(i) => Handled(i) \/ Awaited(i)

RingInv == RangeOK /\ (\A s \in Search : HoldsAdding(search[s])) /\ RingOK

-----------------------------------------------------------------------------
(* What keeps an alarm handled or awaited.                                 *)

LEMMA DateIsTime ==
  ASSUME Types, NEW i \in Item
  PROVE  /\ AlarmDate(item[i]) \in Int /\ item[i].alarm \in Int /\ item[i].end \in Int /\ now \in Int
         /\ mRangeEnd \in Int /\ HoursBetweenUpdates \in Int
         /\ AlarmDate(item[i]) = item[i].alarm \/ AlarmDate(item[i]) = item[i].snooze
         /\ item[i] # Deleted => item[i] \in Version /\ 1 <= item[i].end
BY AlarmAssumption DEF AlarmAssumption, Types, AlarmDate, Version, Deleted

LEMMA InSightKeeps ==
  ASSUME NEW v \in Version \cup {Deleted}, InSight(v), env' = env,
         mRangeEnd \in Int, mRangeEnd' \in Int, mRangeEnd <= mRangeEnd'
  PROVE  InSight(v)'
<1>1. v.snooze \in Int /\ v.alarm \in Int /\ v.end \in Int
  BY AlarmAssumption DEF AlarmAssumption, Version, Deleted
<1>. QED BY <1>1 DEF InSight, Without

LEMMA NewIsInSight ==
  ASSUME mRangeEnd \in Nat, NEW v \in {Deleted} \cup NewVersions
  PROVE  InSight(v)
<1>1. CASE v = Deleted
  BY <1>1 DEF InSight, Deleted
<1>2. CASE v \in NewVersions
  <2>1. PICK e \in {x \in dates : x.alarm <= x.end \/ x.alarm <= mRangeEnd
                                  \/ "lateAlarm" \in env} : v = New(e)
    BY <1>2 DEF NewVersions
  <2>2. v = [end |-> e.end, alarm |-> e.alarm, snooze |-> 0, ack |-> 0]
    BY <2>1 DEF New
  <2>3. v.end = e.end /\ v.alarm = e.alarm /\ v.snooze = 0
    BY <2>2
  <2>. QED BY <2>1, <2>3 DEF InSight, Without
<1>. QED BY <1>1, <1>2

LEMMA CalmIsCurrent ==
  ASSUME Inv, Calm
  PROVE  /\ CurrentOK /\ orphans = {} /\ Without({"editDuring"})
         /\ Without({"longSnooze"}) /\ Without({"lateAlarm"})
         /\ \A s \in Search : HoldsCurrent(search[s])
         /\ \A i \in Item : TimerOK(i)
BY DEF Inv, CurrentOK, Calm, Without

(* The timer of an alarm may go when its time has come and it is shown.    *)
LEMMA HandledKeeps ==
  ASSUME Types, NEW i \in Item, Handled(i),
         now' = now, mRangeEnd' = mRangeEnd, item'[i] = item[i],
         Shown(i) => Shown(i)',
         Timed(i) => Timed(i)' \/ (AlarmDate(item[i]) <= now /\ Shown(i)')
  PROVE  Handled(i)'
<1>1. AlarmDate(item[i])' = AlarmDate(item[i])
  BY DEF AlarmDate
<1>. QED BY <1>1, DateIsTime DEF Handled

LEMMA AwaitedKeeps ==
  ASSUME NEW i \in Item, Awaited(i), item'[i] = item[i],
         \A s \in Search : Awaits(search[s], i) => \E t \in Search : Awaits(search'[t], i)
  PROVE  Awaited(i)'
<1>1. PICK t \in Search : Awaits(search'[t], i)
  BY DEF Awaited
<1>2. Awaits(search[t], i)'
  BY <1>1 DEF Awaits
<1>. QED BY <1>2 DEF Awaited

(* An alarm that is shown stays when others fire, and fires itself unless
   its calendar is suppressed.                                             *)
LEMMA FiredIsShown ==
  ASSUME NEW alarms, NEW o
  PROVE  /\ \A a \in alarms : \E b \in AlarmFired(alarms, o) : b.o = a.o
         /\ CalendarOf[o.item] \notin suppressAlarms =>
              \E b \in AlarmFired(alarms, o) : b.o = o
<1>. DEFINE again == {a \in alarms : a.o # o} \cup {[o |-> o, copies |-> 2]}
            once == alarms \cup {[o |-> o, copies |-> 1]}
<1>1. /\ \A a \in alarms : \E b \in again : b.o = a.o
      /\ \E b \in again : b.o = o
  <2>1. [o |-> o, copies |-> 2] \in again /\ [o |-> o, copies |-> 2].o = o
    OBVIOUS
  <2>2. \A a \in alarms : a.o # o => a \in again
    OBVIOUS
  <2>. HIDE DEF again
  <2>. QED BY <2>1, <2>2
<1>2. /\ \A a \in alarms : \E b \in once : b.o = a.o
      /\ \E b \in once : b.o = o
  <2>1. [o |-> o, copies |-> 1] \in once /\ [o |-> o, copies |-> 1].o = o
    OBVIOUS
  <2>2. \A a \in alarms : a \in once
    OBVIOUS
  <2>. HIDE DEF once
  <2>. QED BY <2>1, <2>2
<1>3. \/ AlarmFired(alarms, o) = alarms /\ CalendarOf[o.item] \in suppressAlarms
      \/ AlarmFired(alarms, o) = again
      \/ AlarmFired(alarms, o) = once
  BY DEF AlarmFired, OnAlarm
<1>. HIDE DEF again, once
<1>. QED BY <1>1, <1>2, <1>3

LEMMA AddedIsHandled ==
  ASSUME Types, now <= mRangeEnd, NEW i \in Item, NEW v \in Version, NEW alarms,
         NEW cancelled, AddAlarmsForItem(i, v, alarms, cancelled),
         item'[i] = v, now' = now, mRangeEnd' = mRangeEnd,
         CalendarOf[i] \notin suppressAlarms, v.ack < AlarmDate(v)
  PROVE  Handled(i)'
<1>. DEFINE o == [item |-> i, v |-> v]
            date == AlarmDate(v)
<1>1. date \in Int /\ now \in Int /\ mRangeEnd \in Int
  BY AlarmAssumption DEF AlarmAssumption, AlarmDate, Version, Types
<1>2. AlarmDate(item[i])' = date
  BY DEF AlarmDate
<1>3. now <= date /\ date <= mRangeEnd => Timed(i)'
  BY DEF AddAlarmsForItem, AddTimer, Types, Timed
<1>4. date < now => Shown(i)'
  <2>1. date < now => mAlarms' = AlarmFired(alarms, o)
    BY DEF AddAlarmsForItem
  <2>2. \E b \in AlarmFired(alarms, o) : b.o = o
    BY FiredIsShown
  <2>. QED BY <2>1, <2>2 DEF Shown
<1>. HIDE DEF date
<1>. QED BY <1>1, <1>2, <1>3, <1>4 DEF Handled

LEMMA AddingKeepsOthers ==
  ASSUME Types, NEW i \in Item, NEW v, NEW alarms, NEW cancelled,
         AddAlarmsForItem(i, v, alarms, cancelled), NEW j \in Item \ {i},
         \A a \in mAlarms : a.o.item = j => a \in alarms, item'[j] = item[j]
  PROVE  /\ Shown(j) => Shown(j)'
         /\ Timed(j) => Timed(j)'
<1>1. mTimerMap'[j] = mTimerMap[j]
  BY DEF AddAlarmsForItem, AddTimer, RemoveTimer, timerVars, Types
<1>2. \A a \in alarms : \E b \in mAlarms' : b.o = a.o
  BY FiredIsShown DEF AddAlarmsForItem
<1>3. Shown(j) => Shown(j)'
  <2>. SUFFICES ASSUME NEW a \in mAlarms, a.o = [item |-> j, v |-> item[j]]
       PROVE Shown(j)'
    BY DEF Shown
  <2>1. a.o.item = j
    OBVIOUS
  <2>. QED BY <1>2, <2>1 DEF Shown
<1>. QED BY <1>1, <1>3 DEF Timed

LEMMA NothingAwaitedOfNone ==
  \A i \in Item : ~Awaits(NoSearch, i) /\ HoldsAdding(NoSearch)
BY AlarmAssumption DEF AlarmAssumption, NoSearch, Awaits, HoldsAdding

(* A search that has still to add something goes on.                       *)
LEMMA FinishedAwaits ==
  ASSUME NEW s, HoldsAdding(s)
  PROVE  /\ HoldsAdding(Finished(s))
         /\ \A i \in Item : Awaits(s, i) => Awaits(Finished(s), i)
<1>1. CASE \A c \in Calendar : s.stage[c] \in {"none", "done"}
  <2>1. Finished(s) = NoSearch
    BY <1>1 DEF Finished
  <2>2. \A i \in Item : ~Awaits(s, i)
    BY <1>1, AlarmAssumption DEF AlarmAssumption, Awaits, HoldsAdding
  <2>. QED BY <2>1, <2>2 DEF HoldsAdding, NoSearch
<1>2. CASE ~(\A c \in Calendar : s.stage[c] \in {"none", "done"})
  BY <1>2 DEF Finished
<1>. QED BY <1>1, <1>2

(* A search asks the item's calendar for what begins at from or later.     *)
AsksFor(s, i, from) == s.stage[CalendarOf[i]] = "asked" /\ s.from = from

(* A new search awaits what begins in its range, and takes nobody's place. *)
LEMMA FindAlarmsAsks ==
  ASSUME search \in [Search -> Listener], NEW cs \in SUBSET Calendar, NEW from \in Nat,
         NEW suppressed, FindAlarms(cs, from, suppressed),
         \A s \in Search : HoldsAdding(search[s])
  PROVE  /\ \A s \in Search : HoldsAdding(search'[s])
         /\ \A s \in Search, i \in Item : Awaits(search[s], i) => Awaits(search'[s], i)
         /\ \A i \in Item : CalendarOf[i] \in cs \ suppressed =>
              \E s \in Search : AsksFor(search'[s], i, from)
<1>1. PICK asked : asked = cs \ suppressed
  OBVIOUS
<1>2. CASE asked = {}
  <2>1. search' = search
    BY <1>1, <1>2 DEF FindAlarms
  <2>. QED BY <1>1, <1>2, <2>1
<1>3. CASE asked # {}
  <2>1. PICK t \in Search :
          /\ search[t] = NoSearch
          /\ search' = [search EXCEPT ![t] = AskedSearch(asked, from)]
    BY <1>1, <1>3 DEF FindAlarms, AskedSearch
  <2>2. search'[t] = AskedSearch(asked, from) /\ \A s \in Search : s # t => search'[s] = search[s]
    BY <2>1
  <2>3. /\ AskedSearch(asked, from).from = from
        /\ AskedSearch(asked, from).left = {}
        /\ \A c \in asked : AskedSearch(asked, from).stage[c] = "asked"
    BY <1>1 DEF AskedSearch, NoSearch
  <2>4. \A s \in Search : HoldsAdding(search'[s])
    BY <2>2, <2>3 DEF HoldsAdding
  <2>5. \A s \in Search, i \in Item : Awaits(search[s], i) => Awaits(search'[s], i)
    BY <2>1, <2>2, NothingAwaitedOfNone
  <2>6. ASSUME NEW i \in Item, CalendarOf[i] \in cs \ suppressed
        PROVE  AsksFor(search'[t], i, from)
    BY <1>1, <2>2, <2>3, <2>6 DEF AsksFor
  <2>. QED BY <2>4, <2>5, <2>6
<1>. QED BY <1>2, <1>3

(* Where calendars are searched from the beginning, what is due of them is
   awaited.                                                                *)
LEMMA SearchedIsAwaited ==
  ASSUME search \in [Search -> Listener], NEW cs \in SUBSET Calendar, NEW suppressed,
         FindAlarms(cs, 1, suppressed), \A s \in Search : HoldsAdding(search[s]),
         Types', NEW i \in Item, item'[i] # Deleted, CalendarOf[i] \in cs \ suppressed
  PROVE  Awaited(i)'
<1>1. 1 <= item'[i].end
  BY DateIsTime DEF Types, Version
<1>2. PICK s \in Search : AsksFor(search'[s], i, 1)
  BY FindAlarmsAsks
<1>3. Awaits(search[s], i)'
  BY <1>1, <1>2 DEF Awaits, AsksFor
<1>. QED BY <1>3 DEF Awaited

-----------------------------------------------------------------------------
(* The steps of searches and timers.                                       *)

(* Where the clock and the items stay, what is handled or awaited does.    *)
LEMMA QuietKeepsRange ==
  ASSUME RangeOK, UNCHANGED <<env, now, item, rangeVars>>
  PROVE  RangeOK'
BY DEF RangeOK, InSight, rangeVars, Without

LEMMA QuietKeepsRing ==
  ASSUME Types, RingOK, UNCHANGED <<calVars, now, rangeVars>>,
         \A i \in Item : Calm /\ Due(i) /\ Handled(i) => Handled(i)' \/ Awaited(i)',
         \A i \in Item : Calm /\ Due(i) /\ Awaited(i) => Handled(i)' \/ Awaited(i)'
  PROVE  RingOK'
<1>1. Calm' = Calm /\ \A i \in Item : Due(i)' = Due(i)
  BY DEF Calm, Without, Due, calVars
<1>. QED BY <1>1 DEF RingOK

LEMMA TimerFiresKeepsRing ==
  ASSUME Inv, RingInv, NEW i \in Item, TimerFires(i)
  PROVE  RingInv'
<1>. DEFINE o == [item |-> i, v |-> mTimerMap[i].v]
<1>1. /\ UNCHANGED <<calVars, now, rangeVars, search>> /\ item' = item
      /\ mAlarms' = AlarmFired(mAlarms, o)
      /\ mTimerMap[i].running /\ AlarmDate(mTimerMap[i].v) <= now
      /\ \A j \in Item : j # i => mTimerMap'[j] = mTimerMap[j]
  BY DEF TimerFires, TimerDue, calVars
<1>2. \A j \in Item : Shown(j) => Shown(j)'
  <2>. SUFFICES ASSUME NEW j \in Item, NEW a \in mAlarms, a.o = [item |-> j, v |-> item[j]]
       PROVE Shown(j)'
    BY DEF Shown
  <2>. QED BY <1>1, FiredIsShown DEF Shown
<1>3. ASSUME Calm, Due(i) PROVE AlarmDate(item[i]) <= now /\ Shown(i)'
  <2>1. o = [item |-> i, v |-> item[i]]
    BY <1>1, <1>3, CalmIsCurrent DEF TimerOK, Current
  <2>2. CalendarOf[o.item] \notin suppressAlarms
    BY <1>3 DEF Due
  <2>3. \E b \in AlarmFired(mAlarms, o) : b.o = o
    BY <2>2, FiredIsShown
  <2>4. Shown(i)'
    BY <1>1, <2>1, <2>3 DEF Shown
  <2>5. item[i] = mTimerMap[i].v
    BY <2>1
  <2>. QED BY <1>1, <2>4, <2>5
<1>4. ASSUME NEW j \in Item, Calm, Due(j), Handled(j) PROVE Handled(j)'
  <2>1. Timed(j) => Timed(j)' \/ (AlarmDate(item[j]) <= now /\ Shown(j)')
    BY <1>1, <1>3, <1>4 DEF Timed
  <2>. QED BY <1>1, <1>2, <1>4, <2>1, HandledKeeps DEF Inv, rangeVars
<1>5. \A j \in Item : Awaited(j) => Awaited(j)'
  BY <1>1 DEF Awaited, Awaits
<1>6. RingOK'
  BY <1>1, <1>4, <1>5, QuietKeepsRing DEF Inv, RingInv
<1>7. RangeOK'
  BY <1>1, QuietKeepsRange DEF RingInv, calVars
<1>8. \A s \in Search : HoldsAdding(search[s])'
  BY <1>1 DEF RingInv, HoldsAdding
<1>. QED BY <1>6, <1>7, <1>8 DEF RingInv

LEMMA OrphanFiresKeepsRing ==
  ASSUME Inv, RingInv, NEW o \in orphans, OrphanFires(o)
  PROVE  RingInv'
<1>1. ~Calm
  BY CalmIsCurrent
<1>2. RingOK'
  BY <1>1 DEF RingOK, Calm, Without, OrphanFires, calVars
<1>3. RangeOK'
  BY QuietKeepsRange DEF RingInv, OrphanFires, calVars
<1>4. \A s \in Search : HoldsAdding(search[s])'
  BY DEF RingInv, HoldsAdding, OrphanFires
<1>. QED BY <1>2, <1>3, <1>4 DEF RingInv

(* One search answers, another calendar's items are awaited as before.     *)
LEMMA AnswerKeepsRing ==
  ASSUME Inv, RingInv, NEW id \in Search, NEW s \in Listener, HoldsAdding(s),
         search' = [search EXCEPT ![id] = Finished(s)],
         UNCHANGED <<calVars, now, rangeVars, timerVars, mAlarms>>,
         \A i \in Item : Due(i) /\ Awaits(search[id], i) => Awaits(s, i)
  PROVE  RingInv'
<1>1. /\ search'[id] = Finished(s)
      /\ \A t \in Search : t # id => search'[t] = search[t]
  BY DEF Inv, Types
<1>2. \A t \in Search : HoldsAdding(search'[t])
  BY <1>1, FinishedAwaits DEF RingInv
<1>3. ASSUME NEW i \in Item, Due(i), Awaited(i) PROVE Awaited(i)'
  <2>1. \A t \in Search : Awaits(search[t], i) => \E u \in Search : Awaits(search'[u], i)
    BY <1>1, <1>3, FinishedAwaits
  <2>. QED BY <1>3, <2>1, AwaitedKeeps DEF calVars
<1>4. ASSUME NEW i \in Item, Handled(i) PROVE Handled(i)'
  BY <1>4 DEF Handled, Shown, Timed, calVars, rangeVars, timerVars
<1>5. RingOK'
  BY <1>3, <1>4, QuietKeepsRing DEF Inv, RingInv
<1>6. RangeOK'
  BY QuietKeepsRange DEF RingInv, calVars
<1>. QED BY <1>2, <1>5, <1>6 DEF RingInv, HoldsAdding

LEMMA ItemsGotKeepsRing ==
  ASSUME Inv, RingInv, NEW id \in Search, NEW c \in Calendar, ItemsGot(id, c)
  PROVE  RingInv'
<1>1. PICK found : found = {[item |-> i, v |-> item[i]] :
                       i \in {j \in Present(c) : item[j].end >= search[id].from}}
  OBVIOUS
<1>2. PICK s : s = Completed(search[id], c, found)
  OBVIOUS
<1>3. /\ search[id] \in Listener /\ PromiseOK(search[id])
      /\ search[id].stage[c] = "asked" /\ HoldsAdding(search[id])
  BY DEF Inv, Types, LoadedOK, ItemsGot, RingInv
<1>4. found \in SUBSET Occurrence
  BY <1>1 DEF Inv, Types, Present, Items, Occurrence
<1>5. search' = [search EXCEPT ![id] = Finished(s)]
  BY <1>1, <1>2 DEF ItemsGot
<1>6. /\ s \in Listener
      /\ s.left = search[id].left \cup found
      /\ \A d \in Calendar : d # c => s.stage[d] = search[id].stage[d]
  BY <1>2, <1>3, <1>4, CompletedKeeps
<1>7. s.from = search[id].from /\ (found # {} => s.stage[c] = "adding")
  BY <1>2, <1>3 DEF Completed, Listener
<1>8. HoldsAdding(s)
  <2>. SUFFICES ASSUME NEW o \in s.left PROVE s.stage[CalendarOf[o.item]] = "adding"
    BY DEF HoldsAdding
  <2>1. CASE o \in found
    BY <1>1, <1>7, <2>1 DEF Present, Items
  <2>2. CASE o \in search[id].left
    <3>1. CalendarOf[o.item] \in Calendar
      BY <1>3, <2>2, AlarmAssumption DEF AlarmAssumption, Listener, Occurrence
    <3>2. search[id].stage[CalendarOf[o.item]] = "adding"
      BY <1>3, <2>2 DEF HoldsAdding
    <3>. QED BY <1>3, <1>6, <3>1, <3>2
  <2>. QED BY <1>6, <2>1, <2>2
<1>9. ASSUME NEW i \in Item, Due(i), Awaits(search[id], i) PROVE Awaits(s, i)
  <2>1. CASE [item |-> i, v |-> item[i]] \in search[id].left
    BY <1>6, <2>1 DEF Awaits
  <2>2. CASE search[id].stage[CalendarOf[i]] = "asked" /\ search[id].from <= item[i].end
    <3>1. CASE CalendarOf[i] # c
      BY <1>6, <1>7, <2>2, <3>1, AlarmAssumption DEF AlarmAssumption, Awaits
    <3>2. CASE CalendarOf[i] = c
      <4>1. i \in {j \in Present(c) : item[j].end >= search[id].from}
        <5>1. item[i].end \in Int /\ search[id].from \in Int
          BY <1>3, DateIsTime DEF Inv, Listener
        <5>. QED BY <1>9, <2>2, <3>2, <5>1 DEF Present, Items, Due
      <4>2. [item |-> i, v |-> item[i]] \in found
        BY <1>1, <4>1
      <4>. QED BY <1>6, <4>2 DEF Awaits
    <3>. QED BY <3>1, <3>2
  <2>. QED BY <1>9, <2>1, <2>2 DEF Awaits
<1>. QED BY <1>5, <1>6, <1>8, <1>9, AnswerKeepsRing DEF ItemsGot

LEMMA BatchAddedKeepsRing ==
  ASSUME Inv, RingInv, NEW id \in Search, NEW c \in Calendar, BatchAdded(id, c)
  PROVE  RingInv'
<1>1. PICK s : s = WithBatchAdded(search[id], c)
  OBVIOUS
<1>2. /\ search[id] \in Listener /\ PromiseOK(search[id])
      /\ search[id].stage[c] = "adding" /\ HoldsAdding(search[id])
      /\ \A o \in search[id].left : CalendarOf[o.item] # c
  BY DEF Inv, Types, LoadedOK, BatchAdded, RingInv
<1>3. search' = [search EXCEPT ![id] = Finished(s)]
  BY <1>1 DEF BatchAdded, WithBatchAdded
<1>4. /\ s \in Listener /\ s.left = search[id].left
      /\ \A d \in Calendar : d # c => s.stage[d] = search[id].stage[d]
  BY <1>1, <1>2, BatchKeeps
<1>5. s.from = search[id].from
  BY <1>1, <1>2 DEF WithBatchAdded, Listener
<1>6. HoldsAdding(s)
  <2>. SUFFICES ASSUME NEW o \in s.left PROVE s.stage[CalendarOf[o.item]] = "adding"
    BY DEF HoldsAdding
  <2>1. o \in search[id].left /\ CalendarOf[o.item] \in Calendar
    BY <1>2, <1>4, AlarmAssumption DEF AlarmAssumption, Listener, Occurrence
  <2>. QED BY <1>2, <1>4, <2>1 DEF HoldsAdding
<1>7. ASSUME NEW i \in Item, Awaits(search[id], i) PROVE Awaits(s, i)
  <2>1. CalendarOf[i] \in Calendar
    BY AlarmAssumption DEF AlarmAssumption
  <2>. QED BY <1>2, <1>4, <1>5, <1>7, <2>1 DEF Awaits
<1>. QED BY <1>3, <1>4, <1>6, <1>7, AnswerKeepsRing DEF BatchAdded

(* Adding the alarms of one item leaves those of others as they are.       *)
LEMMA PurgedKeepsOthers ==
  ASSUME Types, NEW i \in Item, NEW v,
         AddAlarmsForItem(i, v, OnRemoveAlarmsByItem(mAlarms, i), TRUE),
         NEW j \in Item \ {i}, item'[j] = item[j]
  PROVE  /\ Shown(j) => Shown(j)'
         /\ Timed(j) => Timed(j)'
<1>1. PICK purged : purged = OnRemoveAlarmsByItem(mAlarms, i)
  OBVIOUS
<1>2. AddAlarmsForItem(i, v, purged, TRUE)
  BY <1>1
<1>3. \A a \in mAlarms : a.o.item = j => a \in purged
  BY <1>1 DEF OnRemoveAlarmsByItem
<1>. QED BY <1>2, <1>3, AddingKeepsOthers

LEMMA SliceAddsKeepsRing ==
  ASSUME Inv, RingInv, NEW id \in Search, NEW o \in search[id].left, SliceAdds(id, o)
  PROVE  RingInv'
<1>1. /\ o \in Occurrence /\ o.item \in Item /\ o.v \in Version
      /\ o = [item |-> o.item, v |-> o.v] /\ search[id] \in Listener
  BY DEF Inv, Types, Listener, Occurrence
<1>2. /\ AddAlarmsForItem(o.item, o.v, OnRemoveAlarmsByItem(mAlarms, o.item), TRUE)
      /\ UNCHANGED <<calVars, now, rangeVars>>
      /\ UNCHANGED <<env, item, mRangeEnd>>
  BY DEF SliceAdds, calVars, rangeVars
<1>3. PICK s : s = [search[id] EXCEPT !.left = @ \ {o}]
  OBVIOUS
<1>4. /\ s.left = search[id].left \ {o} /\ s.stage = search[id].stage
      /\ s.from = search[id].from
  BY <1>1, <1>3 DEF Listener
<1>5. /\ search'[id] = s
      /\ \A t \in Search : t # id => search'[t] = search[t]
  BY <1>3 DEF SliceAdds, Inv, Types
<1>6. \A t \in Search : HoldsAdding(search'[t])
  BY <1>4, <1>5 DEF RingInv, HoldsAdding
<1>7. ASSUME Calm, Due(o.item) PROVE Handled(o.item)'
  <2>1. Current(o)
    BY <1>7, CalmIsCurrent DEF HoldsCurrent
  <2>2. item'[o.item] = o.v /\ now <= mRangeEnd /\ CalendarOf[o.item] \notin suppressAlarms
        /\ o.v.ack < AlarmDate(o.v)
    BY <1>2, <1>7, <2>1 DEF Current, RingInv, RangeOK, Due
  <2>. QED BY <1>1, <1>2, <2>2, AddedIsHandled DEF Inv
<1>8. ASSUME NEW j \in Item, j # o.item, Handled(j) PROVE Handled(j)'
  <2>1. (Shown(j) => Shown(j)') /\ (Timed(j) => Timed(j)')
    BY <1>1, <1>2, <1>8, PurgedKeepsOthers DEF Inv
  <2>. QED BY <1>2, <1>8, <2>1, HandledKeeps DEF Inv
<1>9. ASSUME NEW j \in Item, j # o.item, Awaited(j) PROVE Awaited(j)'
  <2>1. \A t \in Search : Awaits(search[t], j) => Awaits(search'[t], j)
    BY <1>1, <1>4, <1>5, <1>9 DEF Awaits
  <2>. QED BY <1>2, <1>9, <2>1, AwaitedKeeps
<1>10. RingOK'
  BY <1>2, <1>7, <1>8, <1>9, QuietKeepsRing DEF Inv, RingInv
<1>11. RangeOK'
  BY <1>2, QuietKeepsRange DEF RingInv
<1>. QED BY <1>6, <1>10, <1>11 DEF RingInv, HoldsAdding

(* The user changes an item while no search goes on.                       *)
LEMMA ChangeItemKeepsRing ==
  ASSUME Inv, RingInv, NEW i \in Item, NEW v \in Version \cup {Deleted}, ChangeItem(i, v),
         InSight(v)
  PROVE  RingInv'
<1>1. /\ item' = [item EXCEPT ![i] = v] /\ Notify(i, v) /\ search' = search
      /\ registered' = registered /\ env' = env /\ suppressAlarms' = suppressAlarms
      /\ now' = now /\ mRangeEnd' = mRangeEnd /\ nextUpdate' = nextUpdate
      /\ Without({"editDuring"}) => ~Searching
  BY DEF ChangeItem, MayEdit, Without, rangeVars
<1>2. item'[i] = v /\ \A j \in Item : j # i => item'[j] = item[j]
  BY <1>1 DEF Inv, Types
<1>3. \A s \in Search : HoldsAdding(search[s])'
  BY <1>1 DEF RingInv, HoldsAdding
<1>4. RangeOK'
  BY <1>1, <1>2 DEF RingInv, RangeOK, InSight, Without
<1>5. ASSUME Calm, Due(i)' PROVE Handled(i)'
  <2>1. v # Deleted /\ v \in Version /\ CalendarOf[i] \notin suppressAlarms
        /\ v.ack < AlarmDate(v) /\ now <= mRangeEnd
    BY <1>1, <1>2, <1>5 DEF Due, RingInv, RangeOK, AlarmDate
  <2>2. PICK alarms, cancelled : AddAlarmsForItem(i, v, alarms, cancelled)
    BY <1>1, <2>1 DEF Notify
  <2>. QED BY <1>1, <1>2, <2>1, <2>2, AddedIsHandled DEF Inv
<1>6. ASSUME NEW j \in Item, j # i PROVE (Shown(j) => Shown(j)') /\ (Timed(j) => Timed(j)')
  <2>1. CASE v = Deleted
    <3>1. mTimerMap' = [mTimerMap EXCEPT ![i] = NoTimer]
          /\ mAlarms' = OnRemoveAlarmsByItem(mAlarms, i)
      BY <1>1, <2>1 DEF Notify, RemoveTimer
    <3>2. mTimerMap'[j] = mTimerMap[j] /\ \A a \in mAlarms : a.o.item = j => a \in mAlarms'
      BY <1>6, <3>1 DEF OnRemoveAlarmsByItem
    <3>3. Shown(j) => Shown(j)'
      <4>. SUFFICES ASSUME NEW a \in mAlarms, a.o = [item |-> j, v |-> item[j]]
           PROVE Shown(j)'
        BY DEF Shown
      <4>1. a.o.item = j
        OBVIOUS
      <4>. QED BY <1>2, <1>6, <3>2, <4>1 DEF Shown
    <3>. QED BY <1>2, <1>6, <3>2, <3>3 DEF Timed
  <2>2. CASE v # Deleted /\ item[i] = Deleted
    <3>1. AddAlarmsForItem(i, v, mAlarms, FALSE)
      BY <1>1, <2>2 DEF Notify
    <3>. QED BY <1>2, <1>6, <3>1, AddingKeepsOthers DEF Inv
  <2>3. CASE v # Deleted /\ item[i] # Deleted
    <3>1. AddAlarmsForItem(i, v, OnRemoveAlarmsByItem(mAlarms, i), TRUE)
      BY <1>1, <2>3 DEF Notify
    <3>. QED BY <1>2, <1>6, <3>1, PurgedKeepsOthers DEF Inv
  <2>. QED BY <2>1, <2>2, <2>3
<1>7. ASSUME NEW j \in Item, j # i, Handled(j) PROVE Handled(j)'
  BY <1>1, <1>2, <1>6, <1>7, HandledKeeps DEF Inv
<1>8. ASSUME NEW j \in Item, j # i, Awaited(j) PROVE Awaited(j)'
  BY <1>1, <1>2, <1>8, AwaitedKeeps
<1>9. /\ Calm' = Calm
      /\ \A j \in Item : j # i => (Due(j)' <=> Due(j))
  BY <1>1, <1>2 DEF Calm, Without, Due
<1>10. RingOK'
  BY <1>5, <1>7, <1>8, <1>9 DEF RingInv, RingOK
<1>. QED BY <1>3, <1>4, <1>10 DEF RingInv

LEMMA ChangesKeepRing ==
  ASSUME Inv, RingInv, NEW i \in Item, UserChanges(i) \/ DismissAlarm(i) \/ SnoozeAlarm(i)
  PROVE  RingInv'
<1>1. 0 <= mRangeEnd /\ mRangeEnd \in Int /\ now \in 0..MaxTime /\ now \in Int /\ 0 \in 0..MaxTime
  BY AlarmAssumption DEF AlarmAssumption, Inv, Types
<1>2. ASSUME item[i] # Deleted, NEW until \in 0..MaxTime
      PROVE  /\ [item[i] EXCEPT !.snooze = until, !.ack = now] \in Version
             /\ (Without({"longSnooze"}) => until <= mRangeEnd) =>
                  InSight([item[i] EXCEPT !.snooze = until, !.ack = now])
  <2>1. item[i] \in Version
    BY <1>2 DEF Inv, Types
  <2>2. PICK v : v = [item[i] EXCEPT !.snooze = until, !.ack = now]
    OBVIOUS
  <2>3. v \in Version
    BY <1>1, <2>1, <2>2 DEF Version
  <2>4. v.snooze = until /\ v.alarm = item[i].alarm /\ v.end = item[i].end
    BY <2>1, <2>2 DEF Version
  <2>5. InSight(item[i])
    BY DEF RingInv, RangeOK
  <2>. QED BY <2>2, <2>3, <2>4, <2>5 DEF InSight
<1>3. CASE UserChanges(i)
  <2>1. PICK v \in {Deleted} \cup NewVersions : ChangeItem(i, v)
    BY <1>3 DEF UserChanges
  <2>2. v \in Version \cup {Deleted} /\ InSight(v)
    BY <2>1, NewIsVersion, NewIsInSight DEF Inv, Types
  <2>. QED BY <2>1, <2>2, ChangeItemKeepsRing
<1>4. CASE DismissAlarm(i)
  BY <1>1, <1>2, <1>4, ChangeItemKeepsRing DEF DismissAlarm, IsShown
<1>5. CASE SnoozeAlarm(i)
  <2>1. PICK until \in (now + 1)..MaxTime :
          /\ IsShown(i) /\ (until > mRangeEnd => "longSnooze" \in env)
          /\ ChangeItem(i, [item[i] EXCEPT !.snooze = until, !.ack = now])
    BY <1>5 DEF SnoozeAlarm
  <2>2. until \in 0..MaxTime /\ (Without({"longSnooze"}) => until <= mRangeEnd)
    BY <1>1, <2>1, AlarmAssumption DEF AlarmAssumption, Without
  <2>3. item[i] # Deleted
    BY <2>1 DEF IsShown
  <2>4. PICK v : v = [item[i] EXCEPT !.snooze = until, !.ack = now]
    OBVIOUS
  <2>. QED BY <1>2, <2>1, <2>2, <2>3, <2>4, ChangeItemKeepsRing
<1>. QED BY <1>3, <1>4, <1>5

(* What initAlarms does: what was shown and timed of other calendars stays,
   and what is due of these is searched for.                               *)
LEMMA InitAlarmsRings ==
  ASSUME Inv, RingInv, NEW c \in Calendar, NEW suppressed,
         InitAlarms({c}, mTimerMap, mAlarms, suppressed), Types',
         now' = now, mRangeEnd' = mRangeEnd, env' = env,
         \A i \in Item : CalendarOf[i] # c =>
           item'[i] = item[i] /\ (Due(i)' => Due(i)),
         \A i \in Item : CalendarOf[i] = c /\ Due(i)' => c \notin suppressed
  PROVE  (\A s \in Search : HoldsAdding(search[s])') /\ RingOK'
<1>1. /\ mTimerMap' = DisposeCalendarTimers(mTimerMap, {c})
      /\ mAlarms' = {a \in mAlarms : CalendarOf[a.o.item] \notin {c}}
      /\ FindAlarms({c}, 1, suppressed)
  BY DEF InitAlarms
<1>2. /\ \A s \in Search : HoldsAdding(search'[s])
      /\ \A s \in Search, i \in Item : Awaits(search[s], i) => Awaits(search'[s], i)
  BY <1>1, FindAlarmsAsks DEF Inv, Types, RingInv
<1>3. ASSUME NEW i \in Item, CalendarOf[i] = c, Due(i)' PROVE Awaited(i)'
  <2>1. item'[i] # Deleted /\ CalendarOf[i] \in {c} \ suppressed
    BY <1>3 DEF Due
  <2>2. /\ {c} \in SUBSET Calendar /\ search \in [Search -> Listener]
        /\ \A s \in Search : HoldsAdding(search[s])
    BY DEF Inv, Types, RingInv
  <2>3. PICK cs \in SUBSET Calendar : cs = {c}
    OBVIOUS
  <2>4. FindAlarms(cs, 1, suppressed) /\ CalendarOf[i] \in cs \ suppressed
    BY <1>1, <2>1, <2>3
  <2>. QED BY <2>1, <2>2, <2>4, SearchedIsAwaited
<1>4. ASSUME NEW i \in Item, CalendarOf[i] # c, Handled(i) PROVE Handled(i)'
  <2>1. item'[i] = item[i] /\ mTimerMap'[i] = mTimerMap[i]
    BY <1>1, <1>4 DEF DisposeCalendarTimers
  <2>2. Shown(i) => Shown(i)'
    <3>. SUFFICES ASSUME NEW a \in mAlarms, a.o = [item |-> i, v |-> item[i]]
         PROVE Shown(i)'
      BY DEF Shown
    <3>1. a.o.item = i
      OBVIOUS
    <3>. QED BY <1>1, <1>4, <2>1, <3>1 DEF Shown
  <2>3. Timed(i) => Timed(i)'
    BY <2>1 DEF Timed
  <2>. QED BY <1>4, <2>1, <2>2, <2>3, HandledKeeps DEF Inv
<1>5. ASSUME NEW i \in Item, CalendarOf[i] # c, Awaited(i) PROVE Awaited(i)'
  BY <1>2, <1>5, AwaitedKeeps
<1>6. Calm' = Calm
  BY DEF Calm, Without
<1>7. RingOK'
  BY <1>3, <1>4, <1>5, <1>6 DEF RingInv, RingOK
<1>. QED BY <1>2, <1>7 DEF HoldsAdding

LEMMA ReloadKeepsRing ==
  ASSUME Inv, RingInv, NEW i \in Item, Reload(i), Inv'
  PROVE  RingInv'
<1>1. PICK c \in Calendar : c = CalendarOf[i]
  BY AlarmAssumption DEF AlarmAssumption
<1>2. /\ registered' = registered /\ env' = env /\ suppressAlarms' = suppressAlarms
      /\ now' = now /\ mRangeEnd' = mRangeEnd /\ nextUpdate' = nextUpdate
      /\ Without({"editDuring"}) => ~Searching
  BY DEF Reload, MayEdit, Without, rangeVars
<1>3. PICK v : item' = [item EXCEPT ![i] = v] /\ InSight(v)
  <2>1. PICK v \in {Deleted} \cup NewVersions : item' = [item EXCEPT ![i] = v]
    BY DEF Reload
  <2>. QED BY <2>1, NewIsInSight DEF Inv, Types
<1>4. item'[i] = v /\ \A j \in Item : j # i => item'[j] = item[j]
  BY <1>3 DEF Inv, Types
<1>5. RangeOK'
  BY <1>2, <1>3, <1>4 DEF RingInv, RangeOK, InSight, Without
<1>6. CASE mLoadedCalendars[c]
  <2>1. InitAlarms({c}, mTimerMap, mAlarms, suppressAlarms)
    BY <1>1, <1>6 DEF Reload
  <2>2. \A j \in Item : CalendarOf[j] # c => item'[j] = item[j] /\ (Due(j)' => Due(j))
    BY <1>1, <1>2, <1>4 DEF Due
  <2>3. \A j \in Item : CalendarOf[j] = c /\ Due(j)' => c \notin suppressAlarms
    BY <1>2 DEF Due
  <2>4. Types'
    BY DEF Inv
  <2>. QED BY <1>2, <1>5, <2>1, <2>2, <2>3, <2>4, InitAlarmsRings DEF RingInv
<1>7. CASE ~mLoadedCalendars[c]
  <2>1. search' = search
    BY <1>1, <1>7 DEF Reload
  <2>2. ~Calm
    BY <1>2, <1>7, IdleIsLoaded, CalmIsCurrent DEF Inv
  <2>. QED BY <1>2, <1>5, <2>1, <2>2 DEF RingInv, RingOK, Calm, Without, HoldsAdding
<1>. QED BY <1>6, <1>7

LEMMA CalendarsKeepRing ==
  ASSUME Inv, RingInv, NEW c \in Calendar, SwitchSuppressAlarms(c) \/ Register(c), Inv'
  PROVE  RingInv'
<1>1. /\ env' = env /\ item' = item /\ now' = now
      /\ mRangeEnd' = mRangeEnd /\ nextUpdate' = nextUpdate
      /\ InitAlarms({c}, mTimerMap, mAlarms, suppressAlarms')
      /\ \A d \in Calendar \ {c} :
           d \in registered' \ suppressAlarms' => d \in registered \ suppressAlarms
  BY DEF SwitchSuppressAlarms, Register, rangeVars
<1>2. RangeOK'
  BY <1>1 DEF RingInv, RangeOK, InSight, Without
<1>3. \A i \in Item : CalendarOf[i] # c => (Due(i)' => Due(i))
  BY <1>1, AlarmAssumption DEF AlarmAssumption, Due
<1>4. \A i \in Item : CalendarOf[i] = c /\ Due(i)' => c \notin suppressAlarms'
  BY DEF Due
<1>5. PICK suppressed : suppressed = suppressAlarms'
  OBVIOUS
<1>6. InitAlarms({c}, mTimerMap, mAlarms, suppressed)
  BY <1>1, <1>5
<1>7. Types'
  BY DEF Inv
<1>8. (\A s \in Search : HoldsAdding(search[s])') /\ RingOK'
  BY <1>1, <1>3, <1>4, <1>5, <1>6, <1>7, InitAlarmsRings
<1>. QED BY <1>2, <1>8 DEF RingInv

LEMMA UnregisterKeepsRing ==
  ASSUME Inv, RingInv, NEW c \in Calendar, Unregister(c)
  PROVE  RingInv'
<1>1. /\ registered' = registered \ {c} /\ env' = env /\ item' = item
      /\ suppressAlarms' = suppressAlarms /\ search' = search /\ now' = now
      /\ mRangeEnd' = mRangeEnd /\ nextUpdate' = nextUpdate
      /\ mTimerMap' = DisposeCalendarTimers(mTimerMap, {c})
      /\ mAlarms' = {a \in mAlarms : CalendarOf[a.o.item] # c}
  BY DEF Unregister, OnRemoveAlarmsByCalendar, rangeVars
<1>2. RangeOK'
  BY <1>1 DEF RingInv, RangeOK, InSight, Without
<1>3. \A s \in Search : HoldsAdding(search[s])'
  BY <1>1 DEF RingInv, HoldsAdding
<1>4. Calm' = Calm /\ \A i \in Item : Due(i)' => Due(i) /\ CalendarOf[i] # c
  BY <1>1 DEF Calm, Without, Due
<1>5. ASSUME NEW i \in Item, CalendarOf[i] # c, Handled(i) PROVE Handled(i)'
  <2>1. mTimerMap'[i] = mTimerMap[i]
    BY <1>1, <1>5 DEF DisposeCalendarTimers
  <2>2. Shown(i) => Shown(i)'
    <3>. SUFFICES ASSUME NEW a \in mAlarms, a.o = [item |-> i, v |-> item[i]]
         PROVE Shown(i)'
      BY DEF Shown
    <3>1. a.o.item = i
      OBVIOUS
    <3>. QED BY <1>1, <1>5, <3>1 DEF Shown
  <2>3. Timed(i) => Timed(i)'
    BY <1>1, <2>1 DEF Timed
  <2>. QED BY <1>1, <1>5, <2>2, <2>3, HandledKeeps DEF Inv
<1>6. ASSUME NEW i \in Item, Awaited(i) PROVE Awaited(i)'
  BY <1>1, <1>6 DEF Awaited, Awaits
<1>7. RingOK'
  BY <1>4, <1>5, <1>6 DEF RingInv, RingOK
<1>. QED BY <1>2, <1>3, <1>7 DEF RingInv

-----------------------------------------------------------------------------
(* The clock.                                                              *)

(* No timer is due when time goes on, and the next search comes first.     *)
LEMMA TickKeepsRing ==
  ASSUME Inv, RingInv, Tick
  PROVE  RingInv'
<1>1. /\ UNCHANGED <<env, item, registered, suppressAlarms, mRangeEnd, nextUpdate,
                     mTimerMap, search, mAlarms>>
      /\ now' = now + 1 /\ now < nextUpdate
      /\ \A i \in Item : ~TimerDue(mTimerMap[i])
  BY DEF Tick, calVars, rangeVars, timerVars
<1>2. now \in Int /\ mRangeEnd \in Int /\ HoursBetweenUpdates \in Int
  BY AlarmAssumption DEF AlarmAssumption, Inv, Types
<1>3. RangeOK'
  BY <1>1, <1>2 DEF RingInv, RangeOK, InSight, Without
<1>4. \A s \in Search : HoldsAdding(search[s])'
  BY <1>1 DEF RingInv, HoldsAdding
<1>5. Calm' = Calm /\ \A i \in Item : Due(i)' = Due(i)
  BY <1>1 DEF Calm, Without, Due
<1>6. ASSUME NEW i \in Item, Handled(i) PROVE Handled(i)'
  <2>1. (Shown(i) => Shown(i)') /\ (Timed(i) => Timed(i)')
    BY <1>1 DEF Shown, Timed
  <2>2. Timed(i) => now < AlarmDate(item[i])
    BY <1>1, DateIsTime DEF Timed, TimerDue, Inv
  <2>3. AlarmDate(item[i])' = AlarmDate(item[i])
    BY <1>1 DEF AlarmDate
  <2>. QED BY <1>1, <1>2, <1>6, <2>1, <2>2, <2>3, DateIsTime
       DEF Handled, Inv, RingInv, RangeOK
<1>7. ASSUME NEW i \in Item, Awaited(i) PROVE Awaited(i)'
  BY <1>1, <1>7 DEF Awaited, Awaits
<1>8. RingOK'
  BY <1>5, <1>6, <1>7 DEF RingInv, RingOK
<1>. QED BY <1>3, <1>4, <1>8 DEF RingInv

(* What is due after the old range is of an item that is not over before it,
   as nothing is snoozed that far, and is searched for.                    *)
LEMMA UpdateKeepsRing ==
  ASSUME Inv, RingInv, UpdateTimerFires
  PROVE  RingInv'
<1>1. /\ UNCHANGED <<env, item, registered, suppressAlarms, now, mTimerMap, mAlarms>>
      /\ FindAlarms(registered, mRangeEnd, suppressAlarms)
      /\ mRangeEnd' = now + HoursBetweenUpdates
      /\ nextUpdate' = now + HoursBetweenUpdates
      /\ nextUpdate <= now
  BY DEF UpdateTimerFires, SearchFrom, calVars, timerVars
<1>2. /\ now \in Int /\ mRangeEnd \in Int /\ HoursBetweenUpdates \in Int
      /\ HoursBetweenUpdates > 0 /\ now = mRangeEnd
  BY <1>1, AlarmAssumption DEF AlarmAssumption, Inv, Types, RingInv, RangeOK
<1>3. RangeOK'
  <2>1. mRangeEnd <= mRangeEnd' /\ mRangeEnd' \in Int
    BY <1>1, <1>2
  <2>2. \A i \in Item : InSight(item[i])'
    BY <1>1, <1>2, <2>1, InSightKeeps DEF Inv, Types, RingInv, RangeOK
  <2>. QED BY <1>1, <1>2, <2>2 DEF RingInv, RangeOK
<1>4. /\ registered \in SUBSET Calendar /\ mRangeEnd \in Nat
      /\ search \in [Search -> Listener]
      /\ \A s \in Search : HoldsAdding(search[s])
  BY DEF Inv, Types, RingInv
<1>5. /\ \A s \in Search : HoldsAdding(search'[s])
      /\ \A s \in Search, i \in Item : Awaits(search[s], i) => Awaits(search'[s], i)
      /\ \A i \in Item : CalendarOf[i] \in registered \ suppressAlarms =>
              \E s \in Search : AsksFor(search'[s], i, mRangeEnd)
  <2>1. PICK from \in Nat : from = mRangeEnd
    BY <1>4
  <2>2. FindAlarms(registered, from, suppressAlarms)
    BY <1>1, <2>1
  <2>. QED BY <1>4, <2>1, <2>2, FindAlarmsAsks
<1>6. Calm' = Calm /\ \A i \in Item : Due(i)' = Due(i)
  BY <1>1 DEF Calm, Without, Due
<1>7. ASSUME NEW i \in Item, Awaited(i) PROVE Awaited(i)'
  BY <1>1, <1>5, <1>7, AwaitedKeeps
<1>8. ASSUME NEW i \in Item, Calm, Due(i), Handled(i) PROVE Handled(i)' \/ Awaited(i)'
  <2>1. CASE AlarmDate(item[i]) <= now
    <3>1. (Shown(i) => Shown(i)') /\ (Timed(i) => Timed(i)')
      BY <1>1 DEF Shown, Timed
    <3>2. AlarmDate(item[i])' = AlarmDate(item[i])
      BY <1>1 DEF AlarmDate
    <3>. QED BY <1>1, <1>8, <2>1, <3>1, <3>2, DateIsTime DEF Handled, Inv
  <2>2. CASE now < AlarmDate(item[i])
    <3>1. /\ item[i].snooze <= mRangeEnd
          /\ item[i].alarm <= item[i].end \/ item[i].alarm <= mRangeEnd
      BY <1>8, CalmIsCurrent DEF RingInv, RangeOK, InSight
    <3>2. mRangeEnd <= item[i].end
      BY <1>2, <2>2, <3>1, DateIsTime DEF Inv
    <3>3. PICK s \in Search : AsksFor(search'[s], i, mRangeEnd)
      BY <1>5, <1>8 DEF Due
    <3>4. Awaits(search[s], i)'
      BY <1>1, <3>2, <3>3 DEF Awaits, AsksFor
    <3>. QED BY <3>4 DEF Awaited
  <2>. QED BY <1>2, <2>1, <2>2, DateIsTime DEF Inv
<1>9. RingOK'
  BY <1>6, <1>7, <1>8 DEF RingInv, RingOK
<1>. QED BY <1>3, <1>5, <1>9 DEF RingInv, HoldsAdding

LEMMA WakeUpKeepsRing ==
  ASSUME Inv, RingInv, WakeUp, Inv'
  PROVE  RingInv'
<1>1. /\ UNCHANGED <<env, item, registered, suppressAlarms>>
      /\ FindAlarms(registered, 1, suppressAlarms)
  BY DEF WakeUp, calVars
<1>2. PICK t \in (now + 1)..MaxTime :
        now' = t /\ mRangeEnd' = t + HoursBetweenUpdates /\ nextUpdate' = t + HoursBetweenUpdates
  BY DEF WakeUp
<1>3. now \in Int /\ mRangeEnd \in Int /\ HoursBetweenUpdates \in Int /\ HoursBetweenUpdates > 0
      /\ MaxTime \in Int
  BY AlarmAssumption DEF AlarmAssumption, Inv, Types
<1>4. RangeOK'
  <2>1. mRangeEnd <= mRangeEnd' /\ t \in Int
    BY <1>2, <1>3 DEF RingInv, RangeOK
  <2>2. mRangeEnd' \in Int
    BY <1>2, <1>3, <2>1
  <2>3. \A i \in Item : InSight(item[i])'
    BY <1>1, <1>3, <2>1, <2>2, InSightKeeps DEF Inv, Types, RingInv, RangeOK
  <2>. QED BY <1>2, <1>3, <2>1, <2>3 DEF RangeOK
<1>5. /\ registered \in SUBSET Calendar /\ search \in [Search -> Listener]
      /\ \A s \in Search : HoldsAdding(search[s])
  BY DEF Inv, Types, RingInv
<1>6. \A s \in Search : HoldsAdding(search'[s])
  <2>1. 1 \in Nat
    OBVIOUS
  <2>. QED BY <1>1, <1>5, <2>1, FindAlarmsAsks
<1>7. ASSUME NEW i \in Item, Due(i)' PROVE Awaited(i)'
  <2>1. item'[i] # Deleted /\ CalendarOf[i] \in registered \ suppressAlarms
    BY <1>1, <1>7 DEF Due
  <2>. QED BY <1>1, <1>5, <2>1, SearchedIsAwaited DEF Inv
<1>. QED BY <1>4, <1>6, <1>7 DEF RingInv, RingOK, HoldsAdding

-----------------------------------------------------------------------------
LEMMA InitRing == Init => RingInv
<1>. SUFFICES ASSUME Init PROVE RingInv
  OBVIOUS
<1>1. Inv
  BY InitInv
<1>2. /\ now = 1 /\ registered = Calendar /\ suppressAlarms = {}
      /\ mRangeEnd = 1 + HoursBetweenUpdates /\ nextUpdate = 1 + HoursBetweenUpdates
      /\ item \in [Item -> {Deleted} \cup NewVersions]
  BY DEF Init
<1>3. PICK s1 : s1 = AskedSearch(Calendar, 1)
  OBVIOUS
<1>4. /\ s1.left = {} /\ s1.from = 1 /\ \A c \in Calendar : s1.stage[c] = "asked"
  BY <1>3 DEF AskedSearch, NoSearch
<1>5. 1 \in Search
  <2>1. PICK s \in Search : TRUE
    BY AlarmAssumption DEF AlarmAssumption
  <2>2. PICK n \in Nat : Search = 1..n
    BY AlarmAssumption, FS_CardinalityType DEF AlarmAssumption
  <2>. QED BY <2>1, <2>2
<1>6. search[1] = s1 /\ \A s \in Search : s # 1 => search[s] = NoSearch
  <2>1. [c \in Calendar |-> IF c \in Calendar THEN "asked" ELSE "none"]
          = [c \in Calendar |-> "asked"]
    OBVIOUS
  <2>. QED BY <1>3, <1>5, <2>1 DEF Init, AskedSearch
<1>7. \A s \in Search : HoldsAdding(search[s])
  BY <1>4, <1>6 DEF HoldsAdding, NoSearch
<1>8. RangeOK
  <2>1. HoursBetweenUpdates \in Nat
    BY AlarmAssumption DEF AlarmAssumption
  <2>2. \A i \in Item : InSight(item[i])
    BY <1>1, <1>2, NewIsInSight DEF Inv, Types
  <2>. QED BY <1>2, <2>1, <2>2 DEF RangeOK
<1>9. RingOK
  <2>1. ASSUME NEW i \in Item, Due(i) PROVE Awaits(search[1], i)
    <3>1. 1 <= item[i].end /\ CalendarOf[i] \in Calendar
      BY <1>1, <2>1, DateIsTime, AlarmAssumption DEF AlarmAssumption, Inv, Due
    <3>. QED BY <1>4, <1>6, <3>1 DEF Awaits
  <2>. QED BY <1>5, <2>1 DEF RingOK, Awaited
<1>. QED BY <1>7, <1>8, <1>9 DEF RingInv

LEMMA NextRing == Inv /\ Inv' /\ RingInv /\ [Next]_vars => RingInv'
<1>. SUFFICES ASSUME Inv, Inv', RingInv, [Next]_vars PROVE RingInv'
  OBVIOUS
<1>1. CASE Tick \/ UpdateTimerFires \/ WakeUp
  BY <1>1, TickKeepsRing, UpdateKeepsRing, WakeUpKeepsRing
<1>2. CASE \E s \in Search : SearchNext(s)
  BY <1>2, ItemsGotKeepsRing, BatchAddedKeepsRing, SliceAddsKeepsRing DEF SearchNext
<1>3. CASE \E i \in Item : TimerFires(i)
  BY <1>3, TimerFiresKeepsRing
<1>4. CASE \E i \in Item : UserChanges(i) \/ DismissAlarm(i) \/ SnoozeAlarm(i)
  BY <1>4, ChangesKeepRing
<1>5. CASE \E i \in Item : Reload(i)
  BY <1>5, ReloadKeepsRing
<1>6. CASE \E o \in orphans : OrphanFires(o)
  BY <1>6, OrphanFiresKeepsRing
<1>7. CASE \E c \in Calendar : SwitchSuppressAlarms(c) \/ Register(c)
  BY <1>7, CalendarsKeepRing
<1>8. CASE \E c \in Calendar : Unregister(c)
  BY <1>8, UnregisterKeepsRing
<1>9. CASE UNCHANGED vars
  <2>1. UNCHANGED <<env, item, registered, suppressAlarms, now, mRangeEnd, nextUpdate,
                    mTimerMap, search, mAlarms>>
    BY <1>9 DEF vars, calVars, rangeVars, timerVars
  <2>2. RangeOK'
    BY <2>1 DEF RingInv, RangeOK, InSight, Without
  <2>3. \A s \in Search : HoldsAdding(search[s])'
    BY <2>1 DEF RingInv, HoldsAdding
  <2>4. \A i \in Item : /\ Due(i)' = Due(i) /\ Handled(i)' = Handled(i)
                        /\ Awaited(i)' = Awaited(i)
    BY <2>1 DEF Due, Handled, Shown, Timed, Awaited, Awaits
  <2>5. RingOK'
    BY <2>1, <2>4 DEF RingInv, RingOK, Calm, Without
  <2>. QED BY <2>2, <2>3, <2>5 DEF RingInv
<1>. QED BY <1>1, <1>2, <1>3, <1>4, <1>5, <1>6, <1>7, <1>8, <1>9 DEF Next

(* calAlarmService.js misses no alarm: unless a calendar changes while a
   search goes on, or an alarm is snoozed to after the next search or set
   after both that and its item's end, whatever the searches, reloads, sleep
   and changes of calendars were, once no search goes on each alarm that was
   not acknowledged is shown or has its timer.                             *)
THEOREM EveryAlarmRingsAlways == Spec => []EveryAlarmRings
<1>1. RingInv => EveryAlarmRings
  <2>. SUFFICES ASSUME RingInv, Calm, ~Searching PROVE \A i \in Item : Due(i) => Handled(i)
    BY DEF EveryAlarmRings, Handled, Shown, Timed, Calm
  <2>1. \A i \in Item : ~Awaited(i)
    BY NothingAwaitedOfNone DEF Searching, Awaited
  <2>. QED BY <2>1 DEF RingInv, RingOK
<1>. QED BY <1>1, InitRing, NextRing, InvAlways, PTL DEF Spec

=============================================================================
