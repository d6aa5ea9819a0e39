------------------------- MODULE CachedCalendarProofs -------------------------
(***************************************************************************)
(* Proofs about CachedCalendar: the types, what is kept for the server and *)
(* what the server and the cache have in common.                           *)
(***************************************************************************)
EXTENDS CachedCalendar, SequenceTheorems, TLAPS

-----------------------------------------------------------------------------
(* The inductive invariant.                                                *)

(* A change has a time, so that an item with a flag has one.               *)
Dated == {c \in Change : c.time # 0}
Edits == {c \in Dated : c.kind # "add"}
Task == [ then : {"route", "doModify", "doModifyOffline", "flagModified", "flagDeleted"},
          change : Edits, by : Player \cup {"user"}, flag : Flag \cup {"unread"} ]
Asked == [ change : Dated, by : Player \cup {"user"},
           answer : {"waiting", "ok", "error", "unavailable"} ]
Running == [type : OfflineFlag, left : SUBSET Dated,
            then : {"refresh", "onLoad", "emptyQueue"}]

Types ==
  /\ [env |-> env, log |-> supportsChangeLog] \in Cases
  /\ offline \in BOOLEAN /\ disabled \in BOOLEAN
  /\ now \in 1..MaxTime
  /\ server \in [Item -> Time] /\ conflicts \subseteq Item
  /\ cache \in [Item -> Entry]
  /\ \A i \in Item : cache[i].flag # "none" => cache[i].time # 0
  /\ db \in Seq(Task)
  /\ requests \subseteq Asked
  /\ playback \in [Player -> Running \cup {Idle}]
  /\ loading \in BOOLEAN
  /\ sync \in {"idle", "replay", "getItems", "adding", "playback"}
  /\ mSyncQueue \in 0..MaxSyncs
  /\ toAdd \in [Item -> Time]
  /\ owed \subseteq Dated

(* The circumstances the parts of the invariant need to be excluded.       *)
Alone == Without({"editDuring"})
Calm == Without({"overlap", "editDuring"})
Single == Without({"refreshAgain", "editDuring"})
AddCalm == Without({"restart", "answerLost", "refreshAgain", "undoDelete", "foreign",
                    "editDuring"})

TasksOf(queue) == {queue[k] : k \in 1..Len(queue)}
ItemsApart(queue) ==
  \A j, k \in 1..Len(queue) : queue[j].change.item = queue[k].change.item => j = k

ByUser(r) == r.by = "user"

(* A playback makes one kind of change at a time, one to an item, and waits
   for one answer at a time.                                               *)
PlayersOK ==
  /\ \A r \in requests : ~ByUser(r) =>
       /\ playback[r.by] # Idle
       /\ r.change.kind = KindOf(playback[r.by].type)
       /\ \A s \in requests : s.by = r.by => s = r
  /\ \A p \in Player : \A c \in playback[p].left :
       /\ c.kind = KindOf(playback[p].type)
       /\ \A d \in playback[p].left : d.item = c.item => d = c

(* What the user changes and what a refresh does take turns.               *)
TurnsOK ==
  Alone => (Busy => db = <<>> /\ \A r \in requests : ~ByUser(r))

(* A synchronisation that replays changes has no other stages; one thing goes
   on at a time: the provider's refresh, a synchronisation or a playback.  *)
StagesOK ==
  /\ supportsChangeLog => sync \in {"idle", "replay"}
  /\ Single =>
       /\ \A p, q \in Player : playback[p] # Idle /\ playback[q] # Idle => p = q
       /\ \A p \in Player : playback[p] # Idle =>
            /\ ~loading /\ sync \in {"idle", "playback"}
            /\ playback[p].then = "refresh" => sync = "idle"
       /\ loading => sync = "idle"

(* Each item has one task.                                                 *)
QueueOK == Calm => ItemsApart(db)

-----------------------------------------------------------------------------
(* What goes on with an item.                                              *)

TasksOn(i) == {t \in TasksOf(db) : t.change.item = i}
RequestsFor(i) == {r \in requests : r.change.item = i}
OwedOf(i) == {o \in owed : o.item = i}
LeftOf(i) == {c \in Change : c.item = i /\ \E p \in Player : c \in playback[p].left}

(* Nothing happens to the item behind a task of the storage calendar.      *)
TaskOK(t, i) ==
  /\ cache[i].time # 0 /\ cache[i].flag # "deleted"
  /\ t.flag \in {"unread", cache[i].flag}
  /\ t.then = "flagDeleted" => t.change.kind = "delete"
  /\ t.then \in {"doModify", "doModifyOffline", "flagModified"} => t.change.kind = "modify"
  /\ t.then = "doModify" => cache[i].flag = "none"
  /\ t.then = "flagModified" => cache[i].time = t.change.time

ApartAt(i) ==
  Calm =>
    /\ TasksOn(i) # {} => RequestsFor(i) = {}
    /\ \A t \in TasksOn(i) : TaskOK(t, i)
    /\ \A r \in RequestsFor(i) : ByUser(r) =>
         /\ RequestsFor(i) = {r}
         /\ r.change.kind # "add" => cache[i].time # 0 /\ cache[i].flag = "none"

(* What is owed is in the cache, and is taken when the server takes what is
   requested.                                                              *)
Newest(c, i) == c.time <= now /\ \A o \in OwedOf(i) : o.time <= c.time

Covers(c, i) ==
  \A o \in OwedOf(i) : o.time <= c.time \/ (o.kind = "delete" /\ c.kind = "delete")

OwedAt(i) ==
  supportsChangeLog /\ Calm /\ i \notin conflicts =>
    /\ \A o \in OwedOf(i) : Kept(o) /\ o.time <= now
    /\ \A t \in TasksOn(i) : Newest(t.change, i)
    /\ \A r \in RequestsFor(i) :
         /\ ByUser(r) => Newest(r.change, i)
         /\ r.answer # "ok" => Covers(r.change, i)
         /\ r.answer = "ok" => OwedOf(i) = {}
    /\ \A c \in LeftOf(i) : Covers(c, i)

IsAdd(r) == r.change.kind = "add"

(* The item is flagged as created only if the server has not got it, or has
   just taken it from the playback.                                        *)
CreatedAt(i) ==
  AddCalm =>
    /\ \A r \in RequestsFor(i) : IsAdd(r) =>
         /\ r.answer \in {"waiting", "unavailable"} => server[i] = 0
         /\ ByUser(r) => cache[i].time = 0 /\ TasksOn(i) = {} /\ RequestsFor(i) = {r}
    /\ cache[i].flag = "created" /\ server[i] # 0 =>
         \E r \in RequestsFor(i) : ~ByUser(r) /\ IsAdd(r) /\ r.answer = "ok"
    /\ \A t \in TasksOn(i) : t.flag = "created" => server[i] = 0
    /\ \A c \in LeftOf(i) : c.kind = "add" =>
         server[i] = 0 /\ \A r \in RequestsFor(i) : ByUser(r)

ServerCalm == AddCalm /\ Calm

(* The cache has c, with the flag of a change the server is still to take. *)
Cached(c, i) ==
  /\ cache[i].time = c.time
  /\ c.kind = "add" => cache[i].flag = "created"
  /\ c.kind = "modify" => cache[i].flag = "modified"
  /\ c.kind = "delete" => cache[i].flag = "deleted"

Taken(c, i) == server[i] = IF c.kind = "delete" THEN 0 ELSE c.time

(* The callback that will bring the cache up to date is still to come.     *)
Settling(i) ==
  \/ \E r \in RequestsFor(i) : ByUser(r) /\ r.answer = "ok"
  \/ \E t \in TasksOn(i) : t.then # "route"

ServerAt(i) ==
  ServerCalm =>
    /\ \A r \in RequestsFor(i) : /\ r.answer = "ok" => Taken(r.change, i)
                                 /\ ~ByUser(r) => Cached(r.change, i)
    /\ \A t \in TasksOn(i) : t.then = "doModify" => Taken(t.change, i)
    /\ \A c \in LeftOf(i) : Cached(c, i) /\ RequestsFor(i) = {}
    /\ sync # "adding" /\ cache[i].flag = "none" /\ ~Settling(i) =>
         cache[i].time = server[i]
    /\ sync = "adding" =>
         /\ toAdd[i] # 0 => toAdd[i] = server[i]
         /\ toAdd[i] = 0 => cache[i] = Entries(server[i], "none")

ItemOK(i) == ApartAt(i) /\ OwedAt(i) /\ CreatedAt(i) /\ ServerAt(i)

Inv == /\ Types /\ PlayersOK /\ TurnsOK /\ StagesOK /\ QueueOK
       /\ \A i \in Item : ItemOK(i)

-----------------------------------------------------------------------------
(* The circumstances.                                                      *)

LEMMA EnvMeans ==
  /\ Alone => "editDuring" \notin env
  /\ Calm => Alone /\ "overlap" \notin env
  /\ Single => Alone /\ "refreshAgain" \notin env
  /\ AddCalm => /\ Single /\ Alone
                /\ "restart" \notin env /\ "answerLost" \notin env
                /\ "undoDelete" \notin env /\ "foreign" \notin env
BY DEF Alone, Calm, Single, AddCalm, Without

LEMMA EnvKept ==
  ASSUME UNCHANGED given
  PROVE  /\ supportsChangeLog' = supportsChangeLog
         /\ Alone' <=> Alone
         /\ Calm' <=> Calm
         /\ Single' <=> Single
         /\ AddCalm' <=> AddCalm
BY DEF given, Alone, Calm, Single, AddCalm, Without

-----------------------------------------------------------------------------
(* The storage calendar's tasks.                                           *)

LEMMA EmptyTasks == <<>> \in Seq(Task) /\ TasksOf(<<>>) = {} /\ ItemsApart(<<>>)
<1>1. <<>> \in Seq(Task) /\ Len(<<>>) = 0
  BY EmptySeq
<1>2. 1..Len(<<>>) = {}
  BY <1>1
<1>3. TasksOf(<<>>) = {}
  BY <1>2 DEF TasksOf
<1>4. ItemsApart(<<>>)
  BY <1>2 DEF ItemsApart
<1>. QED BY <1>1, <1>3, <1>4

LEMMA NonEmptyTasks ==
  ASSUME NEW queue \in Seq(Task), queue # <<>>
  PROVE  /\ Head(queue) \in TasksOf(queue) /\ Head(queue) \in Task
         /\ TasksOf(queue) \subseteq Task
BY HeadTailProperties, ElementOfSeq DEF TasksOf

LEMMA TasksAreTasks ==
  ASSUME NEW queue \in Seq(Task)
  PROVE  TasksOf(queue) \subseteq Task /\ (TasksOf(queue) = {} => queue = <<>>)
BY ElementOfSeq, EmptySeq DEF TasksOf

LEMMA TailTasks ==
  ASSUME NEW queue \in Seq(Task), queue # <<>>
  PROVE  /\ Tail(queue) \in Seq(Task)
         /\ TasksOf(Tail(queue)) \subseteq TasksOf(queue)
         /\ TasksOf(queue) = TasksOf(Tail(queue)) \cup {Head(queue)}
         /\ ItemsApart(queue) =>
              /\ ItemsApart(Tail(queue))
              /\ \A t \in TasksOf(Tail(queue)) : t.change.item # Head(queue).change.item
<1>1. /\ Tail(queue) \in Seq(Task)
      /\ Len(Tail(queue)) = Len(queue) - 1
      /\ \A k \in 1..(Len(queue) - 1) : Tail(queue)[k] = queue[k + 1]
      /\ Head(queue) = queue[1] /\ Len(queue) \in Nat /\ Len(queue) >= 1
  BY HeadTailProperties, EmptySeq, LenProperties
<1>. DEFINE n == Len(queue)
<1>2. \A k \in 1..(n - 1) : k + 1 \in 1..n /\ k + 1 # 1
  BY <1>1
<1>3. \A k \in 1..n : k = 1 \/ (k - 1 \in 1..(n - 1) /\ (k - 1) + 1 = k)
  BY <1>1
<1>4. 1 \in 1..n
  BY <1>1
<1>5. TasksOf(Tail(queue)) = {queue[k + 1] : k \in 1..(n - 1)}
  BY <1>1 DEF TasksOf
<1>6. TasksOf(queue) = {queue[k] : k \in 1..n}
  BY DEF TasksOf
<1>7. ItemsApart(queue) => ItemsApart(Tail(queue))
  BY <1>1, <1>2 DEF ItemsApart
<1>8. ItemsApart(queue) =>
        \A t \in TasksOf(Tail(queue)) : t.change.item # Head(queue).change.item
  BY <1>1, <1>2, <1>4, <1>5 DEF ItemsApart
<1>. HIDE DEF n
<1>9. TasksOf(queue) = TasksOf(Tail(queue)) \cup {Head(queue)}
  BY <1>1, <1>2, <1>3, <1>4, <1>5, <1>6
<1>. QED BY <1>1, <1>7, <1>8, <1>9

LEMMA AppendTasks ==
  ASSUME NEW queue \in Seq(Task), NEW t \in Task
  PROVE  /\ Append(queue, t) \in Seq(Task)
         /\ TasksOf(Append(queue, t)) = TasksOf(queue) \cup {t}
         /\ Append(queue, t) # <<>>
         /\ ItemsApart(queue) /\ (\A u \in TasksOf(queue) : u.change.item # t.change.item) =>
              ItemsApart(Append(queue, t))
<1>1. /\ Append(queue, t) \in Seq(Task)
      /\ Len(Append(queue, t)) = Len(queue) + 1
      /\ \A k \in 1..Len(queue) : Append(queue, t)[k] = queue[k]
      /\ Append(queue, t)[Len(queue) + 1] = t
      /\ Len(queue) \in Nat
  BY AppendProperties, LenProperties
<1>. DEFINE n == Len(queue)
            s == Append(queue, t)
<1>2. \A k \in 1..(n + 1) : k \in 1..n \/ k = n + 1
  BY <1>1
<1>3. n + 1 \in 1..(n + 1) /\ \A k \in 1..n : k \in 1..(n + 1)
  BY <1>1
<1>4. TasksOf(s) = {s[k] : k \in 1..(n + 1)} /\ TasksOf(queue) = {queue[k] : k \in 1..n}
  BY <1>1 DEF TasksOf
<1>5. s # <<>>
  BY <1>1, EmptySeq
<1>6. ItemsApart(s) <=>
        \A j, k \in 1..(n + 1) : s[j].change.item = s[k].change.item => j = k
  BY <1>1 DEF ItemsApart
<1>7. ItemsApart(queue) <=>
        \A j, k \in 1..n : queue[j].change.item = queue[k].change.item => j = k
  BY DEF ItemsApart
<1>8. (\A k \in 1..n : s[k] = queue[k]) /\ s[n + 1] = t
  BY <1>1
<1>. HIDE DEF n, s
<1>9. TasksOf(s) = TasksOf(queue) \cup {t}
  BY <1>2, <1>3, <1>4, <1>8
<1>10. ItemsApart(queue) /\ (\A u \in TasksOf(queue) : u.change.item # t.change.item) =>
         ItemsApart(s)
  BY <1>2, <1>4, <1>6, <1>7, <1>8
<1>. QED BY <1>1, <1>5, <1>9, <1>10 DEF s

-----------------------------------------------------------------------------
(* What a step leaves alone.                                               *)

LEMMA TypesMean ==
  ASSUME Types
  PROVE  /\ db \in Seq(Task) /\ requests \subseteq Asked /\ owed \subseteq Dated
         /\ TasksOf(db) \subseteq Task
         /\ \A i \in Item : cache[i] \in Entry /\ server[i] \in Time /\ toAdd[i] \in Time
         /\ now \in Nat
BY TasksAreTasks, CacheAssumption DEF Types, CacheAssumption

(* The parts of the invariant of an item none of whose state changes.      *)
LEMMA ItemKept ==
  ASSUME Types, Types', UNCHANGED given, conflicts \subseteq conflicts',
         now <= now', NEW i \in Item, ItemOK(i),
         cache'[i] = cache[i], server'[i] = server[i], toAdd'[i] = toAdd[i],
         ServerCalm => ((sync' = "adding") <=> (sync = "adding")),
         \A r \in requests \cup requests' :
           r.change.item = i => (r \in requests' <=> r \in requests),
         \A t \in TasksOf(db) \cup TasksOf(db') :
           t.change.item = i => (t \in TasksOf(db') <=> t \in TasksOf(db)),
         \A o \in owed' : o.item = i => o \in owed,
         \A p \in Player : \A c \in playback'[p].left :
           c.item = i => c \in playback[p].left
  PROVE  ItemOK(i)'
<1>1. RequestsFor(i)' = RequestsFor(i)
  BY DEF RequestsFor
<1>2. TasksOn(i)' = TasksOn(i)
  BY DEF TasksOn
<1>3. OwedOf(i)' \subseteq OwedOf(i)
  BY DEF OwedOf
<1>4. LeftOf(i)' \subseteq LeftOf(i)
  BY DEF LeftOf
<1>5. /\ supportsChangeLog' = supportsChangeLog
      /\ Calm' <=> Calm
      /\ AddCalm' <=> AddCalm
  BY EnvKept
<1>6. now \in Nat /\ now' \in Nat /\ owed \subseteq Dated
  BY CacheAssumption DEF CacheAssumption, Types
<1>7. ApartAt(i)'
  BY <1>1, <1>2, <1>5 DEF ItemOK, ApartAt, TaskOK
<1>8. OwedAt(i)'
  <2>. SUFFICES ASSUME supportsChangeLog, Calm, i \notin conflicts PROVE OwedAt(i)'
    BY <1>5 DEF OwedAt
  <2>1. \A o \in OwedOf(i)' : Kept(o)' /\ o.time <= now'
    <3>. SUFFICES ASSUME NEW o \in OwedOf(i)' PROVE Kept(o)' /\ o.time <= now'
      OBVIOUS
    <3>1. o \in OwedOf(i) /\ o.item = i /\ o \in Change /\ o.time \in Int
      BY <1>3, <1>6, CacheAssumption
      DEF OwedOf, Dated, Change, Time, CacheAssumption
    <3>2. Kept(o) /\ o.time <= now
      BY <3>1 DEF ItemOK, OwedAt
    <3>. QED BY <1>6, <3>1, <3>2 DEF Kept
  <2>2. ASSUME NEW c \in Dated, Newest(c, i) PROVE Newest(c, i)'
    BY <1>3, <1>6, <2>2, CacheAssumption DEF Newest, Dated, Change, Time, CacheAssumption
  <2>3. \A c : Covers(c, i) => Covers(c, i)'
    BY <1>3 DEF Covers
  <2>4. (\A t \in TasksOn(i) : t.change \in Dated) /\ \A r \in RequestsFor(i) : r.change \in Dated
    BY TypesMean DEF TasksOn, RequestsFor, Task, Asked, Edits
  <2>5. \A t \in TasksOn(i) : Newest(t.change, i)'
    BY <2>2, <2>4 DEF ItemOK, OwedAt
  <2>6. \A r \in RequestsFor(i) :
          /\ ByUser(r) => Newest(r.change, i)'
          /\ r.answer # "ok" => Covers(r.change, i)'
          /\ r.answer = "ok" => OwedOf(i)' = {}
    BY <1>3, <2>2, <2>3, <2>4 DEF ItemOK, OwedAt
  <2>7. \A c \in LeftOf(i)' : Covers(c, i)'
    BY <1>4, <2>3 DEF ItemOK, OwedAt
  <2>. QED BY <1>1, <1>2, <2>1, <2>5, <2>6, <2>7 DEF OwedAt
<1>9. CreatedAt(i)'
  BY <1>1, <1>2, <1>4, <1>5 DEF ItemOK, CreatedAt
<1>10. ServerAt(i)'
  <2>1. (ServerCalm' <=> ServerCalm) /\ (Settling(i)' <=> Settling(i))
    BY <1>1, <1>2, <1>5 DEF ServerCalm, Settling
  <2>2. \A c : (Taken(c, i)' <=> Taken(c, i)) /\ (Cached(c, i)' <=> Cached(c, i))
    BY DEF Taken, Cached
  <2>. QED BY <1>1, <1>2, <1>4, <2>1, <2>2 DEF ItemOK, ServerAt
<1>. QED BY <1>7, <1>8, <1>9, <1>10 DEF ItemOK

(* What a step that concerns one item does not disturb.                    *)
LEMMA OthersKept ==
  ASSUME Inv, Types', UNCHANGED given, conflicts \subseteq conflicts',
         now <= now', NEW i \in Item,
         \A j \in Item : j # i =>
           cache'[j] = cache[j] /\ server'[j] = server[j] /\ toAdd'[j] = toAdd[j],
         ServerCalm => ((sync' = "adding") <=> (sync = "adding")),
         \A r \in requests \cup requests' :
           r.change.item # i => (r \in requests' <=> r \in requests),
         \A t \in TasksOf(db) \cup TasksOf(db') :
           t.change.item # i => (t \in TasksOf(db') <=> t \in TasksOf(db)),
         \A o \in owed' : o.item # i => o \in owed,
         \A p \in Player : \A c \in playback'[p].left :
           c.item # i => c \in playback[p].left
  PROVE  \A j \in Item : j # i => ItemOK(j)'
<1>. SUFFICES ASSUME NEW j \in Item, j # i PROVE ItemOK(j)'
  OBVIOUS
<1>1. Types /\ ItemOK(j)
  BY DEF Inv
<1>. QED BY <1>1, ItemKept

(* While the user has their turn, nothing else goes on.                    *)
LEMMA UserTurn ==
  ASSUME Types, PlayersOK, ~Busy
  PROVE  /\ sync = "idle" /\ ~loading
         /\ \A p \in Player : playback[p] = Idle
         /\ \A r \in requests : ByUser(r)
         /\ \A i \in Item : LeftOf(i) = {}
<1>1. sync = "idle" /\ ~loading /\ \A p \in Player : playback[p] = Idle
  BY DEF Busy
<1>2. \A r \in requests : ByUser(r)
  BY <1>1, TypesMean DEF PlayersOK, ByUser, Asked
<1>3. \A i \in Item : LeftOf(i) = {}
  BY <1>1 DEF LeftOf, Idle
<1>. QED BY <1>1, <1>2, <1>3

LEMMA UserTurnKept ==
  ASSUME Inv, UNCHANGED <<given, playback, syncVars>>, Alone => ~Busy,
         \A r \in requests' : ByUser(r) \/ r \in requests
  PROVE  PlayersOK' /\ TurnsOK' /\ StagesOK'
<1>1. UNCHANGED <<playback, loading, sync, mSyncQueue, toAdd, supportsChangeLog>>
      /\ UNCHANGED given
  BY DEF syncVars, given
<1>2. PlayersOK'
  BY <1>1 DEF Inv, PlayersOK, ByUser
<1>3. TurnsOK'
  BY <1>1, EnvKept DEF TurnsOK, Busy
<1>4. StagesOK'
  BY <1>1, EnvKept DEF Inv, StagesOK
<1>. QED BY <1>2, <1>3, <1>4

(* While the user is changing an item, nothing else goes on.               *)
LEMMA UserIsBusy ==
  ASSUME Inv, Alone, db # <<>> \/ \E r \in requests : ByUser(r)
  PROVE  ~Busy
BY DEF Inv, TurnsOK

LEMMA NotInProgress ==
  ASSUME NEW i \in Item, ~InProgress(i)
  PROVE  TasksOn(i) = {} /\ RequestsFor(i) = {}
BY DEF InProgress, TasksOn, TasksOf, RequestsFor

-----------------------------------------------------------------------------
(* The user's changes.                                                     *)

(* What is newer than all that is owed of its item takes its place.        *)
LEMMA OweDoes ==
  ASSUME NEW c, Owe(c), NEW i, c.item = i, owed \subseteq Dated, c.time \in Time
  PROVE  /\ owed' \subseteq owed \cup {c}
         /\ \A o \in owed' : o.item # i => o \in owed
         /\ Newest(c, i) => OwedOf(i)' = {c}
<1>1. \A o \in owed : o.time \in Int
  BY CacheAssumption DEF Dated, Change, Time, CacheAssumption
<1>2. c.time \in Int
  BY CacheAssumption DEF Time, CacheAssumption
<1>3. \/ owed' = owed /\ \E o \in owed : o.item = i /\ o.time > c.time
      \/ owed' = (owed \ {o \in owed : o.item = i /\ o.time <= c.time}) \cup {c}
  BY DEF Owe, SupersededBy
<1>4. Newest(c, i) => \A o \in owed : o.item = i => o.time <= c.time
  BY DEF Newest, OwedOf
<1>. QED BY <1>1, <1>2, <1>3, <1>4 DEF OwedOf

LEMMA NewChange ==
  ASSUME Types, now < MaxTime, NEW i \in Item, NEW kind \in {"add", "modify", "delete"},
         NEW c, c = [kind |-> kind, item |-> i, time |-> now + 1]
  PROVE  /\ c \in Dated /\ c.time = now + 1 /\ c.item = i /\ c.kind = kind
         /\ now + 1 \in 1..MaxTime /\ now + 1 \in Time /\ now <= now + 1
BY CacheAssumption DEF Types, CacheAssumption, Dated, Change, Time

(* AdoptOfflineItem: the cache has the new item and owes it.               *)
LEMMA AdoptedOK ==
  ASSUME Inv, Types', UNCHANGED given, conflicts' = conflicts,
         disabled' = disabled, server' = server, db' = db, sync' = sync,
         NEW c \in Dated, NEW i \in Item, c.item = i, c.kind = "add",
         AdoptOfflineItem(c),
         supportsChangeLog /\ Calm /\ i \notin conflicts => /\ c.time <= now'
                                                            /\ \A o \in OwedOf(i) : o.time <= c.time,
         Calm \/ AddCalm => TasksOn(i) = {} /\ RequestsFor(i)' = {},
         LeftOf(i)' = {} \/ ~Alone,
         Alone => sync = "idle",
         AddCalm => server[i] = 0
  PROVE  ItemOK(i)'
<1>1. cache'[i] = [time |-> c.time, flag |-> "created"]
  BY DEF AdoptOfflineItem, Entries, Inv, Types
<1>2. Calm \/ AddCalm => TasksOn(i)' = {} /\ RequestsFor(i)' = {}
  BY DEF TasksOn
<1>3. ApartAt(i)'
  BY <1>2, EnvKept DEF ApartAt
<1>4. OwedAt(i)'
  <2>. SUFFICES ASSUME supportsChangeLog, Calm, i \notin conflicts PROVE OwedAt(i)'
    BY EnvKept DEF OwedAt
  <2>1. OwedOf(i)' = {c}
    <3>1. Owe(c) /\ owed \subseteq Dated /\ c.time \in Time
      BY DEF AdoptOfflineItem, Inv, Types, Dated, Change
    <3>2. \A o \in owed : o.item = i => o.time <= c.time
      BY DEF OwedOf
    <3>3. ~ \E o \in owed : o.item = i /\ o.time > c.time
      BY <3>1, <3>2, CacheAssumption DEF Dated, Change, Time, CacheAssumption
    <3>4. owed' = (owed \ {o \in owed : o.item = i /\ o.time <= c.time}) \cup {c}
      BY <3>1, <3>3 DEF Owe, SupersededBy
    <3>. QED BY <3>2, <3>4 DEF OwedOf
  <2>2. c.time <= c.time /\ Kept(c)'
    BY <1>1, CacheAssumption DEF Kept, Dated, Change, Time, CacheAssumption
  <2>3. LeftOf(i)' = {}
    BY EnvMeans
  <2>. QED BY <1>2, <2>1, <2>2, <2>3 DEF OwedAt
<1>5. CreatedAt(i)'
  <2>. SUFFICES ASSUME AddCalm PROVE CreatedAt(i)'
    BY EnvKept DEF CreatedAt
  <2>. QED BY <1>2, EnvMeans DEF CreatedAt
<1>6. ServerAt(i)'
  <2>. SUFFICES ASSUME ServerCalm PROVE ServerAt(i)'
    BY EnvKept DEF ServerAt, ServerCalm
  <2>1. sync' = "idle" /\ LeftOf(i)' = {}
    BY EnvMeans DEF ServerCalm
  <2>. QED BY <1>1, <1>2, <2>1 DEF ServerAt, ServerCalm
<1>. QED BY <1>3, <1>4, <1>5, <1>6 DEF ItemOK

LEMMA AddItemInv ==
  ASSUME Inv, NEW i \in Item, AddItem(i)
  PROVE  Inv'
<1>. PICK c : c = [kind |-> "add", item |-> i, time |-> now + 1]
  OBVIOUS
<1>1. /\ now < MaxTime /\ ~InProgress(i) /\ now' = now + 1
      /\ UNCHANGED <<given, conflicts, disabled, offline, server, db, playback, syncVars>>
      /\ Alone => ~Busy
  BY EnvMeans DEF AddItem, MayEdit, Alone, Without, status
<1>2. /\ c \in Dated /\ c.time = now + 1 /\ c.item = i /\ c.kind = "add"
      /\ now' \in 1..MaxTime /\ now <= now'
  BY <1>1, NewChange DEF Inv
<1>3. TasksOn(i) = {} /\ RequestsFor(i) = {}
  BY <1>1, NotInProgress
<1>4. AddCalm => server[i] = 0
  BY EnvMeans DEF AddItem
<1>5. AddCalm => cache[i].time = 0
  BY EnvMeans DEF AddItem
<1>6. Alone => /\ sync = "idle"
               /\ LeftOf(i) = {} /\ LeftOf(i)' = {}
  BY <1>1, UserTurn DEF Inv, LeftOf
<1>7. supportsChangeLog /\ Calm /\ i \notin conflicts => \A o \in OwedOf(i) : o.time <= c.time
  <2>. SUFFICES ASSUME supportsChangeLog, Calm, i \notin conflicts, NEW o \in OwedOf(i)
                PROVE  o.time <= now + 1
    BY <1>2
  <2>1. o.time <= now /\ o.time \in Int /\ now \in Int
    BY CacheAssumption
    DEF Inv, ItemOK, OwedAt, OwedOf, Types, Dated, Change, Time, CacheAssumption
  <2>. QED BY <2>1
<1>8. CASE AdoptOfflineItem(c) /\ UNCHANGED requests
  <2>1. cache' = [cache EXCEPT ![i] = Entries(c.time, "created")] /\ Owe(c)
    BY <1>2, <1>8 DEF AdoptOfflineItem
  <2>2. owed' \subseteq owed \cup {c} /\ \A o \in owed' : o.item # i => o \in owed
    BY <1>2, <2>1, OweDoes DEF Inv, Types, Dated, Change
  <2>3. Types'
    <3>1. /\ cache' \in [Item -> Entry]
          /\ \A j \in Item : cache'[j].flag # "none" => cache'[j].time # 0
      BY <1>2, <2>1 DEF Inv, Types, Entries, Entry, Flag, OfflineFlag, Dated, Change
    <3>. QED BY <1>1, <1>2, <1>8, <2>2, <3>1 DEF status, given, syncVars, Inv, Types
  <2>4. RequestsFor(i)' = {}
    BY <1>3, <1>8 DEF RequestsFor
  <2>5. ItemOK(i)'
    <3>1. UNCHANGED given /\ conflicts' = conflicts /\ disabled' = disabled
          /\ server' = server /\ db' = db /\ sync' = sync
      BY <1>1 DEF syncVars, status
    <3>2. c.time <= now'
      BY <1>1, <1>2
    <3>. QED BY <1>2, <1>3, <1>4, <1>6, <1>7, <1>8, <2>3, <2>4, <3>1, <3>2, AdoptedOK
  <2>6. \A j \in Item : j # i => ItemOK(j)'
    BY <1>1, <1>2, <1>8, <2>1, <2>2, <2>3, OthersKept DEF syncVars, Inv, Types
  <2>7. PlayersOK' /\ TurnsOK' /\ StagesOK'
    BY <1>1, <1>8, UserTurnKept
  <2>8. QueueOK'
    BY <1>1, EnvKept DEF Inv, QueueOK
  <2>. QED BY <2>3, <2>5, <2>6, <2>7, <2>8 DEF Inv
<1>9. CASE requests' = requests \cup {Request(c, "user")} /\ UNCHANGED <<cache, owed>>
  <2>. DEFINE r == Request(c, "user")
  <2>1. r \in Asked /\ r.change = c /\ r.by = "user" /\ r.answer = "waiting"
    BY <1>2 DEF Request, Asked
  <2>. HIDE DEF r
  <2>2. requests' = requests \cup {r}
    BY <1>9 DEF r
  <2>3. Types'
    BY <1>1, <1>2, <1>9, <2>1, <2>2 DEF status, given, syncVars, Inv, Types
  <2>4. RequestsFor(i)' = {r} /\ TasksOn(i)' = {}
    BY <1>1, <1>2, <1>3, <2>1, <2>2 DEF RequestsFor, TasksOn
  <2>5. ItemOK(i)'
    <3>1. ApartAt(i)'
      BY <1>2, <2>1, <2>4 DEF ApartAt
    <3>2. OwedAt(i)'
      <4>. SUFFICES ASSUME supportsChangeLog, Calm, i \notin conflicts PROVE OwedAt(i)'
        BY <1>1, EnvKept DEF OwedAt
      <4>1. OwedOf(i)' = OwedOf(i) /\ now \in Int /\ LeftOf(i)' = {}
        BY <1>6, <1>9, EnvMeans DEF OwedOf, Inv, Types
      <4>2. \A o \in OwedOf(i) : Kept(o)' /\ o.time <= now'
        <5>. SUFFICES ASSUME NEW o \in OwedOf(i) PROVE Kept(o)' /\ o.time <= now'
          OBVIOUS
        <5>1. Kept(o) /\ o.time <= now /\ o.time \in Int
          BY CacheAssumption
          DEF Inv, ItemOK, OwedAt, OwedOf, Types, Dated, Change, Time, CacheAssumption
        <5>. QED BY <1>1, <1>9, <4>1, <5>1 DEF Kept
      <4>3. Newest(c, i)' /\ Covers(c, i)'
        BY <1>1, <1>2, <1>7, <4>1 DEF Newest, Covers
      <4>. QED BY <2>1, <2>4, <4>1, <4>2, <4>3 DEF OwedAt
    <3>3. CreatedAt(i)'
      <4>. SUFFICES ASSUME AddCalm PROVE CreatedAt(i)'
        BY <1>1, EnvKept DEF CreatedAt
      <4>. QED BY <1>1, <1>4, <1>5, <1>6, <1>9, <2>1, <2>4, EnvMeans
           DEF CreatedAt, ByUser
    <3>4. ServerAt(i)'
      <4>. SUFFICES ASSUME ServerCalm PROVE ServerAt(i)'
        BY <1>1, EnvKept DEF ServerAt, ServerCalm
      <4>1. ~Settling(i)
        BY <1>3 DEF Settling
      <4>2. sync = "idle" /\ LeftOf(i)' = {}
        BY <1>6, EnvMeans DEF ServerCalm
      <4>3. cache[i].flag = "none" => cache[i].time = server[i]
        BY <4>1, <4>2 DEF Inv, ItemOK, ServerAt
      <4>. QED BY <1>1, <1>9, <2>1, <2>4, <4>2, <4>3 DEF ServerAt, ByUser, syncVars
    <3>. QED BY <3>1, <3>2, <3>3, <3>4 DEF ItemOK
  <2>6. \A j \in Item : j # i => ItemOK(j)'
    BY <1>1, <1>2, <1>9, <2>1, <2>2, <2>3, OthersKept DEF syncVars, Inv, Types
  <2>7. PlayersOK' /\ TurnsOK' /\ StagesOK'
    BY <1>1, <2>1, <2>2, UserTurnKept DEF ByUser
  <2>8. QueueOK'
    BY <1>1, EnvKept DEF Inv, QueueOK
  <2>. QED BY <2>3, <2>5, <2>6, <2>7, <2>8 DEF Inv
<1>. QED BY <1>8, <1>9 DEF AddItem


LEMMA ChangeItemInv ==
  ASSUME Inv, NEW i \in Item, ModifyItem(i) \/ DeleteItem(i)
  PROVE  Inv'
<1>1. PICK kind \in {"modify", "delete"}, then \in {"route", "doModifyOffline", "flagDeleted"} :
        /\ kind = "modify" => then # "flagDeleted"
        /\ kind = "delete" => then # "doModifyOffline"
        /\ MayEdit(i) /\ Visible(i) /\ now' = now + 1
        /\ db' = Append(db, ReadFlag(then, [kind |-> kind, item |-> i, time |-> now + 1], "user"))
        /\ UNCHANGED <<given, conflicts, disabled, offline, server, cache,
                       requests, playback, syncVars, owed>>
  BY DEF ModifyItem, DeleteItem, ChangeItem, status
<1>. PICK c : c = [kind |-> kind, item |-> i, time |-> now + 1]
  OBVIOUS
<1>. PICK t : t = ReadFlag(then, c, "user")
  OBVIOUS
<1>2. /\ c \in Edits /\ c.time = now + 1 /\ c.item = i /\ c.kind = kind
      /\ now' \in 1..MaxTime /\ now <= now'
  BY <1>1, NewChange DEF MayEdit, Inv, Edits
<1>3. t \in Task /\ t.change = c /\ t.then = then /\ t.flag = "unread"
  BY <1>2 DEF ReadFlag, Task
<1>4. db' = Append(db, t) /\ UNCHANGED <<given, conflicts, disabled, playback, syncVars>>
      /\ cache' = cache /\ server' = server /\ requests' = requests /\ owed' = owed
      /\ toAdd' = toAdd /\ sync' = sync
  BY <1>1 DEF syncVars, status
<1>5. Alone => ~Busy /\ LeftOf(i)' = {} /\ LeftOf(i) = {}
  BY <1>1, UserTurn DEF MayEdit, Alone, Without, Inv, LeftOf
<1>6. cache[i].time # 0 /\ cache[i].flag # "deleted"
  BY <1>1 DEF Visible
<1>7. Calm => TasksOn(i) = {} /\ RequestsFor(i) = {}
  BY <1>1, NotInProgress, EnvMeans DEF MayEdit
<1>8. /\ db' \in Seq(Task) /\ TasksOf(db)' = TasksOf(db) \cup {t}
      /\ Calm => ItemsApart(db)'
  <2>1. Calm => \A u \in TasksOf(db) : u.change.item # t.change.item
    BY <1>2, <1>3, <1>7 DEF TasksOn
  <2>2. db' = Append(db, t) /\ db \in Seq(Task)
    BY <1>4 DEF Inv, Types
  <2>3. Calm => ItemsApart(db)
    BY DEF Inv, QueueOK
  <2>4. TasksOf(db') = TasksOf(db) \cup {t} /\ db' \in Seq(Task)
        /\ (Calm => ItemsApart(db'))
    BY <1>3, <2>1, <2>2, <2>3, AppendTasks
  <2>. QED BY <2>4 DEF TasksOf, ItemsApart
<1>9. Types'
  BY <1>1, <1>2, <1>8 DEF status, given, syncVars, Inv, Types
<1>10. RequestsFor(i)' = RequestsFor(i) /\ TasksOn(i)' = TasksOn(i) \cup {t}
       /\ OwedOf(i)' = OwedOf(i)
  BY <1>2, <1>3, <1>4, <1>8 DEF RequestsFor, TasksOn, OwedOf
<1>11. ItemOK(i)'
  <2>1. ApartAt(i)'
    <3>. SUFFICES ASSUME Calm PROVE ApartAt(i)'
      BY <1>4, EnvKept DEF ApartAt
    <3>. QED BY <1>1, <1>2, <1>3, <1>4, <1>6, <1>7, <1>10 DEF ApartAt, TaskOK
  <2>2. OwedAt(i)'
    <3>. SUFFICES ASSUME supportsChangeLog, Calm, i \notin conflicts PROVE OwedAt(i)'
      BY <1>4, EnvKept DEF OwedAt
    <3>1. \A o \in OwedOf(i) : Kept(o)' /\ o.time <= c.time /\ o.time <= now'
      <4>. SUFFICES ASSUME NEW o \in OwedOf(i)
                    PROVE  Kept(o)' /\ o.time <= c.time /\ o.time <= now'
        OBVIOUS
      <4>1. Kept(o) /\ o.time <= now /\ o.time \in Int /\ now \in Int
        BY CacheAssumption
        DEF Inv, ItemOK, OwedAt, OwedOf, Types, Dated, Change, Time, CacheAssumption
      <4>. QED BY <1>1, <1>2, <1>4, <4>1 DEF Kept
    <3>2. Newest(c, i)'
      BY <1>1, <1>2, <1>9, <1>10, <3>1 DEF Newest, Types
    <3>3. LeftOf(i)' = {}
      BY <1>5, EnvMeans
    <3>. QED BY <1>3, <1>7, <1>10, <3>1, <3>2, <3>3 DEF OwedAt
  <2>3. CreatedAt(i)'
    <3>. SUFFICES ASSUME AddCalm PROVE CreatedAt(i)'
      BY <1>4, EnvKept DEF CreatedAt
    <3>1. CreatedAt(i) /\ LeftOf(i)' = {}
      BY <1>5, EnvMeans DEF Inv, ItemOK
    <3>. QED BY <1>3, <1>4, <1>6, <1>10, <3>1 DEF CreatedAt
  <2>4. ServerAt(i)'
    <3>. SUFFICES ASSUME ServerCalm PROVE ServerAt(i)'
      BY <1>4, EnvKept DEF ServerAt, ServerCalm
    <3>1. ServerAt(i) /\ LeftOf(i)' = {} /\ sync = "idle" /\ Calm
      BY <1>5, EnvMeans, UserTurn DEF Inv, ItemOK, ServerCalm
    <3>2. t.then # "doModify" /\ (Settling(i) => Settling(i)')
      BY <1>1, <1>3, <1>10 DEF Settling
    <3>3. RequestsFor(i)' = {} /\ TasksOn(i)' = {t}
      BY <1>7, <1>10, <3>1
    <3>. QED BY <1>3, <1>4, <3>1, <3>2, <3>3 DEF ServerAt
  <2>. QED BY <2>1, <2>2, <2>3, <2>4 DEF ItemOK
<1>12. \A j \in Item : j # i => ItemOK(j)'
  BY <1>2, <1>3, <1>4, <1>8, <1>9, OthersKept
<1>13. PlayersOK' /\ TurnsOK' /\ StagesOK'
  BY <1>4, <1>5, UserTurnKept
<1>14. QueueOK'
  BY <1>4, <1>8, EnvKept DEF QueueOK
<1>. QED BY <1>9, <1>11, <1>12, <1>13, <1>14 DEF Inv

-----------------------------------------------------------------------------
(* The storage calendar.                                                   *)

(* What the thread of the storage calendar reads is the item's flag.       *)
LEMMA DbReadsInv ==
  ASSUME Inv, DbReads
  PROVE  Inv'
<1>1. PICK k \in 1..Len(db) :
        /\ db[k].flag = "unread"
        /\ db' = [db EXCEPT ![k].flag = cache[db[k].change.item].flag]
        /\ UNCHANGED <<given, conflicts, disabled, offline, now, server, cache, requests, playback,
                       syncVars, owed>>
  BY DEF DbReads, status
<1>. PICK u : u = db[k]
  OBVIOUS
<1>. PICK i : i = u.change.item
  OBVIOUS
<1>. PICK t : t = [u EXCEPT !.flag = cache[i].flag]
  OBVIOUS
<1>2. UNCHANGED given /\ conflicts' = conflicts /\ disabled' = disabled
      /\ cache' = cache /\ server' = server /\ requests' = requests
      /\ owed' = owed /\ toAdd' = toAdd /\ sync' = sync /\ now' = now
      /\ UNCHANGED <<playback, syncVars>>
  BY <1>1 DEF syncVars, status
<1>3. Types /\ db \in Seq(Task) /\ u \in Task /\ u \in TasksOf(db) /\ now \in Nat
  BY <1>1, ElementOfSeq, TypesMean DEF Inv, TasksOf
<1>4. i \in Item /\ u.change \in Edits /\ u.flag = "unread" /\ cache[i].flag \in Flag
  BY <1>1, <1>3, TypesMean DEF Task, Edits, Dated, Change, Entry
<1>5. t \in Task /\ t.change = u.change /\ t.then = u.then /\ t.by = u.by
      /\ t.flag = cache[i].flag
  BY <1>3, <1>4 DEF Task
<1>6. db' = [db EXCEPT ![k] = t]
  BY <1>1, <1>3 DEF Task
<1>7. db' \in Seq(Task) /\ Len(db') = Len(db) /\ db'[k] = t
      /\ \A m \in 1..Len(db) : m # k => db'[m] = db[m]
  BY <1>1, <1>3, <1>5, <1>6, ExceptSeq
<1>8. /\ t \in TasksOf(db)'
      /\ \A v \in TasksOf(db)' : v = t \/ v \in TasksOf(db)
      /\ \A v \in TasksOf(db) : v = u \/ v \in TasksOf(db)'
  BY <1>1, <1>7 DEF TasksOf
<1>9. ItemsApart(db) => ItemsApart(db)'
  <2>1. \A m \in 1..Len(db) : db'[m].change = db[m].change
    BY <1>5, <1>7
  <2>. QED BY <1>7, <2>1 DEF ItemsApart
<1>10. Types'
  BY <1>1, <1>7 DEF status, given, syncVars, Inv, Types
<1>11. /\ TasksOn(i) # {} /\ t \in TasksOn(i)' /\ u \in TasksOn(i)
       /\ \A v \in TasksOn(i)' : v = t \/ v \in TasksOn(i)
       /\ \A v \in TasksOn(i) : v = u \/ v \in TasksOn(i)'
       /\ RequestsFor(i)' = RequestsFor(i) /\ OwedOf(i)' = OwedOf(i)
  BY <1>2, <1>3, <1>5, <1>8 DEF TasksOn, RequestsFor, OwedOf
<1>12. Alone => ~Busy
  BY <1>3, UserIsBusy, EmptyTasks
<1>13. Alone => /\ LeftOf(i) = {} /\ LeftOf(i)' = {}
                /\ \A r \in requests : ByUser(r)
  BY <1>2, <1>4, <1>12, UserTurn DEF Inv, LeftOf
<1>14. ItemOK(i)'
  <2>1. ApartAt(i)'
    <3>. SUFFICES ASSUME Calm PROVE ApartAt(i)'
      BY <1>2, EnvKept DEF ApartAt
    <3>1. ApartAt(i)
      BY <1>4 DEF Inv, ItemOK
    <3>2. \A v \in TasksOn(i) : TaskOK(v, i)
      BY <3>1 DEF ApartAt
    <3>3. TaskOK(t, i)'
      BY <1>2, <1>5, <1>11, <3>2 DEF TaskOK
    <3>4. \A v \in TasksOn(i)' : TaskOK(v, i)'
      BY <1>2, <1>11, <3>2, <3>3 DEF TaskOK
    <3>. QED BY <1>2, <1>11, <3>1, <3>4 DEF ApartAt
  <2>2. OwedAt(i)'
    <3>. SUFFICES ASSUME supportsChangeLog, Calm, i \notin conflicts PROVE OwedAt(i)'
      BY <1>2, EnvKept DEF OwedAt
    <3>1. OwedAt(i) /\ LeftOf(i)' = {}
      BY <1>4, <1>13, EnvMeans DEF Inv, ItemOK
    <3>2. \A c : (Newest(c, i)' <=> Newest(c, i)) /\ (Covers(c, i)' <=> Covers(c, i))
                 /\ (Kept(c)' <=> Kept(c))
      BY <1>2, <1>11 DEF Newest, Covers, Kept
    <3>. QED BY <1>2, <1>5, <1>11, <3>1, <3>2 DEF OwedAt
  <2>3. CreatedAt(i)'
    <3>. SUFFICES ASSUME AddCalm PROVE CreatedAt(i)'
      BY <1>2, EnvKept DEF CreatedAt
    <3>1. CreatedAt(i) /\ LeftOf(i)' = {} /\ \A r \in RequestsFor(i) : ByUser(r)
      BY <1>4, <1>13, EnvMeans DEF Inv, ItemOK, RequestsFor
    <3>2. cache[i].flag = "created" => server[i] = 0
      BY <3>1 DEF CreatedAt
    <3>. QED BY <1>2, <1>5, <1>11, <3>1, <3>2 DEF CreatedAt
  <2>4. ServerAt(i)'
    <3>. SUFFICES ASSUME ServerCalm PROVE ServerAt(i)'
      BY <1>2, EnvKept DEF ServerAt, ServerCalm
    <3>1. ServerAt(i) /\ LeftOf(i)' = {} /\ sync # "adding"
      BY <1>3, <1>4, <1>12, <1>13, EnvMeans, UserTurn DEF Inv, ItemOK, ServerCalm
    <3>2. Settling(i) <=> Settling(i)'
      BY <1>5, <1>11 DEF Settling
    <3>3. \A c : (Taken(c, i)' <=> Taken(c, i)) /\ (Cached(c, i)' <=> Cached(c, i))
      BY <1>2 DEF Taken, Cached
    <3>4. \A v \in TasksOn(i)' : v.then = "doModify" => Taken(v.change, i)'
      <4>1. \A v \in TasksOn(i) : v.then = "doModify" => Taken(v.change, i)
        BY <3>1 DEF ServerAt
      <4>. QED BY <1>5, <1>11, <3>3, <4>1
    <3>5. \A r \in RequestsFor(i) : /\ r.answer = "ok" => Taken(r.change, i)'
                                    /\ ~ByUser(r) => Cached(r.change, i)'
      BY <3>1, <3>3 DEF ServerAt
    <3>6. cache[i].flag = "none" /\ ~Settling(i) => cache[i].time = server[i]
      BY <3>1 DEF ServerAt
    <3>. QED BY <1>2, <1>11, <3>1, <3>2, <3>4, <3>5, <3>6 DEF ServerAt
  <2>. QED BY <2>1, <2>2, <2>3, <2>4 DEF ItemOK
<1>15. \A j \in Item : j # i => ItemOK(j)'
  <2>1. \A v \in TasksOf(db) \cup TasksOf(db') :
          v.change.item # i => (v \in TasksOf(db') <=> v \in TasksOf(db))
    BY <1>5, <1>8 DEF TasksOf
  <2>. QED BY <1>2, <1>3, <1>4, <1>10, <2>1, OthersKept
<1>16. PlayersOK' /\ TurnsOK' /\ StagesOK'
  BY <1>2, <1>12, UserTurnKept
<1>17. QueueOK'
  BY <1>2, <1>9, EnvKept DEF QueueOK, Inv
<1>. QED BY <1>10, <1>14, <1>15, <1>16, <1>17 DEF Inv

(* The item of a callback: nothing else goes on with it.                   *)
LEMMA CallbackItem ==
  ASSUME Inv, db # <<>>, NEW t, t = Head(db), NEW i, i = t.change.item
  PROVE  /\ i \in Item /\ t \in Task /\ t.change \in Edits /\ t \in TasksOn(i)
         /\ t.change.kind \in {"modify", "delete"}
         /\ cache[i] \in Entry /\ ItemOK(i)
         /\ Alone => /\ ~Busy /\ sync = "idle" /\ LeftOf(i) = {}
                     /\ \A r \in requests : ByUser(r)
         /\ Calm => /\ TasksOn(i) = {t} /\ RequestsFor(i) = {} /\ TaskOK(t, i)
         /\ supportsChangeLog /\ Calm /\ i \notin conflicts => Newest(t.change, i)
         /\ AddCalm => /\ \A r \in RequestsFor(i) : ByUser(r) /\ ~IsAdd(r)
                       /\ t.flag = "created" => server[i] = 0
                       /\ cache[i].flag = "created" => server[i] = 0
<1>1. db \in Seq(Task) /\ Types
  BY DEF Inv, Types
<1>2. t \in TasksOf(db) /\ t \in Task
  BY <1>1, NonEmptyTasks
<1>3. t.change \in Edits /\ i \in Item /\ t \in TasksOn(i)
      /\ t.change.kind \in {"modify", "delete"}
  BY <1>2 DEF Task, Edits, Dated, Change, TasksOn
<1>4. ItemOK(i) /\ cache[i] \in Entry
  BY <1>1, <1>3, TypesMean DEF Inv
<1>5. Alone => ~Busy
  BY UserIsBusy
<1>6. Alone => /\ sync = "idle" /\ LeftOf(i) = {}
               /\ \A r \in requests : ByUser(r)
  BY <1>3, <1>5, UserTurn DEF Inv
<1>7. Calm => TasksOn(i) = {t} /\ RequestsFor(i) = {} /\ TaskOK(t, i)
  <2>. SUFFICES ASSUME Calm PROVE TasksOn(i) = {t} /\ RequestsFor(i) = {} /\ TaskOK(t, i)
    OBVIOUS
  <2>1. ItemsApart(db)
    BY DEF Inv, QueueOK
  <2>2. TasksOn(i) = {t}
    BY <1>1, <1>3, <2>1, TailTasks DEF TasksOn
  <2>. QED BY <1>4, <2>2 DEF ItemOK, ApartAt
<1>8. supportsChangeLog /\ Calm /\ i \notin conflicts => Newest(t.change, i)
  BY <1>3, <1>4 DEF ItemOK, OwedAt
<1>9. AddCalm => /\ \A r \in RequestsFor(i) : ByUser(r) /\ ~IsAdd(r)
                 /\ t.flag = "created" => server[i] = 0
                 /\ cache[i].flag = "created" => server[i] = 0
  <2>. SUFFICES ASSUME AddCalm
                PROVE  /\ \A r \in RequestsFor(i) : ByUser(r) /\ ~IsAdd(r)
                       /\ t.flag = "created" => server[i] = 0
                       /\ cache[i].flag = "created" => server[i] = 0
    OBVIOUS
  <2>1. CreatedAt(i) /\ \A r \in RequestsFor(i) : ByUser(r)
    BY <1>4, <1>6, EnvMeans DEF ItemOK, RequestsFor
  <2>. QED BY <1>3, <2>1 DEF CreatedAt
<1>. QED BY <1>2, <1>3, <1>4, <1>5, <1>6, <1>7, <1>8, <1>9

(* The queue after a callback, which may have added one task.              *)
LEMMA CallbackEnds ==
  ASSUME Inv, db # <<>>, NEW i, i = Head(db).change.item, db' = Tail(db)
  PROVE  /\ db' \in Seq(Task)
         /\ \A v \in TasksOf(db) \cup TasksOf(db') :
              v.change.item # i => (v \in TasksOf(db') <=> v \in TasksOf(db))
         /\ TasksOn(i)' \subseteq TasksOn(i)
         /\ Calm => TasksOn(i)' = {} /\ ItemsApart(db')
<1>1. db \in Seq(Task) /\ (Calm => ItemsApart(db))
  BY DEF Inv, Types, QueueOK
<1>2. TasksOn(i)' = {v \in TasksOf(db') : v.change.item = i}
  BY DEF TasksOn, TasksOf
<1>. QED BY <1>1, <1>2, TailTasks DEF TasksOn

LEMMA CallbackGoesOn ==
  ASSUME Inv, db # <<>>, NEW i, i = Head(db).change.item, NEW u \in Task,
         u.change = Head(db).change, db' = Append(Tail(db), u)
  PROVE  /\ db' \in Seq(Task)
         /\ \A v \in TasksOf(db) \cup TasksOf(db') :
              v.change.item # i => (v \in TasksOf(db') <=> v \in TasksOf(db))
         /\ TasksOn(i)' \subseteq TasksOn(i) \cup {u}
         /\ Calm => TasksOn(i)' = {u} /\ ItemsApart(db')
<1>1. db \in Seq(Task) /\ (Calm => ItemsApart(db))
  BY DEF Inv, Types, QueueOK
<1>. PICK rest : rest = Tail(db)
  OBVIOUS
<1>2. /\ rest \in Seq(Task) /\ TasksOf(db) = TasksOf(rest) \cup {Head(db)}
      /\ Calm => /\ ItemsApart(rest)
                 /\ \A v \in TasksOf(rest) : v.change.item # i
  BY <1>1, TailTasks
<1>3. /\ db' \in Seq(Task) /\ TasksOf(db') = TasksOf(rest) \cup {u}
      /\ Calm => ItemsApart(db')
  BY <1>2, AppendTasks
<1>4. TasksOn(i)' = {v \in TasksOf(db') : v.change.item = i}
  BY DEF TasksOn, TasksOf
<1>. QED BY <1>2, <1>3, <1>4 DEF TasksOn

LEMMA RouteInv ==
  ASSUME Inv, DbCallback, NEW t, t = Head(db), Route(t)
  PROVE  Inv'
<1>. PICK i : i = t.change.item
  OBVIOUS
<1>0. db # <<>> /\ t.flag # "unread" /\ t.then = "route" /\ cache' = cache /\ owed' = owed
      /\ server' = server /\ now' = now /\ toAdd' = toAdd /\ sync' = sync
      /\ UNCHANGED <<given, conflicts, disabled, playback, syncVars>> /\ offline' = offline
  BY DEF DbCallback, Completed, Route, syncVars, status
<1>1. /\ i \in Item /\ t \in Task /\ t.change \in Edits /\ t \in TasksOn(i)
      /\ t.change.kind \in {"modify", "delete"}
      /\ cache[i] \in Entry /\ ItemOK(i) /\ now \in Nat
      /\ Alone => /\ ~Busy /\ sync = "idle" /\ LeftOf(i) = {}
                  /\ \A r \in requests : ByUser(r)
      /\ Calm => /\ TasksOn(i) = {t} /\ RequestsFor(i) = {} /\ TaskOK(t, i)
      /\ supportsChangeLog /\ Calm /\ i \notin conflicts => Newest(t.change, i)
      /\ AddCalm => \A r \in RequestsFor(i) : ByUser(r) /\ ~IsAdd(r)
  BY <1>0, CallbackItem, TypesMean DEF Inv
<1>. PICK u : u = ReadFlag(IF t.change.kind = "delete" THEN "flagDeleted"
                                                       ELSE "doModifyOffline",
                           t.change, "user")
  OBVIOUS
<1>. PICK added : added = IF t.flag \in {"created", "modified"} THEN {u} ELSE {}
  OBVIOUS
<1>. PICK sent : sent = IF t.flag \in {"created", "modified"} THEN {}
                                                             ELSE {Request(t.change, "user")}
  OBVIOUS
<1>2. /\ u \in Task /\ u.change = t.change /\ u.flag = "unread"
      /\ u.then = IF t.change.kind = "delete" THEN "flagDeleted" ELSE "doModifyOffline"
      /\ \A v \in added : v = u
      /\ (db' = Tail(db) /\ added = {}) \/ (db' = Append(Tail(db), u) /\ added = {u})
      /\ requests' = requests \cup sent
      /\ added # {} => sent = {}
      /\ sent # {} => t.flag \notin {"created", "modified"}
  <2>1. /\ u \in Task /\ u.change = t.change /\ u.flag = "unread"
        /\ u.then = IF t.change.kind = "delete" THEN "flagDeleted" ELSE "doModifyOffline"
    BY <1>1 DEF ReadFlag, Task
  <2>2. CASE t.flag \in {"created", "modified"}
    BY <2>1, <2>2 DEF Route
  <2>3. CASE t.flag \notin {"created", "modified"}
    BY <2>1, <2>3 DEF Route
  <2>. QED BY <2>2, <2>3
<1>3. /\ db' \in Seq(Task)
      /\ \A v \in TasksOf(db) \cup TasksOf(db') :
           v.change.item # i => (v \in TasksOf(db') <=> v \in TasksOf(db))
      /\ TasksOn(i)' \subseteq TasksOn(i) \cup added
      /\ Calm => TasksOn(i)' = added /\ ItemsApart(db')
  <2>1. CASE db' = Tail(db) /\ added = {}
    <3>1. i = Head(db).change.item
      OBVIOUS
    <3>2. /\ db' \in Seq(Task)
          /\ \A v \in TasksOf(db) \cup TasksOf(db') :
               v.change.item # i => (v \in TasksOf(db') <=> v \in TasksOf(db))
          /\ TasksOn(i)' \subseteq TasksOn(i)
          /\ Calm => TasksOn(i)' = {} /\ ItemsApart(db')
      BY <1>0, <2>1, <3>1, CallbackEnds
    <3>. QED BY ONLY <2>1, <3>2
  <2>2. CASE db' = Append(Tail(db), u) /\ added = {u}
    <3>1. i = Head(db).change.item /\ u \in Task /\ u.change = Head(db).change
      BY <1>2, <2>2
    <3>2. /\ db' \in Seq(Task)
          /\ \A v \in TasksOf(db) \cup TasksOf(db') :
               v.change.item # i => (v \in TasksOf(db') <=> v \in TasksOf(db))
          /\ TasksOn(i)' \subseteq TasksOn(i) \cup {u}
          /\ Calm => TasksOn(i)' = {u} /\ ItemsApart(db')
      BY <1>0, <2>2, <3>1, CallbackGoesOn
    <3>. QED BY ONLY <2>2, <3>2
  <2>. QED BY <1>2, <2>1, <2>2
<1>4. \A r \in sent : /\ r \in Asked /\ r.change = t.change /\ ByUser(r)
                      /\ r.answer = "waiting"
  BY <1>1, <1>2 DEF Request, Asked, ByUser, Edits
<1>5. Types'
  BY <1>0, <1>2, <1>3, <1>4 DEF status, given, syncVars, Inv, Types
<1>6. RequestsFor(i)' = RequestsFor(i) \cup sent /\ OwedOf(i)' = OwedOf(i)
      /\ LeftOf(i)' = LeftOf(i)
  BY <1>0, <1>2, <1>4 DEF RequestsFor, OwedOf, LeftOf
<1>7. ItemOK(i)'
  <2>1. ApartAt(i)'
    <3>. SUFFICES ASSUME Calm PROVE ApartAt(i)'
      BY <1>0, EnvKept DEF ApartAt
    <3>1. \A v \in added : TaskOK(v, i)'
      BY <1>0, <1>1, <1>2 DEF TaskOK
    <3>2. t.flag \in Flag /\ t.flag \in {"unread", cache[i].flag} /\ cache[i].flag # "deleted"
          /\ cache[i].time # 0
      BY <1>0, <1>1 DEF TaskOK, Task
    <3>3. sent # {} => cache[i].flag = "none"
      BY <1>0, <1>2, <3>2 DEF Flag, OfflineFlag
    <3>4. RequestsFor(i)' = sent /\ TasksOn(i)' = added
      BY <1>1, <1>3, <1>6
    <3>. QED BY <1>0, <1>2, <3>1, <3>2, <3>3, <3>4 DEF ApartAt
  <2>2. OwedAt(i)'
    <3>. SUFFICES ASSUME supportsChangeLog, Calm, i \notin conflicts PROVE OwedAt(i)'
      BY <1>0, EnvKept DEF OwedAt
    <3>1. OwedAt(i) /\ LeftOf(i)' = {} /\ RequestsFor(i)' = sent /\ TasksOn(i)' = added
      BY <1>1, <1>3, <1>6, EnvMeans DEF ItemOK
    <3>2. \A o : Kept(o)' <=> Kept(o)
      BY <1>0 DEF Kept
    <3>3. Newest(t.change, i)' /\ Covers(t.change, i)'
      BY <1>0, <1>1, <1>6 DEF Newest, Covers
    <3>4. \A v \in added : v.change = t.change
      BY <1>2
    <3>5. \A o \in OwedOf(i) : Kept(o) /\ o.time <= now
      BY <3>1 DEF OwedAt
    <3>. QED BY <1>0, <1>4, <1>6, <3>1, <3>2, <3>3, <3>4, <3>5 DEF OwedAt
  <2>3. CreatedAt(i)'
    <3>. SUFFICES ASSUME AddCalm PROVE CreatedAt(i)'
      BY <1>0, EnvKept DEF CreatedAt
    <3>1. CreatedAt(i) /\ LeftOf(i)' = {}
      BY <1>1, <1>6, EnvMeans DEF ItemOK
    <3>2. \A r \in RequestsFor(i)' : ByUser(r) /\ ~IsAdd(r)
      BY <1>1, <1>4, <1>6 DEF IsAdd, Edits
    <3>3. \A v \in TasksOn(i)' : v.flag = "created" => server[i] = 0
      BY <1>2, <1>3, <3>1 DEF CreatedAt
    <3>4. cache[i].flag = "created" => server[i] = 0
      BY <1>1, <3>1 DEF CreatedAt
    <3>. QED BY <1>0, <3>1, <3>2, <3>3, <3>4 DEF CreatedAt
  <2>4. ServerAt(i)'
    <3>. SUFFICES ASSUME ServerCalm PROVE ServerAt(i)'
      BY <1>0, EnvKept DEF ServerAt, ServerCalm
    <3>1. ServerAt(i) /\ LeftOf(i)' = {} /\ sync = "idle" /\ RequestsFor(i)' = sent
          /\ TasksOn(i)' = added /\ TasksOn(i) = {t} /\ RequestsFor(i) = {}
      BY <1>1, <1>3, <1>6, EnvMeans DEF ItemOK, ServerCalm
    <3>2. ~Settling(i)
      BY <1>0, <3>1 DEF Settling
    <3>3. cache[i].flag = "none" => cache[i].time = server[i]
      BY <3>1, <3>2 DEF ServerAt
    <3>4. \A v \in added : v.then # "doModify"
      BY <1>2
    <3>. QED BY <1>0, <1>4, <3>1, <3>3, <3>4 DEF ServerAt
  <2>. QED BY <2>1, <2>2, <2>3, <2>4 DEF ItemOK
<1>8. \A j \in Item : j # i => ItemOK(j)'
  <2>1. \A r \in requests \cup requests' :
          r.change.item # i => (r \in requests' <=> r \in requests)
    BY <1>2, <1>4
  <2>. QED BY <1>0, <1>1, <1>3, <1>5, <2>1, OthersKept
<1>9. PlayersOK' /\ TurnsOK' /\ StagesOK'
  BY <1>0, <1>1, <1>2, <1>4, UserTurnKept
<1>10. QueueOK'
  BY <1>0, <1>3, EnvKept DEF QueueOK, ItemsApart
<1>. QED BY <1>5, <1>7, <1>8, <1>9, <1>10 DEF Inv

LEMMA DoModifyItemInv ==
  ASSUME Inv, DbCallback, NEW t, t = Head(db), DoModifyItem(t)
  PROVE  Inv'
<1>. PICK i : i = t.change.item
  OBVIOUS
<1>0. db # <<>> /\ t.flag # "unread" /\ t.then \in {"doModify", "doModifyOffline"}
      /\ owed' = owed /\ server' = server /\ now' = now /\ toAdd' = toAdd /\ sync' = sync
      /\ requests' = requests
      /\ UNCHANGED <<given, conflicts, disabled, playback, syncVars>> /\ offline' = offline
  BY DEF DbCallback, Completed, DoModifyItem, syncVars, status
<1>1. /\ i \in Item /\ t \in Task /\ t.change \in Edits /\ t \in TasksOn(i)
      /\ cache[i] \in Entry /\ ItemOK(i) /\ now \in Nat
      /\ Alone => /\ ~Busy /\ sync = "idle" /\ LeftOf(i) = {}
                  /\ \A r \in requests : ByUser(r)
      /\ Calm => /\ TasksOn(i) = {t} /\ RequestsFor(i) = {} /\ TaskOK(t, i)
      /\ supportsChangeLog /\ Calm /\ i \notin conflicts => Newest(t.change, i)
      /\ AddCalm => /\ \A r \in RequestsFor(i) : ByUser(r) /\ ~IsAdd(r)
                    /\ t.flag = "created" => server[i] = 0
  BY <1>0, CallbackItem, TypesMean DEF Inv
<1>. PICK u : u = ReadFlag("flagModified", t.change, t.by)
  OBVIOUS
<1>. PICK added : added = IF t.then = "doModify" THEN {} ELSE {u}
  OBVIOUS
<1>2. /\ u \in Task /\ u.change = t.change /\ u.flag = "unread" /\ u.then = "flagModified"
      /\ \A v \in added : v = u
      /\ (db' = Tail(db) /\ added = {}) \/ (db' = Append(Tail(db), u) /\ added = {u})
      /\ t.then # "doModify" => added = {u}
  BY <1>1 DEF ReadFlag, Task, DoModifyItem
<1>3. /\ db' \in Seq(Task)
      /\ \A v \in TasksOf(db) \cup TasksOf(db') :
           v.change.item # i => (v \in TasksOf(db') <=> v \in TasksOf(db))
      /\ TasksOn(i)' \subseteq TasksOn(i) \cup added
      /\ Calm => TasksOn(i)' = added /\ ItemsApart(db')
  <2>1. CASE db' = Tail(db) /\ added = {}
    <3>1. i = Head(db).change.item
      OBVIOUS
    <3>2. /\ db' \in Seq(Task)
          /\ \A v \in TasksOf(db) \cup TasksOf(db') :
               v.change.item # i => (v \in TasksOf(db') <=> v \in TasksOf(db))
          /\ TasksOn(i)' \subseteq TasksOn(i)
          /\ Calm => TasksOn(i)' = {} /\ ItemsApart(db')
      BY <1>0, <2>1, <3>1, CallbackEnds
    <3>. QED BY ONLY <2>1, <3>2
  <2>2. CASE db' = Append(Tail(db), u) /\ added = {u}
    <3>1. i = Head(db).change.item /\ u \in Task /\ u.change = Head(db).change
      BY <1>2, <2>2
    <3>2. /\ db' \in Seq(Task)
          /\ \A v \in TasksOf(db) \cup TasksOf(db') :
               v.change.item # i => (v \in TasksOf(db') <=> v \in TasksOf(db))
          /\ TasksOn(i)' \subseteq TasksOn(i) \cup {u}
          /\ Calm => TasksOn(i)' = {u} /\ ItemsApart(db')
      BY <1>0, <2>2, <3>1, CallbackGoesOn
    <3>. QED BY ONLY <2>2, <3>2
  <2>. QED BY <1>2, <2>1, <2>2
<1>4. cache' = [cache EXCEPT ![i] = Entries(t.change.time, t.flag)] /\ cache \in [Item -> Entry]
  BY DEF DoModifyItem, Inv, Types
<1>5. /\ cache'[i].time = t.change.time /\ cache'[i].flag = t.flag
      /\ \A j \in Item : j # i => cache'[j] = cache[j]
      /\ t.change.time # 0 /\ t.change.time \in Time /\ t.flag \in Flag
  BY <1>0, <1>1, <1>4 DEF Entries, Task, Edits, Dated, Change
<1>6. cache' \in [Item -> Entry]
  BY <1>4, <1>5 DEF Entries, Entry
<1>7. Types'
  <2>1. \A j \in Item : cache'[j].flag # "none" => cache'[j].time # 0
    BY <1>5 DEF Inv, Types
  <2>. QED BY <1>0, <1>3, <1>6, <2>1 DEF status, given, syncVars, Inv, Types
<1>8. RequestsFor(i)' = RequestsFor(i) /\ OwedOf(i)' = OwedOf(i)
      /\ LeftOf(i)' = LeftOf(i)
  BY <1>0 DEF RequestsFor, OwedOf, LeftOf
<1>9. Calm => t.flag = cache[i].flag /\ t.flag # "deleted" /\ t.change.kind = "modify"
              /\ (t.then = "doModify" => t.flag = "none")
  BY <1>0, <1>1 DEF TaskOK
<1>10. ItemOK(i)'
  <2>1. ApartAt(i)'
    <3>. SUFFICES ASSUME Calm PROVE ApartAt(i)'
      BY <1>0, EnvKept DEF ApartAt
    <3>1. \A v \in added : TaskOK(v, i)'
      BY <1>2, <1>5, <1>9 DEF TaskOK
    <3>. QED BY <1>1, <1>3, <1>8, <3>1 DEF ApartAt
  <2>2. OwedAt(i)'
    <3>. SUFFICES ASSUME supportsChangeLog, Calm, i \notin conflicts PROVE OwedAt(i)'
      BY <1>0, EnvKept DEF OwedAt
    <3>1. OwedAt(i) /\ LeftOf(i)' = {} /\ RequestsFor(i)' = {} /\ TasksOn(i)' = added
      BY <1>1, <1>3, <1>8, EnvMeans DEF ItemOK
    <3>2. \A o \in OwedOf(i) : Kept(o)' /\ o.time <= now
      <4>. SUFFICES ASSUME NEW o \in OwedOf(i) PROVE Kept(o)' /\ o.time <= now
        OBVIOUS
      <4>1. Kept(o) /\ o.time <= now /\ o.item = i /\ o.time <= t.change.time
        BY <1>1, <3>1 DEF OwedAt, OwedOf, Newest
      <4>. QED BY <1>5, <1>9, <4>1 DEF Kept
    <3>3. Newest(t.change, i)'
      BY <1>0, <1>1, <1>8 DEF Newest
    <3>. QED BY <1>0, <1>2, <1>8, <3>1, <3>2, <3>3 DEF OwedAt
  <2>3. CreatedAt(i)'
    <3>. SUFFICES ASSUME AddCalm PROVE CreatedAt(i)'
      BY <1>0, EnvKept DEF CreatedAt
    <3>1. CreatedAt(i) /\ LeftOf(i)' = {}
      BY <1>1, <1>8, EnvMeans DEF ItemOK
    <3>2. \A r \in RequestsFor(i)' : ByUser(r) /\ ~IsAdd(r)
      BY <1>1, <1>8
    <3>3. \A v \in TasksOn(i)' : v.flag = "created" => server[i] = 0
      BY <1>2, <1>3, <3>1 DEF CreatedAt
    <3>. QED BY <1>0, <1>1, <1>5, <3>1, <3>2, <3>3 DEF CreatedAt
  <2>4. ServerAt(i)'
    <3>. SUFFICES ASSUME ServerCalm PROVE ServerAt(i)'
      BY <1>0, EnvKept DEF ServerAt, ServerCalm
    <3>1. ServerAt(i) /\ LeftOf(i)' = {} /\ sync = "idle" /\ RequestsFor(i)' = {}
          /\ TasksOn(i)' = added /\ Calm
      BY <1>1, <1>3, <1>8, EnvMeans DEF ItemOK, ServerCalm
    <3>2. t.then = "doModify" => t.change.time = server[i]
      BY <1>1, <1>9, <3>1 DEF ServerAt, Taken
    <3>3. t.then # "doModify" => Settling(i)'
      BY <1>2, <3>1 DEF Settling
    <3>. QED BY <1>0, <1>2, <1>5, <3>1, <3>2, <3>3 DEF ServerAt
  <2>. QED BY <2>1, <2>2, <2>3, <2>4 DEF ItemOK
<1>11. \A j \in Item : j # i => ItemOK(j)'
  BY <1>0, <1>1, <1>3, <1>5, <1>7, OthersKept
<1>12. PlayersOK' /\ TurnsOK' /\ StagesOK'
  BY <1>0, <1>1, UserTurnKept
<1>13. QueueOK'
  BY <1>0, <1>3, EnvKept DEF QueueOK, ItemsApart
<1>. QED BY <1>7, <1>10, <1>11, <1>12, <1>13 DEF Inv

(* The change is made offline, and is owed: what becomes of the item when the
   flag of one of the two callbacks is set.                                *)
LEMMA FlagSetInv ==
  ASSUME Inv, DbCallback, NEW t, t = Head(db), FlagModified(t) \/ FlagDeleted(t)
  PROVE  Inv'
<1>. PICK i : i = t.change.item
  OBVIOUS
<1>0. db # <<>> /\ t.flag # "unread" /\ t.then \in {"flagModified", "flagDeleted"}
      /\ db' = Tail(db)
      /\ server' = server /\ now' = now /\ toAdd' = toAdd /\ sync' = sync
      /\ requests' = requests
      /\ UNCHANGED <<given, conflicts, disabled, playback, syncVars>> /\ offline' = offline
  BY DEF DbCallback, Completed, FlagModified, FlagDeleted, syncVars, status
<1>1. /\ i \in Item /\ t \in Task /\ t.change \in Edits /\ t \in TasksOn(i)
      /\ cache[i] \in Entry /\ ItemOK(i) /\ now \in Nat
      /\ Alone => /\ ~Busy /\ sync = "idle" /\ LeftOf(i) = {}
                  /\ \A r \in requests : ByUser(r)
      /\ Calm => /\ TasksOn(i) = {t} /\ RequestsFor(i) = {} /\ TaskOK(t, i)
      /\ supportsChangeLog /\ Calm /\ i \notin conflicts => Newest(t.change, i)
      /\ AddCalm => /\ \A r \in RequestsFor(i) : ByUser(r) /\ ~IsAdd(r)
                    /\ t.flag = "created" => server[i] = 0
                    /\ cache[i].flag = "created" => server[i] = 0
  BY <1>0, CallbackItem, TypesMean DEF Inv
<1>2. /\ db' \in Seq(Task)
      /\ \A v \in TasksOf(db) \cup TasksOf(db') :
           v.change.item # i => (v \in TasksOf(db') <=> v \in TasksOf(db))
      /\ TasksOn(i)' \subseteq TasksOn(i)
      /\ Calm => TasksOn(i)' = {} /\ ItemsApart(db')
  BY <1>0, CallbackEnds
<1>3. owed \subseteq Dated /\ t.change \in Dated /\ t.change.time \in Time
  BY <1>1 DEF Inv, Types, Edits, Dated, Change
<1>4. /\ cache' \in [Item -> Entry]
      /\ \A j \in Item : j # i => cache'[j] = cache[j]
      /\ \/ cache'[i] = cache[i]
         \/ /\ cache'[i].flag \in {"modified", "deleted"}
            /\ cache'[i].time = cache[i].time /\ cache[i].time # 0
         \/ cache'[i] = Absent /\ t.flag = "created"
      /\ Calm => /\ t.then = "flagModified" => /\ cache'[i].flag \in {"created", "modified"}
                                               /\ cache'[i].time = cache[i].time
                 /\ t.then = "flagDeleted" /\ t.flag # "created" => cache'[i].flag = "deleted"
                 /\ t.then = "flagDeleted" /\ t.flag = "created" => cache'[i] = Absent
  <2>0. cache \in [Item -> Entry] /\ cache[i].time \in Time
        /\ "modified" \in Flag /\ "deleted" \in Flag /\ Absent \in Entry
    BY <1>1, CacheAssumption
    DEF Inv, Types, Entry, Flag, OfflineFlag, Absent, Time, CacheAssumption
  <2>1. t.flag \in Flag /\ cache[i].flag \in Flag
    BY <1>0, <1>1 DEF Task, Entry
  <2>2. CASE FlagModified(t) /\ (t.flag \in {"created", "deleted"} \/ cache[i].time = 0)
    <3>1. cache' = cache /\ t.then = "flagModified"
      BY <2>2 DEF FlagModified
    <3>2. Calm => cache[i].flag = "created"
      BY <1>0, <1>1, <2>2 DEF TaskOK
    <3>. QED BY <1>1, <2>0, <3>1, <3>2
  <2>3. CASE FlagModified(t) /\ ~(t.flag \in {"created", "deleted"} \/ cache[i].time = 0)
    <3>1. cache' = [cache EXCEPT ![i].flag = "modified"] /\ t.then = "flagModified"
      BY <2>3 DEF FlagModified
    <3>. QED BY <1>1, <2>0, <2>3, <3>1 DEF Entry
  <2>4. CASE FlagDeleted(t) /\ t.flag = "created"
    <3>1. cache' = [cache EXCEPT ![i] = Absent] /\ t.then = "flagDeleted"
      BY <2>4 DEF FlagDeleted
    <3>. QED BY <1>1, <2>0, <2>4, <3>1
  <2>5. CASE FlagDeleted(t) /\ t.flag # "created" /\ (t.flag = "deleted" \/ cache[i].time = 0)
    <3>1. cache' = cache /\ t.then = "flagDeleted"
      BY <2>5 DEF FlagDeleted
    <3>2. ~Calm
      BY <1>0, <1>1, <2>5 DEF TaskOK
    <3>. QED BY <1>1, <2>0, <3>1, <3>2
  <2>6. CASE FlagDeleted(t) /\ t.flag # "created" /\ ~(t.flag = "deleted" \/ cache[i].time = 0)
    <3>1. cache' = [cache EXCEPT ![i].flag = "deleted"] /\ t.then = "flagDeleted"
      BY <2>6 DEF FlagDeleted
    <3>. QED BY <1>1, <2>0, <2>6, <3>1 DEF Entry
  <2>. QED BY <2>2, <2>3, <2>4, <2>5, <2>6
<1>5. /\ owed' \subseteq owed \cup {t.change}
      /\ \A o \in owed' : o.item # i => o \in owed
      /\ Newest(t.change, i) =>
           OwedOf(i)' = IF t.then = "flagDeleted" /\ t.flag = "created" THEN {} ELSE {t.change}
  <2>1. CASE t.then = "flagDeleted" /\ t.flag = "created"
    <3>1. owed' = owed \ SupersededBy(t.change)
      BY <2>1 DEF FlagModified, FlagDeleted
    <3>2. \A o \in OwedOf(i) : Newest(t.change, i) => o \in SupersededBy(t.change)
      BY DEF Newest, OwedOf, SupersededBy
    <3>. QED BY <2>1, <3>1, <3>2 DEF OwedOf
  <2>2. CASE ~(t.then = "flagDeleted" /\ t.flag = "created")
    <3>1. Owe(t.change)
      BY <2>2 DEF FlagModified, FlagDeleted
    <3>. QED BY <1>3, <2>2, <3>1, OweDoes
  <2>. QED BY <2>1, <2>2
<1>6. Types'
  <2>1. \A j \in Item : cache'[j].flag # "none" => cache'[j].time # 0
    BY <1>4 DEF Inv, Types, Absent
  <2>. QED BY <1>0, <1>2, <1>3, <1>4, <1>5, <2>1 DEF status, given, syncVars, Inv, Types
<1>7. RequestsFor(i)' = RequestsFor(i) /\ LeftOf(i)' = LeftOf(i)
  BY <1>0 DEF RequestsFor, LeftOf
<1>8. ItemOK(i)'
  <2>1. ApartAt(i)'
    <3>. SUFFICES ASSUME Calm PROVE ApartAt(i)'
      BY <1>0, EnvKept DEF ApartAt
    <3>. QED BY <1>1, <1>2, <1>7 DEF ApartAt
  <2>2. OwedAt(i)'
    <3>. SUFFICES ASSUME supportsChangeLog, Calm, i \notin conflicts PROVE OwedAt(i)'
      BY <1>0, EnvKept DEF OwedAt
    <3>1. LeftOf(i)' = {} /\ RequestsFor(i)' = {} /\ TasksOn(i)' = {}
      BY <1>1, <1>2, <1>7, EnvMeans
    <3>2. \A o \in OwedOf(i)' : o = t.change
                                /\ ~(t.then = "flagDeleted" /\ t.flag = "created")
      BY <1>1, <1>5
    <3>3. /\ t.change.item = i
          /\ t.then = "flagDeleted" => t.change.kind = "delete"
          /\ t.then = "flagModified" => /\ t.change.kind = "modify"
                                        /\ cache[i].time = t.change.time
      BY <1>1 DEF TaskOK
    <3>4. t.change.time <= now /\ t.change.time <= t.change.time
      BY <1>1, <1>3, CacheAssumption DEF Newest, Time, CacheAssumption
    <3>5. ~(t.then = "flagDeleted" /\ t.flag = "created") => Kept(t.change)'
      BY <1>0, <1>4, <3>3, <3>4 DEF Kept
    <3>. QED BY <1>0, <3>1, <3>2, <3>4, <3>5 DEF OwedAt
  <2>3. CreatedAt(i)'
    <3>. SUFFICES ASSUME AddCalm PROVE CreatedAt(i)'
      BY <1>0, EnvKept DEF CreatedAt
    <3>1. CreatedAt(i) /\ LeftOf(i)' = {}
      BY <1>1, <1>7, EnvMeans DEF ItemOK
    <3>2. \A r \in RequestsFor(i)' : ByUser(r) /\ ~IsAdd(r)
      BY <1>1, <1>7
    <3>3. \A v \in TasksOn(i)' : v.flag = "created" => server[i] = 0
      BY <1>2, <3>1 DEF CreatedAt
    <3>4. cache'[i].flag = "created" => server[i] = 0
      BY <1>1, <1>4 DEF Absent
    <3>. QED BY <1>0, <3>1, <3>2, <3>3, <3>4 DEF CreatedAt
  <2>4. ServerAt(i)'
    <3>. SUFFICES ASSUME ServerCalm PROVE ServerAt(i)'
      BY <1>0, EnvKept DEF ServerAt, ServerCalm
    <3>1. LeftOf(i)' = {} /\ sync = "idle" /\ RequestsFor(i)' = {} /\ TasksOn(i)' = {} /\ Calm
      BY <1>1, <1>2, <1>7, EnvMeans DEF ServerCalm
    <3>2. t.flag = "created" => server[i] = 0
      BY <1>1 DEF ServerCalm
    <3>. QED BY <1>0, <1>4, <3>1, <3>2 DEF ServerAt, Absent
  <2>. QED BY <2>1, <2>2, <2>3, <2>4 DEF ItemOK
<1>9. \A j \in Item : j # i => ItemOK(j)'
  BY <1>0, <1>1, <1>2, <1>4, <1>5, <1>6, OthersKept
<1>10. PlayersOK' /\ TurnsOK' /\ StagesOK'
  BY <1>0, <1>1, UserTurnKept
<1>11. QueueOK'
  BY <1>0, <1>2, EnvKept DEF QueueOK, ItemsApart
<1>. QED BY <1>6, <1>8, <1>9, <1>10, <1>11 DEF Inv

LEMMA DbCallbackInv ==
  ASSUME Inv, DbCallback
  PROVE  Inv'
<1>. PICK t : t = Head(db)
  OBVIOUS
<1>1. Route(t) \/ DoModifyItem(t) \/ FlagModified(t) \/ FlagDeleted(t)
  BY DEF DbCallback
<1>. QED BY <1>1, RouteInv, DoModifyItemInv, FlagSetInv

-----------------------------------------------------------------------------
(* The server.                                                             *)

(* What is known of the item of a request.                                 *)
LEMMA RequestItem ==
  ASSUME Inv, NEW r \in requests, NEW i, i = r.change.item
  PROVE  /\ i \in Item /\ r \in Asked /\ r.change \in Dated /\ r \in RequestsFor(i)
         /\ r.change.kind \in {"add", "modify", "delete"}
         /\ r.change.time \in Time /\ r.change.time # 0
         /\ ItemOK(i) /\ cache[i] \in Entry /\ server[i] \in Time
         /\ Alone /\ ByUser(r) => ~Busy /\ sync = "idle" /\ LeftOf(i) = {}
         /\ Calm => TasksOn(i) = {}
         /\ Calm /\ ByUser(r) => RequestsFor(i) = {r}
         /\ Single /\ ~ByUser(r) => /\ requests = {r} /\ TasksOn(i) = {}
                                    /\ sync \in {"idle", "playback"}
         /\ supportsChangeLog /\ Calm /\ i \notin conflicts =>
              /\ r.answer # "ok" => Covers(r.change, i)
              /\ r.answer = "ok" => OwedOf(i) = {}
              /\ ByUser(r) => Newest(r.change, i)
<1>1. Types /\ PlayersOK /\ TurnsOK /\ StagesOK
  BY DEF Inv
<1>2. r \in Asked
  BY <1>1 DEF Types
<1>3. r.change \in Dated /\ i \in Item /\ r.change.time \in Time /\ r.change.time # 0
      /\ r.change.kind \in {"add", "modify", "delete"}
  BY <1>2 DEF Asked, Dated, Change
<1>4. ItemOK(i) /\ cache[i] \in Entry /\ server[i] \in Time /\ r \in RequestsFor(i)
  BY <1>1, <1>3, TypesMean DEF Inv, RequestsFor
<1>5. Alone /\ ByUser(r) => ~Busy /\ sync = "idle" /\ LeftOf(i) = {}
  BY <1>1, <1>3, UserIsBusy, UserTurn
<1>6. Calm => TasksOn(i) = {} /\ (ByUser(r) => RequestsFor(i) = {r})
  BY <1>4 DEF ItemOK, ApartAt
<1>7. Single /\ ~ByUser(r) => /\ requests = {r} /\ TasksOn(i) = {}
                              /\ sync \in {"idle", "playback"}
  <2>. SUFFICES ASSUME Single, ~ByUser(r)
                PROVE  requests = {r} /\ TasksOn(i) = {} /\ sync \in {"idle", "playback"}
    OBVIOUS
  <2>1. r.by \in Player /\ playback[r.by] # Idle
    BY <1>1, <1>2 DEF PlayersOK, Asked, ByUser
  <2>2. db = <<>> /\ \A s \in requests : ~ByUser(s)
    BY <1>1, <2>1, EnvMeans DEF TurnsOK, Busy
  <2>3. \A s \in requests : s.by \in Player /\ playback[s.by] # Idle
    BY <1>1, <2>2 DEF PlayersOK, Types, Asked, ByUser
  <2>4. \A s \in requests : s.by = r.by
    BY <1>1, <2>1, <2>3 DEF StagesOK
  <2>5. requests = {r}
    BY <1>1, <2>4 DEF PlayersOK
  <2>6. sync \in {"idle", "playback"}
    BY <1>1, <2>1 DEF StagesOK
  <2>. QED BY <2>2, <2>5, <2>6, EmptyTasks DEF TasksOn
<1>8. supportsChangeLog /\ Calm /\ i \notin conflicts =>
        /\ r.answer # "ok" => Covers(r.change, i)
        /\ r.answer = "ok" => OwedOf(i) = {}
        /\ ByUser(r) => Newest(r.change, i)
  BY <1>4 DEF ItemOK, OwedAt
<1>. QED BY <1>2, <1>3, <1>4, <1>5, <1>6, <1>7, <1>8

(* An answer changes nothing but its request, on the side of the program.  *)
LEMMA AnswerKeeps ==
  ASSUME Inv, NEW r \in requests, NEW s \in Asked, s.by = r.by, s.change = r.change,
         requests' = (requests \ {r}) \cup {s},
         UNCHANGED serverIdle, server' \in [Item -> Time], owed' \subseteq owed,
         now' = now, conflicts' \subseteq Item
  PROVE  /\ Types' /\ PlayersOK' /\ TurnsOK' /\ StagesOK' /\ QueueOK'
         /\ RequestsFor(r.change.item)' = (RequestsFor(r.change.item) \ {r}) \cup {s}
         /\ \A i : TasksOn(i)' = TasksOn(i) /\ LeftOf(i)' = LeftOf(i)
<1>1. /\ UNCHANGED given /\ disabled' = disabled
      /\ offline' = offline /\ cache' = cache /\ db' = db
      /\ playback' = playback /\ loading' = loading /\ sync' = sync
      /\ mSyncQueue' = mSyncQueue /\ toAdd' = toAdd
      /\ env' = env /\ supportsChangeLog' = supportsChangeLog
  BY DEF serverIdle, syncVars, status, given
<1>2. Types'
  BY <1>1 DEF Inv, Types
<1>3. PlayersOK'
  <2>1. PlayersOK
    BY DEF Inv
  <2>2. \A t \in requests' : \E u \in requests :
          u.by = t.by /\ u.change = t.change /\ (t # s => u = t) /\ (t = s => u = r)
    OBVIOUS
  <2>. QED BY <1>1, <2>1, <2>2 DEF PlayersOK, ByUser
<1>4. TurnsOK'
  <2>1. (Alone' <=> Alone) /\ (Busy' <=> Busy)
    BY <1>1, EnvKept DEF Busy
  <2>. QED BY <1>1, <2>1 DEF Inv, TurnsOK, ByUser
<1>5. StagesOK' /\ QueueOK'
  BY <1>1, EnvKept DEF Inv, StagesOK, QueueOK
<1>6. /\ RequestsFor(r.change.item)' = (RequestsFor(r.change.item) \ {r}) \cup {s}
      /\ \A i : TasksOn(i)' = TasksOn(i) /\ LeftOf(i)' = LeftOf(i)
  BY <1>1 DEF RequestsFor, TasksOn, LeftOf
<1>. QED BY <1>2, <1>3, <1>4, <1>5, <1>6

LEMMA ServerTakesInv ==
  ASSUME Inv, NEW r \in requests, ServerTakes(r)
  PROVE  Inv'
<1>. PICK c : c = r.change
  OBVIOUS
<1>. PICK i : i = r.change.item
  OBVIOUS
<1>1. PICK answer \in {"ok", "unavailable"} :
        /\ Answered(r, answer) /\ (answer = "unavailable" => "answerLost" \in env)
        /\ conflicts' = conflicts \/ conflicts' = conflicts \cup {i}
  BY DEF ServerTakes
<1>. PICK s : s = [r EXCEPT !.answer = answer]
  OBVIOUS
<1>2. /\ i \in Item /\ r \in Asked /\ c \in Dated /\ r \in RequestsFor(i) /\ c.item = i
      /\ c.kind \in {"add", "modify", "delete"} /\ c.time \in Time /\ c.time # 0
      /\ ItemOK(i) /\ cache[i] \in Entry
      /\ Alone /\ ByUser(r) => ~Busy /\ sync = "idle" /\ LeftOf(i) = {}
      /\ Calm => TasksOn(i) = {}
      /\ Calm /\ ByUser(r) => RequestsFor(i) = {r}
      /\ Single /\ ~ByUser(r) => /\ requests = {r} /\ TasksOn(i) = {}
                                 /\ sync \in {"idle", "playback"}
      /\ supportsChangeLog /\ Calm /\ i \notin conflicts => (r.answer # "ok" => Covers(c, i))
  BY RequestItem
<1>3. /\ s \in Asked /\ s.by = r.by /\ s.change = c /\ s.answer = answer
      /\ (ByUser(s) <=> ByUser(r))
      /\ requests' = (requests \ {r}) \cup {s}
  BY <1>1, <1>2 DEF Asked, Answered, ByUser
<1>4. /\ r.answer = "waiting" /\ (c.kind = "add" <=> server[i] = 0)
      /\ server' = [server EXCEPT ![i] = IF c.kind = "delete" THEN 0 ELSE c.time]
      /\ owed' = {o \in owed : \/ o.item # i
                               \/ o.time > c.time /\ ~(o.kind = "delete" /\ c.kind = "delete")}
      /\ UNCHANGED serverIdle /\ now' = now
  BY DEF ServerTakes, CanTake
<1>5. server' \in [Item -> Time] /\ Taken(c, i)'
      /\ (c.kind # "delete" => server'[i] # 0) /\ (c.kind = "delete" => server'[i] = 0)
      /\ \A j \in Item : j # i => server'[j] = server[j]
  BY <1>2, <1>4, CacheAssumption DEF Inv, Types, Taken, Time, CacheAssumption
<1>6. /\ Types' /\ PlayersOK' /\ TurnsOK' /\ StagesOK' /\ QueueOK'
      /\ RequestsFor(i)' = (RequestsFor(i) \ {r}) \cup {s}
      /\ TasksOn(i)' = TasksOn(i) /\ LeftOf(i)' = LeftOf(i)
  <2>1. conflicts' \subseteq Item /\ owed' \subseteq owed
    BY <1>1, <1>2, <1>4 DEF Inv, Types
  <2>. QED BY <1>3, <1>4, <1>5, <2>1, AnswerKeeps
<1>7. UNCHANGED given /\ disabled' = disabled
      /\ cache' = cache /\ db' = db /\ playback' = playback
      /\ sync' = sync /\ toAdd' = toAdd /\ conflicts \subseteq conflicts'
  BY <1>1, <1>4 DEF serverIdle, syncVars
<1>8. ItemOK(i)'
  <2>1. ApartAt(i)'
    <3>. SUFFICES ASSUME Calm PROVE ApartAt(i)'
      BY <1>7, EnvKept DEF ApartAt
    <3>1. ApartAt(i) /\ TasksOn(i)' = {}
      BY <1>2, <1>6 DEF ItemOK
    <3>2. \A q \in RequestsFor(i) : ByUser(q) => q = r
      BY <1>2, <3>1 DEF ApartAt
    <3>. QED BY <1>2, <1>3, <1>6, <1>7, <3>1, <3>2 DEF ApartAt
  <2>2. OwedAt(i)'
    <3>. SUFFICES ASSUME supportsChangeLog, Calm, i \notin conflicts PROVE OwedAt(i)'
      BY <1>7, EnvKept DEF OwedAt
    <3>1. OwedAt(i) /\ Covers(c, i) /\ TasksOn(i)' = {}
      BY <1>2, <1>4, <1>6 DEF ItemOK
    <3>2. OwedOf(i)' = {}
      <4>1. \A o \in owed : o.time \in Int
        BY CacheAssumption DEF Inv, Types, Dated, Change, Time, CacheAssumption
      <4>2. c.time \in Int
        BY <1>2, CacheAssumption DEF Time, CacheAssumption
      <4>3. \A o \in owed : o.item = i =>
              o.time <= c.time \/ (o.kind = "delete" /\ c.kind = "delete")
        BY <3>1 DEF Covers, OwedOf
      <4>. QED BY <1>4, <4>1, <4>2, <4>3 DEF OwedOf
    <3>3. \A q : Covers(q, i)' /\ (Newest(q, i) => Newest(q, i)')
      BY <1>4, <3>2 DEF Covers, Newest
    <3>4. \A q \in RequestsFor(i)' : ByUser(q) => Newest(q.change, i)'
      <4>1. \A q \in RequestsFor(i) : ByUser(q) => Newest(q.change, i)
        BY <3>1 DEF OwedAt
      <4>. QED BY <1>2, <1>3, <1>6, <3>3, <4>1
    <3>. QED BY <3>1, <3>2, <3>3, <3>4 DEF OwedAt
  <2>3. CreatedAt(i)'
    <3>. SUFFICES ASSUME AddCalm PROVE CreatedAt(i)'
      BY <1>7, EnvKept DEF CreatedAt
    <3>1. CreatedAt(i) /\ answer = "ok" /\ Single /\ Alone
      BY <1>1, <1>2, EnvMeans DEF ItemOK
    <3>2. ByUser(r) => LeftOf(i) = {} /\ \A q \in requests : ByUser(q)
      BY <1>2, <3>1, UserTurn DEF Inv
    <3>3. \A q \in RequestsFor(i) : IsAdd(q) => q = r \/ RequestsFor(i) = {q} \/ requests = {r}
      BY <1>2, <3>1, <3>2 DEF CreatedAt, RequestsFor
    <3>4. \A q \in RequestsFor(i) : IsAdd(q) => q = r
      BY <1>2, <3>3 DEF RequestsFor
    <3>5. \A q \in RequestsFor(i)' : IsAdd(q) =>
            /\ q = s /\ IsAdd(r)
            /\ ByUser(q) => cache[i].time = 0 /\ TasksOn(i) = {} /\ RequestsFor(i)' = {s}
      BY <1>2, <1>3, <1>6, <3>1, <3>4 DEF CreatedAt, IsAdd
    <3>6. cache[i].flag = "created" /\ server'[i] # 0 =>
            \E q \in RequestsFor(i)' : ~ByUser(q) /\ IsAdd(q) /\ q.answer = "ok"
      <4>. SUFFICES ASSUME cache[i].flag = "created"
                    PROVE  server'[i] # 0 =>
                             s \in RequestsFor(i)' /\ ~ByUser(s) /\ IsAdd(s) /\ s.answer = "ok"
        OBVIOUS
      <4>1. server[i] = 0
        BY <1>4, <3>1, <3>4 DEF CreatedAt
      <4>2. IsAdd(r) /\ cache[i].time # 0
        BY <1>2, <1>4, <4>1 DEF IsAdd, Inv, Types
      <4>. QED BY <1>2, <1>3, <1>6, <3>1, <4>2 DEF CreatedAt, IsAdd
    <3>7. \A t \in TasksOn(i) : t.flag # "created"
      <4>. SUFFICES ASSUME NEW t \in TasksOn(i), t.flag = "created" PROVE FALSE
        OBVIOUS
      <4>1. IsAdd(r)
        BY <1>4, <3>1 DEF CreatedAt, IsAdd
      <4>. QED BY <1>2, <3>1, <4>1 DEF CreatedAt
    <3>8. \A d \in LeftOf(i) : d.kind # "add"
      BY <1>2, <3>1, <3>2 DEF CreatedAt
    <3>. QED BY <1>3, <1>6, <1>7, <3>1, <3>5, <3>6, <3>7, <3>8 DEF CreatedAt
  <2>4. ServerAt(i)'
    <3>. SUFFICES ASSUME ServerCalm PROVE ServerAt(i)'
      BY <1>7, EnvKept DEF ServerAt, ServerCalm
    <3>1. ServerAt(i) /\ answer = "ok" /\ Single /\ Alone /\ Calm
      BY <1>1, <1>2, EnvMeans DEF ItemOK, ServerCalm
    <3>2. RequestsFor(i) = {r} /\ RequestsFor(i)' = {s} /\ TasksOn(i)' = {} /\ LeftOf(i)' = {}
      BY <1>2, <1>6, <3>1 DEF ServerAt, ServerCalm, RequestsFor
    <3>3. sync # "adding"
      BY <1>2, <3>1
    <3>4. ~ByUser(r) => Cached(c, i) /\ cache[i].flag # "none"
      BY <1>2, <3>1 DEF ServerAt, ServerCalm, Cached
    <3>5. ByUser(r) => Settling(i)'
      BY <1>3, <3>1, <3>2 DEF Settling
    <3>6. Cached(c, i) => Cached(c, i)'
      BY <1>7 DEF Cached
    <3>7. \A q \in RequestsFor(i)' : /\ q.answer = "ok" => Taken(q.change, i)'
                                     /\ ~ByUser(q) => Cached(q.change, i)'
      BY <1>3, <1>5, <1>7, <3>1, <3>2, <3>4, <3>6 DEF ServerAt
    <3>8. cache'[i].flag = "none" /\ ~Settling(i)' => cache'[i].time = server'[i]
      BY <1>3, <1>5, <1>7, <3>1, <3>2, <3>3, <3>4, <3>5 DEF ServerAt
    <3>9. sync' # "adding"
      BY <1>7, <3>3
    <3>10. TasksOn(i)' = {} /\ LeftOf(i)' = {}
      BY <3>2
    <3>. QED BY <3>7, <3>8, <3>9, <3>10, Zenon DEF ServerAt
  <2>. QED BY <2>1, <2>2, <2>3, <2>4 DEF ItemOK
<1>9. \A j \in Item : j # i => ItemOK(j)'
  <2>1. now <= now'
    BY <1>4, TypesMean DEF Inv
  <2>2. \A j \in Item : j # i =>
          cache'[j] = cache[j] /\ server'[j] = server[j] /\ toAdd'[j] = toAdd[j]
    BY <1>5, <1>7
  <2>3. \A q \in requests \cup requests' :
          q.change.item # i => (q \in requests' <=> q \in requests)
    BY <1>2, <1>3
  <2>4. /\ \A t \in TasksOf(db) \cup TasksOf(db') :
             t.change.item # i => (t \in TasksOf(db') <=> t \in TasksOf(db))
        /\ \A p \in Player : \A d \in playback'[p].left :
             d.item # i => d \in playback[p].left
        /\ ServerCalm => ((sync' = "adding") <=> (sync = "adding"))
    BY <1>7
  <2>5. \A o \in owed' : o.item # i => o \in owed
    BY <1>4
  <2>6. Types' /\ UNCHANGED given /\ conflicts \subseteq conflicts' /\ i \in Item
    BY <1>2, <1>6, <1>7
  <2>. QED BY <2>1, <2>2, <2>3, <2>4, <2>5, <2>6, OthersKept
<1>. QED BY <1>6, <1>8, <1>9 DEF Inv

LEMMA ServerRefusesInv ==
  ASSUME Inv, NEW r \in requests, ServerRefuses(r)
  PROVE  Inv'
<1>. PICK i : i = r.change.item
  OBVIOUS
<1>1. PICK answer \in {"error", "unavailable"} : Answered(r, answer)
  BY DEF ServerRefuses
<1>. PICK s : s = [r EXCEPT !.answer = answer]
  OBVIOUS
<1>2. /\ i \in Item /\ r \in Asked /\ r \in RequestsFor(i) /\ ItemOK(i)
  BY RequestItem
<1>3. /\ s \in Asked /\ s.by = r.by /\ s.change = r.change /\ s.answer = answer
      /\ (ByUser(s) <=> ByUser(r)) /\ (IsAdd(s) <=> IsAdd(r))
      /\ requests' = (requests \ {r}) \cup {s}
  BY <1>1, <1>2 DEF Asked, Answered, ByUser, IsAdd
<1>4. /\ r.answer = "waiting" /\ server' = server /\ owed' = owed
      /\ UNCHANGED serverIdle /\ now' = now /\ conflicts' = conflicts
  BY DEF ServerRefuses
<1>5. /\ Types' /\ PlayersOK' /\ TurnsOK' /\ StagesOK' /\ QueueOK'
      /\ RequestsFor(i)' = (RequestsFor(i) \ {r}) \cup {s}
      /\ TasksOn(i)' = TasksOn(i) /\ LeftOf(i)' = LeftOf(i)
  <2>1. server' \in [Item -> Time] /\ owed' \subseteq owed /\ conflicts' \subseteq Item
    BY <1>4 DEF Inv, Types
  <2>. QED BY <1>3, <1>4, <2>1, AnswerKeeps
<1>6. UNCHANGED given /\ conflicts' = conflicts /\ disabled' = disabled
      /\ cache' = cache /\ db' = db /\ playback' = playback
      /\ sync' = sync /\ toAdd' = toAdd
  BY <1>4 DEF serverIdle, syncVars, status
<1>7. OwedOf(i)' = OwedOf(i)
  BY <1>4 DEF OwedOf
<1>8. ItemOK(i)'
  <2>1. ApartAt(i)'
    <3>. SUFFICES ASSUME Calm PROVE ApartAt(i)'
      BY <1>6, EnvKept DEF ApartAt
    <3>1. ApartAt(i)
      BY <1>2 DEF ItemOK
    <3>2. TasksOn(i)' = {}
      BY <1>2, <1>5, <3>1 DEF ApartAt
    <3>3. \A q \in RequestsFor(i) : ByUser(q) => q = r
      BY <1>2, <3>1 DEF ApartAt
    <3>. QED BY <1>2, <1>3, <1>5, <1>6, <3>1, <3>2, <3>3 DEF ApartAt
  <2>2. OwedAt(i)'
    <3>. SUFFICES ASSUME supportsChangeLog, Calm, i \notin conflicts PROVE OwedAt(i)'
      BY <1>6, EnvKept DEF OwedAt
    <3>1. OwedAt(i)
      BY <1>2 DEF ItemOK
    <3>2. \A q : (Newest(q, i)' <=> Newest(q, i)) /\ (Covers(q, i)' <=> Covers(q, i))
                 /\ (Kept(q)' <=> Kept(q))
      BY <1>4, <1>6, <1>7 DEF Newest, Covers, Kept
    <3>3. \A q \in RequestsFor(i)' :
            /\ ByUser(q) => Newest(q.change, i)
            /\ q.answer # "ok" => Covers(q.change, i)
            /\ q.answer = "ok" => OwedOf(i) = {}
      BY <1>2, <1>3, <1>4, <1>5, <3>1 DEF OwedAt
    <3>. QED BY <1>4, <1>5, <1>7, <3>1, <3>2, <3>3 DEF OwedAt
  <2>3. CreatedAt(i)'
    <3>. SUFFICES ASSUME AddCalm PROVE CreatedAt(i)'
      BY <1>6, EnvKept DEF CreatedAt
    <3>1. CreatedAt(i)
      BY <1>2 DEF ItemOK
    <3>2. \A q \in RequestsFor(i)' : IsAdd(q) =>
            /\ q.answer \in {"waiting", "unavailable"} => server[i] = 0
            /\ ByUser(q) => cache[i].time = 0 /\ TasksOn(i) = {} /\ RequestsFor(i)' = {q}
      BY <1>2, <1>3, <1>4, <1>5, <3>1 DEF CreatedAt
    <3>3. cache[i].flag = "created" /\ server[i] # 0 =>
            \E q \in RequestsFor(i)' : ~ByUser(q) /\ IsAdd(q) /\ q.answer = "ok"
      BY <1>4, <1>5, <3>1 DEF CreatedAt
    <3>4. \A d \in LeftOf(i) : d.kind = "add" => \A q \in RequestsFor(i)' : ByUser(q)
      BY <1>2, <1>3, <1>5, <3>1 DEF CreatedAt
    <3>. QED BY <1>4, <1>5, <1>6, <3>1, <3>2, <3>3, <3>4 DEF CreatedAt
  <2>4. ServerAt(i)'
    <3>. SUFFICES ASSUME ServerCalm PROVE ServerAt(i)'
      BY <1>6, EnvKept DEF ServerAt, ServerCalm
    <3>1. ServerAt(i)
      BY <1>2 DEF ItemOK
    <3>2. \A q : (Taken(q, i)' <=> Taken(q, i)) /\ (Cached(q, i)' <=> Cached(q, i))
      BY <1>4, <1>6 DEF Taken, Cached
    <3>3. \A q \in RequestsFor(i)' : /\ q.answer = "ok" => Taken(q.change, i)
                                     /\ ~ByUser(q) => Cached(q.change, i)
      BY <1>2, <1>3, <1>5, <3>1 DEF ServerAt
    <3>4. LeftOf(i) = {}
      BY <1>2, <3>1 DEF ServerAt
    <3>5. Settling(i)' <=> Settling(i)
      BY <1>2, <1>3, <1>4, <1>5 DEF Settling
    <3>. QED BY <1>4, <1>5, <1>6, <3>1, <3>2, <3>3, <3>4, <3>5 DEF ServerAt
  <2>. QED BY <2>1, <2>2, <2>3, <2>4 DEF ItemOK
<1>9. \A j \in Item : j # i => ItemOK(j)'
  <2>1. now <= now'
    BY <1>4, TypesMean DEF Inv
  <2>. QED BY <1>2, <1>3, <1>4, <1>5, <1>6, <2>1, OthersKept
<1>. QED BY <1>5, <1>8, <1>9 DEF Inv

(* What somebody else changes concerns the server only.                    *)
LEMMA OthersChangeInv ==
  ASSUME Inv, NEW i \in Item, OthersChange(i)
  PROVE  Inv'
<1>1. /\ now < MaxTime /\ now' = now + 1 /\ now \in Nat /\ now' \in 1..MaxTime /\ now <= now'
      /\ server' = [server EXCEPT ![i] = IF @ = 0 THEN now + 1 ELSE 0]
      /\ UNCHANGED <<serverIdle, requests, owed>>
      /\ conflicts' = conflicts \cup {i}
  BY CacheAssumption DEF OthersChange, Inv, Types, CacheAssumption
<1>2. /\ UNCHANGED given /\ disabled' = disabled /\ UNCHANGED <<playback, syncVars>>
      /\ offline' = offline /\ cache' = cache /\ db' = db /\ requests' = requests
      /\ owed' = owed /\ playback' = playback /\ loading' = loading /\ sync' = sync
      /\ mSyncQueue' = mSyncQueue /\ toAdd' = toAdd
      /\ env' = env /\ supportsChangeLog' = supportsChangeLog
  BY <1>1 DEF serverIdle, syncVars, status, given
<1>3. server' \in [Item -> Time] /\ \A j \in Item : j # i => server'[j] = server[j]
  BY <1>1, CacheAssumption DEF Inv, Types, Time, CacheAssumption
<1>4. Types'
  BY <1>1, <1>2, <1>3 DEF Inv, Types
<1>5. ~AddCalm
  BY EnvMeans DEF OthersChange
<1>6. RequestsFor(i)' = RequestsFor(i) /\ TasksOn(i)' = TasksOn(i) /\ LeftOf(i)' = LeftOf(i)
      /\ OwedOf(i)' = OwedOf(i)
  BY <1>2 DEF RequestsFor, TasksOn, LeftOf, OwedOf
<1>7. ItemOK(i) /\ ItemOK(i)'
  <2>1. ItemOK(i)
    BY DEF Inv
  <2>2. ApartAt(i)'
    BY <1>2, <1>6, <2>1, EnvKept DEF ItemOK, ApartAt, TaskOK
  <2>3. OwedAt(i)'
    BY <1>1 DEF OwedAt
  <2>4. CreatedAt(i)' /\ ServerAt(i)'
    BY <1>2, <1>5, EnvKept DEF CreatedAt, ServerAt, ServerCalm
  <2>. QED BY <2>1, <2>2, <2>3, <2>4 DEF ItemOK
<1>8. \A j \in Item : j # i => ItemOK(j)'
  BY <1>1, <1>2, <1>3, <1>4, OthersKept
<1>9. PlayersOK' /\ TurnsOK' /\ StagesOK' /\ QueueOK'
  <2>1. /\ Alone' <=> Alone
        /\ Busy' <=> Busy
    BY <1>2, EnvKept DEF Busy
  <2>2. PlayersOK'
    BY <1>2 DEF Inv, PlayersOK
  <2>3. TurnsOK'
    BY <1>2, <2>1 DEF Inv, TurnsOK
  <2>. QED BY <1>2, <2>2, <2>3, EnvKept DEF Inv, StagesOK, QueueOK
<1>. QED BY <1>4, <1>7, <1>8, <1>9 DEF Inv

(* The user's request is answered and forgotten.                           *)
LEMMA UserAnsweredItem ==
  ASSUME Inv, NEW r \in requests, UserAnswered(r), NEW i, i = r.change.item
  PROVE  /\ ByUser(r) /\ r.answer \in {"ok", "error", "unavailable"}
         /\ requests' = requests \ {r} /\ requests' \subseteq Asked
         /\ UNCHANGED given /\ conflicts' = conflicts /\ disabled' = disabled
         /\ UNCHANGED <<given, conflicts, disabled, playback, syncVars>>
         /\ env' = env /\ supportsChangeLog' = supportsChangeLog
         /\ offline' = offline /\ now' = now /\ server' = server
         /\ playback' = playback /\ loading' = loading /\ sync' = sync
         /\ mSyncQueue' = mSyncQueue /\ toAdd' = toAdd
         /\ RequestsFor(i)' = RequestsFor(i) \ {r} /\ LeftOf(i)' = LeftOf(i)
         /\ Calm => RequestsFor(i)' = {} /\ TasksOn(i) = {}
         /\ Alone => ~Busy /\ sync = "idle" /\ LeftOf(i) = {}
         /\ PlayersOK' /\ TurnsOK' /\ StagesOK'
         /\ \A q \in requests \cup requests' :
              q.change.item # i => (q \in requests' <=> q \in requests)
<1>1. /\ ByUser(r) /\ r.answer \in {"ok", "error", "unavailable"}
      /\ requests' = requests \ {r} /\ requests' \subseteq Asked
  BY RequestItem DEF UserAnswered, ByUser, Inv, Types, Asked
<1>2. /\ UNCHANGED given /\ conflicts' = conflicts /\ disabled' = disabled
      /\ UNCHANGED <<given, conflicts, disabled, playback, syncVars>>
      /\ env' = env /\ supportsChangeLog' = supportsChangeLog
      /\ offline' = offline /\ now' = now /\ server' = server
      /\ playback' = playback /\ loading' = loading /\ sync' = sync
      /\ mSyncQueue' = mSyncQueue /\ toAdd' = toAdd
  BY DEF UserAnswered, syncVars, status, given
<1>3. RequestsFor(i)' = RequestsFor(i) \ {r} /\ LeftOf(i)' = LeftOf(i)
  BY <1>1, <1>2 DEF RequestsFor, LeftOf
<1>4. /\ Alone => ~Busy /\ sync = "idle" /\ LeftOf(i) = {}
      /\ Calm => TasksOn(i) = {} /\ RequestsFor(i) = {r}
  BY <1>1, RequestItem
<1>5. PlayersOK' /\ TurnsOK' /\ StagesOK'
  BY <1>1, <1>2, <1>4, UserTurnKept
<1>. QED BY <1>1, <1>2, <1>3, <1>4, <1>5

(* A request that failed leaves things as they are.                        *)
LEMMA UserRefusedInv ==
  ASSUME Inv, NEW r \in requests, UserAnswered(r), r.answer = "error",
         UNCHANGED <<cache, db, owed>>
  PROVE  Inv'
<1>. PICK i : i = r.change.item
  OBVIOUS
<1>1. /\ ByUser(r) /\ r.answer \in {"ok", "error", "unavailable"}
      /\ requests' = requests \ {r} /\ requests' \subseteq Asked
      /\ UNCHANGED given /\ conflicts' = conflicts /\ disabled' = disabled
      /\ env' = env /\ supportsChangeLog' = supportsChangeLog
      /\ offline' = offline /\ now' = now /\ server' = server
      /\ playback' = playback /\ loading' = loading /\ sync' = sync
      /\ mSyncQueue' = mSyncQueue /\ toAdd' = toAdd
      /\ RequestsFor(i)' = RequestsFor(i) \ {r} /\ LeftOf(i)' = LeftOf(i)
      /\ Calm => RequestsFor(i)' = {} /\ TasksOn(i) = {}
      /\ Alone => ~Busy /\ sync = "idle" /\ LeftOf(i) = {}
      /\ PlayersOK' /\ TurnsOK' /\ StagesOK'
      /\ \A q \in requests \cup requests' :
           q.change.item # i => (q \in requests' <=> q \in requests)
  BY UserAnsweredItem
<1>2. i \in Item /\ ItemOK(i) /\ now \in Nat /\ cache' = cache /\ db' = db /\ owed' = owed
  BY RequestItem, TypesMean DEF Inv
<1>3. Types'
  BY <1>1, <1>2 DEF Inv, Types
<1>4. TasksOn(i)' = TasksOn(i) /\ OwedOf(i)' = OwedOf(i)
  BY <1>2 DEF TasksOn, OwedOf
<1>5. QueueOK'
  BY <1>1, <1>2, EnvKept DEF Inv, QueueOK
<1>6. ItemOK(i)'
  <2>1. ApartAt(i)'
    BY <1>1, <1>2, <1>4, EnvKept DEF ItemOK, ApartAt, TaskOK
  <2>2. OwedAt(i)'
    <3>. SUFFICES ASSUME supportsChangeLog, Calm, i \notin conflicts PROVE OwedAt(i)'
      BY <1>1, EnvKept DEF OwedAt
    <3>1. OwedAt(i)
      BY <1>2 DEF ItemOK
    <3>2. \A o : Kept(o)' <=> Kept(o)
      BY <1>2 DEF Kept
    <3>. QED BY <1>1, <1>2, <1>4, <3>1, <3>2, EnvMeans DEF OwedAt
  <2>3. CreatedAt(i)'
    <3>. SUFFICES ASSUME AddCalm PROVE CreatedAt(i)'
      BY <1>1, EnvKept DEF CreatedAt
    <3>1. CreatedAt(i) /\ LeftOf(i)' = {}
      BY <1>1, <1>2, EnvMeans DEF ItemOK
    <3>. QED BY <1>1, <1>2, <1>4, <3>1 DEF CreatedAt
  <2>4. ServerAt(i)'
    <3>. SUFFICES ASSUME ServerCalm PROVE ServerAt(i)'
      BY <1>1, EnvKept DEF ServerAt, ServerCalm
    <3>1. ServerAt(i) /\ LeftOf(i)' = {} /\ RequestsFor(i)' = {} /\ TasksOn(i)' = {}
          /\ TasksOn(i) = {} /\ sync = "idle" /\ RequestsFor(i) = {r}
      BY <1>1, <1>2, <1>4, RequestItem, EnvMeans DEF ItemOK, ServerCalm
    <3>2. ~Settling(i)
      BY <3>1 DEF Settling
    <3>. QED BY <1>1, <1>2, <3>1, <3>2 DEF ServerAt
  <2>. QED BY <2>1, <2>2, <2>3, <2>4 DEF ItemOK
<1>7. \A j \in Item : j # i => ItemOK(j)'
  BY <1>1, <1>2, <1>3, OthersKept
<1>. QED BY <1>1, <1>3, <1>5, <1>6, <1>7 DEF Inv

(* adoptItem's listener.                                                   *)
LEMMA AddAnsweredInv ==
  ASSUME Inv, NEW r \in requests, UserAnswered(r), AddAnswered(r)
  PROVE  Inv'
<1>. PICK c : c = r.change
  OBVIOUS
<1>. PICK i : i = r.change.item
  OBVIOUS
<1>1. /\ ByUser(r) /\ r.answer \in {"ok", "error", "unavailable"}
      /\ requests' = requests \ {r} /\ requests' \subseteq Asked
      /\ UNCHANGED given /\ conflicts' = conflicts /\ disabled' = disabled
      /\ env' = env /\ supportsChangeLog' = supportsChangeLog
      /\ offline' = offline /\ now' = now /\ server' = server
      /\ playback' = playback /\ loading' = loading /\ sync' = sync
      /\ mSyncQueue' = mSyncQueue /\ toAdd' = toAdd
      /\ RequestsFor(i)' = RequestsFor(i) \ {r} /\ LeftOf(i)' = LeftOf(i)
      /\ Calm => RequestsFor(i)' = {} /\ TasksOn(i) = {}
      /\ Alone => ~Busy /\ sync = "idle" /\ LeftOf(i) = {}
      /\ PlayersOK' /\ TurnsOK' /\ StagesOK'
      /\ \A q \in requests \cup requests' :
           q.change.item # i => (q \in requests' <=> q \in requests)
  BY UserAnsweredItem
<1>2. /\ i \in Item /\ r \in Asked /\ c \in Dated /\ c \in Change /\ c.item = i
      /\ r \in RequestsFor(i) /\ c.time \in Time /\ c.time # 0 /\ ItemOK(i) /\ now \in Nat
      /\ supportsChangeLog /\ Calm /\ i \notin conflicts => /\ r.answer # "ok" => Covers(c, i)
                                                            /\ r.answer = "ok" => OwedOf(i) = {}
                                                            /\ Newest(c, i)
  BY <1>1, RequestItem, TypesMean DEF Dated, Inv
<1>3. db' = db /\ c.kind = "add" /\ IsAdd(r)
  BY DEF AddAnswered, IsAdd
<1>4. TasksOn(i)' = TasksOn(i)
  BY <1>3 DEF TasksOn
<1>5. AddCalm => /\ r.answer = "unavailable" => server[i] = 0
                 /\ cache[i].time = 0 /\ TasksOn(i) = {} /\ RequestsFor(i)' = {}
  BY <1>1, <1>2, <1>3 DEF ItemOK, CreatedAt
<1>6. QueueOK'
  BY <1>1, <1>3, EnvKept DEF Inv, QueueOK
<1>7. CASE r.answer = "unavailable"
  <2>1. AdoptOfflineItem(c) /\ cache' = [cache EXCEPT ![i] = Entries(c.time, "created")] /\ Owe(c)
    BY <1>2, <1>7 DEF AddAnswered, AdoptOfflineItem
  <2>2. owed' \subseteq owed \cup {c} /\ \A o \in owed' : o.item # i => o \in owed
    BY <1>2, <2>1, OweDoes DEF Inv, Types
  <2>3. Types'
    <3>1. /\ cache' \in [Item -> Entry]
          /\ \A j \in Item : cache'[j].flag # "none" => cache'[j].time # 0
      BY <1>2, <2>1 DEF Inv, Types, Entries, Entry, Flag, OfflineFlag
    <3>. QED BY <1>1, <1>2, <1>3, <2>2, <3>1 DEF Inv, Types
  <2>4. ItemOK(i)'
    <3>1. supportsChangeLog /\ Calm /\ i \notin conflicts => /\ c.time <= now'
                                                             /\ \A o \in OwedOf(i) : o.time <= c.time
      BY <1>1, <1>2 DEF Newest
    <3>2. Calm \/ AddCalm => TasksOn(i) = {} /\ RequestsFor(i)' = {}
      BY <1>1, <1>5
    <3>3. LeftOf(i)' = {} \/ ~Alone
      BY <1>1
    <3>4. AddCalm => server[i] = 0
      BY <1>5, <1>7
    <3>5. Alone => sync = "idle"
      BY <1>1
    <3>6. UNCHANGED given /\ conflicts' = conflicts /\ disabled' = disabled
          /\ server' = server /\ db' = db /\ sync' = sync
      BY <1>1, <1>3
    <3>. QED BY <1>2, <1>3, <2>1, <2>3, <3>1, <3>2, <3>3, <3>4, <3>5, <3>6, AdoptedOK
  <2>5. \A j \in Item : j # i => ItemOK(j)'
    <3>1. \A j \in Item : j # i =>
            cache'[j] = cache[j] /\ server'[j] = server[j] /\ toAdd'[j] = toAdd[j]
      BY <1>1, <2>1 DEF Inv, Types
    <3>. QED BY <1>1, <1>2, <1>3, <2>2, <2>3, <3>1, OthersKept
  <2>. QED BY <1>1, <1>6, <2>3, <2>4, <2>5 DEF Inv
<1>8. CASE r.answer = "ok"
  <2>1. cache' = [cache EXCEPT ![i] = Entries(c.time, "none")] /\ owed' = owed
    BY <1>8 DEF AddAnswered
  <2>2. Types'
    <3>1. /\ cache' \in [Item -> Entry]
          /\ \A j \in Item : cache'[j].flag # "none" => cache'[j].time # 0
      BY <1>2, <2>1 DEF Inv, Types, Entries, Entry, Flag, OfflineFlag
    <3>. QED BY <1>1, <1>3, <2>1, <3>1 DEF Inv, Types
  <2>3. cache'[i].flag = "none" /\ cache'[i].time = c.time
        /\ \A j \in Item : j # i => cache'[j] = cache[j]
    BY <1>2, <2>1 DEF Inv, Types, Entries
  <2>4. ItemOK(i)'
    <3>1. Calm => RequestsFor(i)' = {} /\ TasksOn(i)' = {} /\ LeftOf(i)' = {}
      BY <1>1, <1>4, EnvMeans
    <3>2. AddCalm => RequestsFor(i)' = {} /\ TasksOn(i)' = {} /\ LeftOf(i)' = {}
      BY <1>1, <1>4, <1>5, EnvMeans
    <3>3. ApartAt(i)'
      BY <1>1, <3>1, EnvKept DEF ApartAt
    <3>4. OwedAt(i)'
      <4>1. supportsChangeLog /\ Calm /\ i \notin conflicts => OwedOf(i)' = {}
        BY <1>2, <1>8, <2>1 DEF OwedOf
      <4>. QED BY <1>1, <3>1, <4>1, EnvKept DEF OwedAt
    <3>5. CreatedAt(i)'
      BY <1>1, <2>3, <3>2, EnvKept DEF CreatedAt
    <3>6. ServerAt(i)'
      <4>1. ServerCalm => c.time = server[i] /\ sync = "idle"
        BY <1>1, <1>2, <1>3, <1>8, EnvMeans DEF ItemOK, ServerAt, Taken, ServerCalm
      <4>. QED BY <1>1, <2>3, <3>2, <4>1, EnvKept DEF ServerAt, ServerCalm
    <3>. QED BY <3>3, <3>4, <3>5, <3>6 DEF ItemOK
  <2>5. \A j \in Item : j # i => ItemOK(j)'
    BY <1>1, <1>2, <1>3, <2>1, <2>2, <2>3, OthersKept
  <2>. QED BY <1>1, <1>6, <2>2, <2>4, <2>5 DEF Inv
<1>9. CASE r.answer = "error"
  BY <1>3, <1>9, UserRefusedInv DEF AddAnswered
<1>. QED BY <1>1, <1>7, <1>8, <1>9

(* What the listeners of modifyItem and deleteItem have the storage calendar do. *)
LEMMA TaskBegunInv ==
  ASSUME Inv, NEW r \in requests, UserAnswered(r), UNCHANGED <<cache, owed>>,
         NEW then, then \in {"doModify", "doModifyOffline", "flagDeleted"},
         db' = Append(db, ReadFlag(then, r.change, "user")),
         r.change.kind = IF then = "flagDeleted" THEN "delete" ELSE "modify",
         r.answer = IF then = "doModify" THEN "ok" ELSE "unavailable"
  PROVE  Inv'
<1>. PICK i : i = r.change.item
  OBVIOUS
<1>1. /\ ByUser(r) /\ r.answer \in {"ok", "error", "unavailable"}
      /\ requests' = requests \ {r} /\ requests' \subseteq Asked
      /\ UNCHANGED given /\ conflicts' = conflicts /\ disabled' = disabled
      /\ env' = env /\ supportsChangeLog' = supportsChangeLog
      /\ offline' = offline /\ now' = now /\ server' = server
      /\ playback' = playback /\ loading' = loading /\ sync' = sync
      /\ mSyncQueue' = mSyncQueue /\ toAdd' = toAdd
      /\ RequestsFor(i)' = RequestsFor(i) \ {r} /\ LeftOf(i)' = LeftOf(i)
      /\ Calm => RequestsFor(i)' = {} /\ TasksOn(i) = {}
      /\ Alone => ~Busy /\ sync = "idle" /\ LeftOf(i) = {}
      /\ PlayersOK' /\ TurnsOK' /\ StagesOK'
      /\ \A q \in requests \cup requests' :
           q.change.item # i => (q \in requests' <=> q \in requests)
  BY ONLY Inv, r \in requests, UserAnswered(r), i = r.change.item, UserAnsweredItem
<1>. PICK c : c = r.change
  OBVIOUS
<1>. PICK t : t = ReadFlag(then, c, "user")
  OBVIOUS
<1>2. /\ i \in Item /\ c \in Edits /\ c.item = i /\ r \in RequestsFor(i) /\ ItemOK(i)
      /\ now \in Nat /\ cache' = cache /\ owed' = owed
      /\ Calm => RequestsFor(i) = {r}
      /\ supportsChangeLog /\ Calm /\ i \notin conflicts => Newest(c, i)
  BY <1>1, RequestItem, TypesMean DEF Inv, Edits
<1>3. t \in Task /\ t.change = c /\ t.then = then /\ t.flag = "unread" /\ db' = Append(db, t)
  BY <1>2 DEF ReadFlag, Task
<1>4. /\ db' \in Seq(Task) /\ TasksOf(db)' = TasksOf(db) \cup {t}
      /\ Calm => ItemsApart(db)'
  <2>1. Calm => \A u \in TasksOf(db) : u.change.item # t.change.item
    BY <1>1, <1>2, <1>3 DEF TasksOn
  <2>2. db \in Seq(Task) /\ (Calm => ItemsApart(db))
    BY DEF Inv, Types, QueueOK
  <2>3. TasksOf(db') = TasksOf(db) \cup {t} /\ db' \in Seq(Task)
        /\ (Calm => ItemsApart(db'))
    BY <1>3, <2>1, <2>2, AppendTasks
  <2>. QED BY <2>3 DEF TasksOf, ItemsApart
<1>5. Types'
  BY <1>1, <1>2, <1>4 DEF Inv, Types
<1>6. TasksOn(i)' = TasksOn(i) \cup {t} /\ OwedOf(i)' = OwedOf(i)
  BY <1>2, <1>3, <1>4 DEF TasksOn, OwedOf
<1>7. ItemOK(i)'
  <2>1. ApartAt(i)'
    <3>. SUFFICES ASSUME Calm PROVE ApartAt(i)'
      BY <1>1, EnvKept DEF ApartAt
    <3>1. cache[i].time # 0 /\ cache[i].flag = "none"
      BY <1>1, <1>2 DEF ItemOK, ApartAt
    <3>2. TaskOK(t, i)'
      BY <1>2, <1>3, <3>1 DEF TaskOK
    <3>. QED BY <1>1, <1>6, <3>2 DEF ApartAt
  <2>2. OwedAt(i)'
    <3>. SUFFICES ASSUME supportsChangeLog, Calm, i \notin conflicts PROVE OwedAt(i)'
      BY <1>1, EnvKept DEF OwedAt
    <3>1. OwedAt(i) /\ LeftOf(i)' = {}
      BY <1>1, <1>2, EnvMeans DEF ItemOK
    <3>2. \A o : Kept(o)' <=> Kept(o)
      BY <1>2 DEF Kept
    <3>3. Newest(c, i)'
      BY <1>1, <1>2, <1>6 DEF Newest
    <3>. QED BY <1>1, <1>2, <1>3, <1>6, <3>1, <3>2, <3>3 DEF OwedAt
  <2>3. CreatedAt(i)'
    <3>. SUFFICES ASSUME AddCalm PROVE CreatedAt(i)'
      BY <1>1, EnvKept DEF CreatedAt
    <3>1. CreatedAt(i) /\ LeftOf(i)' = {}
      BY <1>1, <1>2, EnvMeans DEF ItemOK
    <3>2. \A q \in RequestsFor(i) : ~(ByUser(q) /\ IsAdd(q))
      BY <1>1, <1>2, <3>1 DEF CreatedAt, IsAdd, Edits
    <3>3. \A v \in TasksOn(i)' : v.flag = "created" => server[i] = 0
      BY <1>3, <1>6, <3>1 DEF CreatedAt
    <3>. QED BY <1>1, <1>2, <3>1, <3>2, <3>3 DEF CreatedAt
  <2>4. ServerAt(i)'
    <3>. SUFFICES ASSUME ServerCalm PROVE ServerAt(i)'
      BY <1>1, EnvKept DEF ServerAt, ServerCalm
    <3>1. ServerAt(i) /\ LeftOf(i)' = {} /\ RequestsFor(i)' = {} /\ TasksOn(i)' = {t}
          /\ sync = "idle"
      BY <1>1, <1>2, <1>6, EnvMeans DEF ItemOK, ServerCalm
    <3>2. Settling(i)'
      BY <1>3, <3>1 DEF Settling
    <3>3. then = "doModify" => Taken(c, i)'
      BY <1>1, <1>2, <3>1 DEF ServerAt, Taken
    <3>. QED BY <1>1, <1>3, <3>1, <3>2, <3>3 DEF ServerAt
  <2>. QED BY <2>1, <2>2, <2>3, <2>4 DEF ItemOK
<1>8. \A j \in Item : j # i => ItemOK(j)'
  <2>1. \A v \in TasksOf(db) \cup TasksOf(db') :
          v.change.item # i => (v \in TasksOf(db') <=> v \in TasksOf(db))
    BY <1>2, <1>3, <1>4 DEF TasksOf
  <2>. QED BY <1>1, <1>2, <1>5, <2>1, OthersKept
<1>9. QueueOK'
  BY <1>1, <1>4, EnvKept DEF QueueOK
<1>. QED BY <1>1, <1>5, <1>7, <1>8, <1>9 DEF Inv

(* deleteItem's listener, when the server deleted the item.                *)
LEMMA DeletedInv ==
  ASSUME Inv, NEW r \in requests, UserAnswered(r), UNCHANGED <<db, owed>>,
         r.change.kind = "delete", r.answer = "ok",
         cache' = [cache EXCEPT ![r.change.item] = Absent]
  PROVE  Inv'
<1>. PICK i : i = r.change.item
  OBVIOUS
<1>1. /\ ByUser(r) /\ r.answer \in {"ok", "error", "unavailable"}
      /\ requests' = requests \ {r} /\ requests' \subseteq Asked
      /\ UNCHANGED given /\ conflicts' = conflicts /\ disabled' = disabled
      /\ env' = env /\ supportsChangeLog' = supportsChangeLog
      /\ offline' = offline /\ now' = now /\ server' = server
      /\ playback' = playback /\ loading' = loading /\ sync' = sync
      /\ mSyncQueue' = mSyncQueue /\ toAdd' = toAdd
      /\ RequestsFor(i)' = RequestsFor(i) \ {r} /\ LeftOf(i)' = LeftOf(i)
      /\ Calm => RequestsFor(i)' = {} /\ TasksOn(i) = {}
      /\ Alone => ~Busy /\ sync = "idle" /\ LeftOf(i) = {}
      /\ PlayersOK' /\ TurnsOK' /\ StagesOK'
      /\ \A q \in requests \cup requests' :
           q.change.item # i => (q \in requests' <=> q \in requests)
  BY UserAnsweredItem
<1>2. /\ i \in Item /\ r \in RequestsFor(i) /\ ItemOK(i)
      /\ now \in Nat /\ db' = db /\ owed' = owed
      /\ supportsChangeLog /\ Calm /\ i \notin conflicts => OwedOf(i) = {}
      /\ Calm => RequestsFor(i) = {r}
  BY <1>1, RequestItem, TypesMean DEF Inv
<1>3. /\ cache' \in [Item -> Entry] /\ cache'[i] = Absent
      /\ \A j \in Item : j # i => cache'[j] = cache[j]
  BY <1>2, CacheAssumption
  DEF Inv, Types, Entry, Absent, Flag, Time, CacheAssumption
<1>4. Types'
  <2>1. \A j \in Item : cache'[j].flag # "none" => cache'[j].time # 0
    BY <1>3 DEF Inv, Types, Absent
  <2>. QED BY <1>1, <1>2, <1>3, <2>1 DEF Inv, Types
<1>5. TasksOn(i)' = TasksOn(i) /\ OwedOf(i)' = OwedOf(i)
  BY <1>2 DEF TasksOn, OwedOf
<1>6. QueueOK'
  BY <1>1, <1>2, EnvKept DEF Inv, QueueOK
<1>7. ItemOK(i)'
  <2>1. ApartAt(i)'
    BY <1>1, <1>5, EnvKept DEF ApartAt
  <2>2. OwedAt(i)'
    <3>. SUFFICES ASSUME supportsChangeLog, Calm, i \notin conflicts PROVE OwedAt(i)'
      BY <1>1, EnvKept DEF OwedAt
    <3>. QED BY <1>1, <1>2, <1>5, EnvMeans DEF OwedAt
  <2>3. CreatedAt(i)'
    <3>. SUFFICES ASSUME AddCalm PROVE CreatedAt(i)'
      BY <1>1, EnvKept DEF CreatedAt
    <3>1. CreatedAt(i) /\ LeftOf(i)' = {}
      BY <1>1, <1>2, EnvMeans DEF ItemOK
    <3>. QED BY <1>1, <1>3, <1>5, <3>1 DEF CreatedAt, Absent
  <2>4. ServerAt(i)'
    <3>. SUFFICES ASSUME ServerCalm PROVE ServerAt(i)'
      BY <1>1, EnvKept DEF ServerAt, ServerCalm
    <3>1. ServerAt(i) /\ LeftOf(i)' = {} /\ RequestsFor(i)' = {} /\ TasksOn(i)' = {}
          /\ sync = "idle"
      BY <1>1, <1>2, <1>5, EnvMeans DEF ItemOK, ServerCalm
    <3>2. server[i] = 0
      BY <1>2, <3>1 DEF ServerAt, Taken
    <3>. QED BY <1>1, <1>3, <3>1, <3>2 DEF ServerAt, Absent
  <2>. QED BY <2>1, <2>2, <2>3, <2>4 DEF ItemOK
<1>8. \A j \in Item : j # i => ItemOK(j)'
  BY <1>1, <1>2, <1>3, <1>4, OthersKept
<1>. QED BY <1>1, <1>4, <1>6, <1>7, <1>8 DEF Inv

LEMMA UserAnsweredInv ==
  ASSUME Inv, NEW r \in requests, UserAnswered(r)
  PROVE  Inv'
<1>1. r.answer \in {"ok", "error", "unavailable"}
  <2>. PICK i : i = r.change.item
    OBVIOUS
  <2>. QED BY UserAnsweredItem
<1>2. CASE AddAnswered(r)
  BY <1>2, AddAnsweredInv
<1>3. CASE ModifyAnswered(r)
  <2>1. CASE r.answer = "error"
    BY <1>3, <2>1, UserRefusedInv DEF ModifyAnswered
  <2>2. CASE r.answer = "ok"
    BY <1>3, <2>2, TaskBegunInv DEF ModifyAnswered
  <2>3. CASE r.answer = "unavailable"
    BY <1>3, <2>3, TaskBegunInv DEF ModifyAnswered
  <2>. QED BY <1>1, <2>1, <2>2, <2>3
<1>4. CASE DeleteAnswered(r)
  <2>1. CASE r.answer = "error"
    BY <1>4, <2>1, UserRefusedInv DEF DeleteAnswered
  <2>2. CASE r.answer = "ok"
    BY <1>4, <2>2, DeletedInv DEF DeleteAnswered
  <2>3. CASE r.answer = "unavailable"
    BY <1>4, <2>3, TaskBegunInv DEF DeleteAnswered
  <2>. QED BY <1>1, <2>1, <2>2, <2>3
<1>. QED BY <1>2, <1>3, <1>4 DEF UserAnswered

-----------------------------------------------------------------------------
(* Refreshes, synchronisations and playbacks.                              *)

(* What does not touch items, requests or what the server has.             *)
LEMMA ItemsKept ==
  ASSUME Inv, Types',
         UNCHANGED <<given, conflicts, disabled, now, server, cache, db, requests, toAdd, owed>>,
         ServerCalm => ((sync' = "adding") <=> (sync = "adding")),
         \A p \in Player : playback'[p].left \subseteq playback[p].left
  PROVE  QueueOK' /\ \A i \in Item : ItemOK(i)'
<1>1. /\ UNCHANGED given /\ conflicts' = conflicts /\ disabled' = disabled
      /\ now' = now /\ server' = server /\ cache' = cache /\ db' = db
      /\ requests' = requests /\ toAdd' = toAdd /\ owed' = owed /\ now <= now'
  BY TypesMean DEF Inv, status
<1>2. QueueOK'
  BY <1>1, EnvKept DEF Inv, QueueOK
<1>3. ASSUME NEW i \in Item PROVE ItemOK(i)'
  <2>1. Types /\ ItemOK(i)
    BY DEF Inv
  <2>. QED BY <1>1, <2>1, ItemKept
<1>. QED BY <1>2, <1>3

(* synchronize: a synchronisation begins, or the responder waits.          *)
LEMMA SynchronizeMeans ==
  ASSUME Types, Synchronize
  PROVE  /\ mSyncQueue' \in 0..MaxSyncs
         /\ \/ sync' = sync
            \/ ~offline /\ sync' = IF supportsChangeLog THEN "replay" ELSE "getItems"
<1>1. mSyncQueue \in 0..MaxSyncs /\ MaxSyncs \in Nat \ {0}
  BY CacheAssumption DEF Types, CacheAssumption
<1>2. CASE disabled
  BY <1>1, <1>2 DEF Synchronize
<1>3. CASE ~disabled /\ mSyncQueue > 0
  BY <1>1, <1>3 DEF Synchronize
<1>4. CASE ~disabled /\ mSyncQueue = 0 /\ offline
  BY <1>1, <1>4 DEF Synchronize
<1>5. CASE ~disabled /\ mSyncQueue = 0 /\ ~offline
  BY <1>1, <1>5 DEF Synchronize
<1>. QED BY <1>1, <1>2, <1>3, <1>4, <1>5

LEMMA PlaybackBegins ==
  ASSUME Types, NEW p \in Player, NEW then \in {"refresh", "onLoad", "emptyQueue"},
         StartPlayback(p, then)
  PROVE  /\ playback[p] = Idle /\ playback' \in [Player -> Running \cup {Idle}]
         /\ playback'[p] = [type |-> "created", left |-> {}, then |-> then]
         /\ playback'[p] # Idle
         /\ \A q \in Player : q # p => playback'[q] = playback[q]
         /\ \A q \in Player : playback'[q].left \subseteq playback[q].left
<1>1. playback \in [Player -> Running \cup {Idle}] /\ playback[p] = Idle
      /\ playback' = [playback EXCEPT ![p] = [type |-> "created", left |-> {}, then |-> then]]
  BY DEF Types, StartPlayback
<1>2. [type |-> "created", left |-> {}, then |-> then] \in Running
  BY DEF Running, OfflineFlag
<1>3. [type |-> "created", left |-> {}, then |-> then] # Idle
  <2>1. [type |-> "created", left |-> {}, then |-> then].type = "created" /\ Idle.type = "none"
    BY DEF Idle
  <2>. QED BY <2>1
<1>. QED BY <1>1, <1>2, <1>3

(* A playback that begins has made no request.                             *)
LEMMA PlayersBegin ==
  ASSUME Inv, NEW p \in Player, NEW then \in {"refresh", "onLoad", "emptyQueue"},
         StartPlayback(p, then), requests' = requests
  PROVE  PlayersOK'
<1>1. /\ playback[p] = Idle
      /\ playback'[p] = [type |-> "created", left |-> {}, then |-> then]
      /\ playback'[p] # Idle
      /\ \A q \in Player : q # p => playback'[q] = playback[q]
  BY PlaybackBegins DEF Inv
<1>2. PlayersOK /\ requests \subseteq Asked
  BY DEF Inv, Types
<1>3. \A r \in requests : ~ByUser(r) => r.by \in Player /\ r.by # p
  BY <1>1, <1>2 DEF PlayersOK, Asked, ByUser
<1>. QED BY <1>1, <1>2, <1>3 DEF PlayersOK, ByUser

LEMMA RefreshInv ==
  ASSUME Inv, Refresh, offline' \in BOOLEAN, (offline' => offline),
         UNCHANGED <<given, conflicts, disabled, now, server, cache, db, requests, owed>>
  PROVE  Inv'
<1>1. /\ UNCHANGED given /\ conflicts' = conflicts /\ disabled' = disabled
      /\ env' = env /\ supportsChangeLog' = supportsChangeLog
      /\ now' = now /\ server' = server /\ cache' = cache
      /\ db' = db /\ requests' = requests /\ owed' = owed
  BY DEF status, given
<1>2. Types /\ PlayersOK /\ TurnsOK /\ StagesOK
  BY DEF Inv
<1>3. Single => ~Busy
  BY EnvMeans DEF Refresh
<1>4. Single => /\ sync = "idle" /\ ~loading
                /\ \A p \in Player : playback[p] = Idle
  BY <1>2, <1>3, UserTurn
<1>5. Alone => db = <<>> /\ requests = {}
  <2>. SUFFICES ASSUME Alone PROVE db = <<>> /\ requests = {}
    OBVIOUS
  <2>1. \A i \in Item : ~InProgress(i)
    BY EnvMeans DEF Refresh
  <2>2. \A i \in Item : TasksOn(i) = {} /\ RequestsFor(i) = {}
    BY <2>1, NotInProgress
  <2>3. requests = {}
    BY <1>2, <2>2, TypesMean DEF RequestsFor, Asked, Dated, Change
  <2>4. TasksOf(db) = {}
    BY <1>2, <2>2, TypesMean DEF TasksOn, Task, Edits, Dated, Change
  <2>. QED BY <1>2, <2>3, <2>4, TasksAreTasks, TypesMean
<1>6. TurnsOK'
  BY <1>1, <1>5, EnvKept DEF TurnsOK
<1>7. CASE \E p \in Player : StartPlayback(p, "refresh") /\ UNCHANGED syncVars
  <2>1. PICK p \in Player : StartPlayback(p, "refresh") /\ UNCHANGED syncVars
    BY <1>7
  <2>2. loading' = loading /\ sync' = sync /\ mSyncQueue' = mSyncQueue /\ toAdd' = toAdd
    BY <2>1 DEF syncVars
  <2>3. /\ playback' \in [Player -> Running \cup {Idle}]
        /\ playback'[p] = [type |-> "created", left |-> {}, then |-> "refresh"]
        /\ \A q \in Player : q # p => playback'[q] = playback[q]
        /\ \A q \in Player : playback'[q].left \subseteq playback[q].left
    BY <1>2, <2>1, PlaybackBegins
  <2>4. Types'
    BY <1>1, <1>2, <2>2, <2>3 DEF Types
  <2>5. PlayersOK'
    BY <1>1, <2>1, PlayersBegin
  <2>6. StagesOK'
    BY <1>1, <1>2, <1>4, <2>2, <2>3, EnvKept DEF StagesOK
  <2>7. QueueOK' /\ \A i \in Item : ItemOK(i)'
    BY <1>1, <2>2, <2>3, <2>4, ItemsKept
  <2>. QED BY <1>6, <2>4, <2>5, <2>6, <2>7 DEF Inv
<1>8. CASE playback' = playback /\ toAdd' = toAdd /\ loading' \in BOOLEAN
           /\ sync' = sync /\ mSyncQueue' \in 0..MaxSyncs
           /\ (loading' /\ Single => sync = "idle" /\ \A p \in Player : playback[p] = Idle)
  <2>1. Types'
    BY <1>1, <1>2, <1>8 DEF Types
  <2>2. PlayersOK'
    BY <1>1, <1>2, <1>8 DEF PlayersOK
  <2>3. StagesOK'
    BY <1>1, <1>2, <1>8, EnvKept DEF StagesOK
  <2>4. QueueOK' /\ \A i \in Item : ItemOK(i)'
    BY <1>1, <1>8, <2>1, ItemsKept
  <2>. QED BY <1>6, <2>1, <2>2, <2>3, <2>4 DEF Inv
<1>9. CASE offline' /\ Synchronize /\ UNCHANGED <<playback, loading, toAdd>>
  <2>1. mSyncQueue' \in 0..MaxSyncs /\ sync' = sync
    BY <1>2, <1>9, SynchronizeMeans
  <2>. QED BY <1>2, <1>4, <1>8, <1>9, <2>1 DEF Types
<1>10. CASE loading' = TRUE /\ UNCHANGED <<playback, sync, mSyncQueue, toAdd>>
  BY <1>2, <1>4, <1>8, <1>10 DEF Types
<1>. QED BY <1>7, <1>9, <1>10 DEF Refresh

LEMMA GoOfflineInv ==
  ASSUME Inv, GoOffline
  PROVE  Inv'
<1>1. /\ UNCHANGED given /\ conflicts' = conflicts /\ disabled' = disabled
      /\ env' = env /\ supportsChangeLog' = supportsChangeLog
      /\ now' = now /\ server' = server /\ cache' = cache
      /\ db' = db /\ requests' = requests /\ owed' = owed /\ playback' = playback
      /\ loading' = loading /\ sync' = sync /\ mSyncQueue' = mSyncQueue /\ toAdd' = toAdd
      /\ offline' = TRUE
  BY DEF GoOffline, syncVars, status, given
<1>2. Types /\ PlayersOK /\ TurnsOK /\ StagesOK
  BY DEF Inv
<1>3. Types'
  BY <1>1, <1>2 DEF Types
<1>4. PlayersOK'
  BY <1>1, <1>2 DEF PlayersOK
<1>5. TurnsOK'
  BY <1>1, <1>2, EnvKept DEF TurnsOK, Busy
<1>6. StagesOK'
  BY <1>1, <1>2, EnvKept DEF StagesOK
<1>7. QueueOK' /\ \A i \in Item : ItemOK(i)'
  BY <1>1, <1>3, ItemsKept
<1>. QED BY <1>3, <1>4, <1>5, <1>6, <1>7 DEF Inv

LEMMA DisableInv ==
  ASSUME Inv, Disable
  PROVE  Inv'
<1>1. /\ UNCHANGED given /\ conflicts' = conflicts /\ disabled' = TRUE
      /\ env' = env /\ supportsChangeLog' = supportsChangeLog /\ offline' = offline
      /\ now' = now /\ server' = server /\ cache' = cache
      /\ db' = db /\ requests' = requests /\ owed' = owed /\ playback' = playback
      /\ loading' = loading /\ sync' = sync /\ mSyncQueue' = mSyncQueue /\ toAdd' = toAdd
  BY DEF Disable, syncVars, given
<1>2. Types /\ PlayersOK /\ TurnsOK /\ StagesOK /\ QueueOK
  BY DEF Inv
<1>3. Types'
  BY <1>1, <1>2 DEF Types
<1>4. PlayersOK' /\ TurnsOK' /\ StagesOK' /\ QueueOK'
  <2>1. PlayersOK'
    BY <1>1, <1>2 DEF PlayersOK
  <2>2. TurnsOK'
    BY <1>1, <1>2, EnvKept DEF TurnsOK, Busy
  <2>3. StagesOK' /\ QueueOK'
    BY <1>1, <1>2, EnvKept DEF StagesOK, QueueOK
  <2>. QED BY <2>1, <2>2, <2>3
<1>5. ASSUME NEW i \in Item PROVE ItemOK(i)'
  <2>1. Types /\ ItemOK(i) /\ now <= now'
    BY <1>1, TypesMean DEF Inv
  <2>. QED BY <1>1, <1>3, <2>1, ItemKept
<1>. QED BY <1>3, <1>4, <1>5 DEF Inv

(* onLoad of the provider: its refresh is over and the items are brought up
   to date.                                                                *)
LEMMA UncachedLoadedInv ==
  ASSUME Inv, UncachedLoaded
  PROVE  Inv'
<1>1. /\ UNCHANGED given /\ conflicts' = conflicts /\ disabled' = disabled
      /\ env' = env /\ supportsChangeLog' = supportsChangeLog
      /\ offline' = offline /\ now' = now /\ server' = server /\ cache' = cache
      /\ db' = db /\ requests' = requests /\ owed' = owed /\ playback' = playback
      /\ loading /\ loading' = FALSE /\ toAdd' = toAdd
  BY DEF UncachedLoaded, status, given
<1>2. Types /\ PlayersOK /\ TurnsOK /\ StagesOK
  BY DEF Inv
<1>3. /\ mSyncQueue' \in 0..MaxSyncs
      /\ \/ sync' = sync
         \/ sync' = IF supportsChangeLog THEN "replay" ELSE "getItems"
  BY <1>2, SynchronizeMeans DEF UncachedLoaded
<1>4. Types'
  BY <1>1, <1>2, <1>3 DEF Types
<1>5. PlayersOK'
  BY <1>1, <1>2 DEF PlayersOK
<1>6. TurnsOK'
  BY <1>1, <1>2, EnvKept DEF TurnsOK, Busy
<1>7. Single => sync = "idle" /\ \A p \in Player : playback[p] = Idle
  BY <1>1, <1>2 DEF StagesOK
<1>8. StagesOK'
  BY <1>1, <1>2, <1>3, <1>7, EnvKept DEF StagesOK
<1>9. QueueOK' /\ \A i \in Item : ItemOK(i)'
  <2>1. ServerCalm => ((sync' = "adding") <=> (sync = "adding"))
    BY <1>3, <1>7, EnvMeans DEF ServerCalm
  <2>. QED BY <1>1, <1>4, <2>1, ItemsKept
<1>. QED BY <1>4, <1>5, <1>6, <1>8, <1>9 DEF Inv

-----------------------------------------------------------------------------
(* The synchronisation.                                                    *)

(* While it goes on, only playbacks make requests.                         *)
LEMMA SyncTurn ==
  ASSUME Inv, sync # "idle"
  PROVE  /\ Alone => db = <<>> /\ \A r \in requests : ~ByUser(r)
         /\ Alone => \A i \in Item : TasksOn(i) = {}
         /\ Single /\ sync # "playback" =>
              /\ requests = {} /\ ~loading
              /\ \A p \in Player : playback[p] = Idle
              /\ \A i \in Item : LeftOf(i) = {} /\ RequestsFor(i) = {}
<1>1. Alone => db = <<>> /\ \A r \in requests : ~ByUser(r)
  BY DEF Inv, TurnsOK, Busy
<1>2. Alone => \A i \in Item : TasksOn(i) = {}
  BY <1>1, EmptyTasks DEF TasksOn
<1>3. ASSUME Single, sync # "playback"
      PROVE  /\ requests = {} /\ ~loading
             /\ \A p \in Player : playback[p] = Idle
             /\ \A i \in Item : LeftOf(i) = {} /\ RequestsFor(i) = {}
  <2>1. ~loading /\ \A p \in Player : playback[p] = Idle
    BY <1>3 DEF Inv, StagesOK
  <2>2. requests = {}
    BY <1>1, <1>3, <2>1, EnvMeans DEF Inv, PlayersOK, Types, Asked, ByUser
  <2>. QED BY <2>1, <2>2 DEF LeftOf, RequestsFor, Idle
<1>. QED BY <1>1, <1>2, <1>3

LEMMA ReplayDoneInv ==
  ASSUME Inv, ReplayDone
  PROVE  Inv'
<1>1. /\ UNCHANGED given /\ conflicts' = conflicts /\ disabled' = disabled
      /\ env' = env /\ supportsChangeLog' = supportsChangeLog
      /\ offline' = offline /\ now' = now /\ server' = server
      /\ db' = db /\ requests' = requests /\ owed' = owed /\ playback' = playback
      /\ loading' = loading /\ toAdd' = toAdd
      /\ sync = "replay" /\ sync' = "idle" /\ mSyncQueue' = 0
  BY DEF ReplayDone, EmptyQueue, status, given
<1>2. Types /\ PlayersOK /\ TurnsOK /\ StagesOK /\ MaxSyncs \in Nat \ {0}
  BY CacheAssumption DEF Inv, CacheAssumption
<1>3. PICK changed \in SUBSET conflicts :
        \/ cache' = [i \in Item |-> IF cache[i].flag = "none" \/ i \in changed
                                    THEN Entries(server[i], "none") ELSE cache[i]]
        \/ changed = {} /\ cache' = cache
  BY DEF ReplayDone, Replayed
<1>10. /\ cache' \in [Item -> Entry]
       /\ \A i \in Item :
            /\ cache[i].flag # "none" /\ i \notin conflicts => cache'[i] = cache[i]
            /\ cache'[i].flag # "none" => cache'[i] = cache[i]
            /\ i \notin conflicts => cache'[i].flag = cache[i].flag
  <2>1. \A i \in Item : Entries(server[i], "none") \in Entry
                        /\ Entries(server[i], "none").flag = "none"
    BY <1>2 DEF Types, Entries, Entry, Flag
  <2>2. CASE cache' = [i \in Item |-> IF cache[i].flag = "none" \/ i \in changed
                                       THEN Entries(server[i], "none") ELSE cache[i]]
    BY <1>2, <1>3, <2>1, <2>2 DEF Types
  <2>3. CASE cache' = cache
    BY <1>2, <2>3 DEF Types
  <2>. QED BY <1>3, <2>2, <2>3
<1>4. Types'
  BY <1>1, <1>2, <1>10 DEF Types
<1>5. PlayersOK'
  BY <1>1, <1>2 DEF PlayersOK
<1>6. TurnsOK'
  BY <1>1, <1>2, EnvKept DEF TurnsOK, Busy
<1>7. StagesOK'
  BY <1>1, <1>2, EnvKept DEF StagesOK
<1>8. QueueOK'
  BY <1>1, EnvKept DEF Inv, QueueOK
<1>9. ASSUME NEW i \in Item PROVE ItemOK(i)'
  <2>1. ItemOK(i)
    BY DEF Inv
  <2>2. /\ RequestsFor(i)' = RequestsFor(i) /\ TasksOn(i)' = TasksOn(i)
        /\ LeftOf(i)' = LeftOf(i) /\ OwedOf(i)' = OwedOf(i)
    BY <1>1 DEF RequestsFor, TasksOn, LeftOf, OwedOf
  <2>3. Alone => TasksOn(i) = {} /\ \A r \in RequestsFor(i) : ~ByUser(r)
    BY <1>1, SyncTurn DEF RequestsFor
  <2>4. ApartAt(i)'
    BY <1>1, <2>2, <2>3, EnvKept, EnvMeans DEF ApartAt
  <2>5. OwedAt(i)'
    <3>. SUFFICES ASSUME supportsChangeLog, Calm, i \notin conflicts PROVE OwedAt(i)'
      BY <1>1, EnvKept DEF OwedAt
    <3>1. OwedAt(i)
      BY <2>1 DEF ItemOK
    <3>2. \A o \in OwedOf(i) : Kept(o)' /\ o.time <= now
      BY <1>10, <3>1 DEF OwedAt, OwedOf, Kept
    <3>3. \A q : (Newest(q, i)' <=> Newest(q, i)) /\ (Covers(q, i)' <=> Covers(q, i))
      BY <1>1, <2>2 DEF Newest, Covers
    <3>. QED BY <1>1, <2>2, <3>1, <3>2, <3>3 DEF OwedAt
  <2>6. CreatedAt(i)'
    <3>. SUFFICES ASSUME AddCalm PROVE CreatedAt(i)'
      BY <1>1, EnvKept DEF CreatedAt
    <3>1. CreatedAt(i)
      BY <2>1 DEF ItemOK
    <3>. QED BY <1>1, <1>10, <2>2, <2>3, <3>1, EnvMeans DEF CreatedAt
  <2>7. ServerAt(i)'
    <3>. SUFFICES ASSUME ServerCalm PROVE ServerAt(i)'
      BY <1>1, EnvKept DEF ServerAt, ServerCalm
    <3>1. ServerAt(i) /\ RequestsFor(i) = {} /\ TasksOn(i) = {} /\ LeftOf(i) = {}
      BY <1>1, <2>1, SyncTurn, EnvMeans DEF ItemOK, ServerCalm
    <3>2. ~Settling(i)
      BY <3>1 DEF Settling
    <3>3. cache'[i].flag = "none" => cache'[i].time = server[i]
      <4>1. CASE cache' = cache
        BY <1>1, <3>1, <3>2, <4>1 DEF ServerAt
      <4>2. CASE cache'[i] = Entries(server[i], "none")
        BY <4>2 DEF Entries
      <4>3. CASE cache'[i] = cache[i] /\ cache[i].flag # "none"
        BY <4>3
      <4>. QED BY <1>3, <4>1, <4>2, <4>3
    <3>. QED BY <1>1, <2>2, <3>1, <3>3 DEF ServerAt
  <2>. QED BY <2>4, <2>5, <2>6, <2>7 DEF ItemOK
<1>. QED BY <1>4, <1>5, <1>6, <1>7, <1>8, <1>9 DEF Inv

(* The cache is emptied; the items the server has are then added.          *)
LEMMA ItemsGotInv ==
  ASSUME Inv, ItemsGot
  PROVE  Inv'
<1>1. /\ UNCHANGED given /\ conflicts' = conflicts /\ disabled' = disabled
      /\ env' = env /\ supportsChangeLog' = supportsChangeLog
      /\ offline' = offline /\ now' = now /\ server' = server
      /\ db' = db /\ requests' = requests /\ owed' = owed /\ playback' = playback
      /\ loading' = loading /\ mSyncQueue' = mSyncQueue
      /\ sync = "getItems" /\ sync' = "adding" /\ toAdd' = server
      /\ cache' = [i \in Item |-> Absent]
  BY DEF ItemsGot, status, given
<1>2. Types /\ PlayersOK /\ TurnsOK /\ StagesOK
  BY DEF Inv
<1>3. /\ cache' \in [Item -> Entry] /\ \A i \in Item : cache'[i] = Absent
      /\ Absent.flag = "none" /\ Absent.time = 0
  BY <1>1, CacheAssumption DEF Absent, Entry, Flag, Time, CacheAssumption
<1>4. Types'
  BY <1>1, <1>2, <1>3 DEF Types
<1>5. PlayersOK'
  BY <1>1, <1>2 DEF PlayersOK
<1>6. TurnsOK'
  BY <1>1, <1>2, EnvKept DEF TurnsOK, Busy
<1>7. StagesOK' /\ ~supportsChangeLog
  BY <1>1, <1>2, EnvKept DEF StagesOK
<1>8. QueueOK'
  BY <1>1, EnvKept DEF Inv, QueueOK
<1>9. ASSUME NEW i \in Item PROVE ItemOK(i)'
  <2>1. ItemOK(i)
    BY DEF Inv
  <2>2. /\ RequestsFor(i)' = RequestsFor(i) /\ TasksOn(i)' = TasksOn(i)
        /\ LeftOf(i)' = LeftOf(i)
    BY <1>1 DEF RequestsFor, TasksOn, LeftOf
  <2>3. Alone => TasksOn(i) = {} /\ \A r \in RequestsFor(i) : ~ByUser(r)
    BY <1>1, SyncTurn DEF RequestsFor
  <2>4. ApartAt(i)'
    BY <1>1, <2>2, <2>3, EnvKept, EnvMeans DEF ApartAt
  <2>5. OwedAt(i)'
    BY <1>1, <1>7 DEF OwedAt
  <2>6. CreatedAt(i)'
    <3>. SUFFICES ASSUME AddCalm PROVE CreatedAt(i)'
      BY <1>1, EnvKept DEF CreatedAt
    <3>1. CreatedAt(i)
      BY <2>1 DEF ItemOK
    <3>. QED BY <1>1, <1>3, <2>2, <2>3, <3>1, EnvMeans DEF CreatedAt
  <2>7. ServerAt(i)'
    <3>. SUFFICES ASSUME ServerCalm PROVE ServerAt(i)'
      BY <1>1, EnvKept DEF ServerAt, ServerCalm
    <3>1. RequestsFor(i) = {} /\ TasksOn(i) = {} /\ LeftOf(i) = {}
      BY <1>1, SyncTurn, EnvMeans DEF ServerCalm
    <3>. QED BY <1>1, <1>3, <2>2, <3>1 DEF ServerAt, Absent, Entries
  <2>. QED BY <2>4, <2>5, <2>6, <2>7 DEF ItemOK
<1>. QED BY <1>4, <1>5, <1>6, <1>7, <1>8, <1>9 DEF Inv

LEMMA GetItemsFailedInv ==
  ASSUME Inv, GetItemsFailed
  PROVE  Inv'
<1>1. /\ UNCHANGED given /\ conflicts' = conflicts /\ disabled' = disabled
      /\ env' = env /\ supportsChangeLog' = supportsChangeLog
      /\ offline' = offline /\ now' = now /\ server' = server /\ cache' = cache
      /\ db' = db /\ requests' = requests /\ owed' = owed
      /\ loading' = loading /\ toAdd' = toAdd
      /\ sync = "getItems" /\ sync' = "idle" /\ mSyncQueue' = 0
  BY DEF GetItemsFailed, EmptyQueue, status, given
<1>2. Types /\ PlayersOK /\ TurnsOK /\ StagesOK /\ MaxSyncs \in Nat \ {0}
  BY CacheAssumption DEF Inv, CacheAssumption
<1>3. PICK p \in Player : StartPlayback(p, "onLoad")
  BY DEF GetItemsFailed
<1>4. /\ playback' \in [Player -> Running \cup {Idle}]
      /\ playback'[p] = [type |-> "created", left |-> {}, then |-> "onLoad"]
      /\ playback'[p] # Idle
      /\ \A q \in Player : q # p => playback'[q] = playback[q]
      /\ \A q \in Player : playback'[q].left \subseteq playback[q].left
  BY <1>2, <1>3, PlaybackBegins
<1>5. Types'
  BY <1>1, <1>2, <1>4 DEF Types
<1>6. PlayersOK'
  BY <1>1, <1>3, PlayersBegin
<1>7. TurnsOK'
  BY <1>1, SyncTurn, EnvKept DEF TurnsOK
<1>8. StagesOK'
  <2>1. Single => ~loading /\ \A q \in Player : playback[q] = Idle
    BY <1>1, SyncTurn
  <2>. QED BY <1>1, <1>4, <2>1, EnvKept DEF StagesOK
<1>9. QueueOK' /\ \A i \in Item : ItemOK(i)'
  BY <1>1, <1>4, <1>5, ItemsKept
<1>. QED BY <1>5, <1>6, <1>7, <1>8, <1>9 DEF Inv

LEMMA AddGotItemInv ==
  ASSUME Inv, NEW i \in Item, AddGotItem(i)
  PROVE  Inv'
<1>1. /\ UNCHANGED given /\ conflicts' = conflicts /\ disabled' = disabled
      /\ env' = env /\ supportsChangeLog' = supportsChangeLog
      /\ offline' = offline /\ now' = now /\ server' = server
      /\ db' = db /\ requests' = requests /\ owed' = owed /\ playback' = playback
      /\ loading' = loading /\ mSyncQueue' = mSyncQueue
      /\ sync = "adding" /\ sync' = "adding" /\ toAdd[i] # 0
      /\ cache' = [cache EXCEPT ![i] = Entries(toAdd[i], "none")]
      /\ toAdd' = [toAdd EXCEPT ![i] = 0]
  BY DEF AddGotItem, status, given
<1>2. Types /\ PlayersOK /\ TurnsOK /\ StagesOK /\ now <= now'
  BY <1>1, TypesMean DEF Inv
<1>3. /\ Entries(toAdd[i], "none") \in Entry /\ Entries(toAdd[i], "none").flag = "none"
  BY <1>2 DEF Types, Entries, Entry, Flag
<1>4. /\ cache' \in [Item -> Entry] /\ cache'[i] = Entries(toAdd[i], "none")
      /\ cache'[i].flag = "none"
      /\ toAdd' \in [Item -> Time] /\ toAdd'[i] = 0
      /\ \A j \in Item : j # i => cache'[j] = cache[j] /\ toAdd'[j] = toAdd[j]
  BY <1>1, <1>2, <1>3, CacheAssumption DEF Types, Time, CacheAssumption
<1>5. Types'
  <2>1. \A j \in Item : cache'[j].flag # "none" => cache'[j].time # 0
    BY <1>2, <1>4 DEF Types
  <2>. QED BY <1>1, <1>2, <1>4, <2>1 DEF Types
<1>6. PlayersOK'
  BY <1>1, <1>2 DEF PlayersOK
<1>7. TurnsOK'
  BY <1>1, <1>2, EnvKept DEF TurnsOK, Busy
<1>8. StagesOK' /\ ~supportsChangeLog
  BY <1>1, <1>2, EnvKept DEF StagesOK
<1>9. QueueOK'
  BY <1>1, EnvKept DEF Inv, QueueOK
<1>10. ItemOK(i)'
  <2>1. ItemOK(i)
    BY DEF Inv
  <2>2. /\ RequestsFor(i)' = RequestsFor(i) /\ TasksOn(i)' = TasksOn(i)
        /\ LeftOf(i)' = LeftOf(i)
    BY <1>1 DEF RequestsFor, TasksOn, LeftOf
  <2>3. Alone => TasksOn(i) = {} /\ \A r \in RequestsFor(i) : ~ByUser(r)
    BY <1>1, SyncTurn DEF RequestsFor
  <2>4. ApartAt(i)'
    BY <1>1, <2>2, <2>3, EnvKept, EnvMeans DEF ApartAt
  <2>5. OwedAt(i)'
    BY <1>1, <1>8 DEF OwedAt
  <2>6. CreatedAt(i)'
    <3>. SUFFICES ASSUME AddCalm PROVE CreatedAt(i)'
      BY <1>1, EnvKept DEF CreatedAt
    <3>1. CreatedAt(i)
      BY <2>1 DEF ItemOK
    <3>. QED BY <1>1, <1>4, <2>2, <2>3, <3>1, EnvMeans DEF CreatedAt
  <2>7. ServerAt(i)'
    <3>. SUFFICES ASSUME ServerCalm PROVE ServerAt(i)'
      BY <1>1, EnvKept DEF ServerAt, ServerCalm
    <3>1. ServerAt(i) /\ RequestsFor(i) = {} /\ TasksOn(i) = {} /\ LeftOf(i) = {}
      BY <1>1, <2>1, SyncTurn, EnvMeans DEF ItemOK, ServerCalm
    <3>2. toAdd[i] = server[i]
      BY <1>1, <3>1 DEF ServerAt
    <3>. QED BY <1>1, <1>4, <2>2, <3>1, <3>2 DEF ServerAt
  <2>. QED BY <2>4, <2>5, <2>6, <2>7 DEF ItemOK
<1>11. \A j \in Item : j # i => ItemOK(j)'
  BY <1>1, <1>2, <1>4, <1>5, OthersKept
<1>. QED BY <1>5, <1>6, <1>7, <1>8, <1>9, <1>10, <1>11 DEF Inv

LEMMA ReconcileInv ==
  ASSUME Inv, Reconcile
  PROVE  Inv'
<1>1. /\ UNCHANGED given /\ conflicts' = conflicts /\ disabled' = disabled
      /\ env' = env /\ supportsChangeLog' = supportsChangeLog
      /\ offline' = offline /\ now' = now /\ server' = server /\ cache' = cache
      /\ db' = db /\ requests' = requests /\ owed' = owed
      /\ loading' = loading /\ toAdd' = toAdd /\ mSyncQueue' = mSyncQueue
      /\ sync = "adding" /\ sync' = "playback" /\ \A i \in Item : toAdd[i] = 0
  BY DEF Reconcile, status, given
<1>2. Types /\ PlayersOK /\ TurnsOK /\ StagesOK
  BY DEF Inv
<1>3. PICK p \in Player : StartPlayback(p, "emptyQueue")
  BY DEF Reconcile
<1>4. /\ playback' \in [Player -> Running \cup {Idle}]
      /\ playback'[p] = [type |-> "created", left |-> {}, then |-> "emptyQueue"]
      /\ playback'[p] # Idle
      /\ \A q \in Player : q # p => playback'[q] = playback[q]
      /\ \A q \in Player : playback'[q].left \subseteq playback[q].left
  BY <1>2, <1>3, PlaybackBegins
<1>5. Types'
  BY <1>1, <1>2, <1>4 DEF Types
<1>6. PlayersOK'
  BY <1>1, <1>3, PlayersBegin
<1>7. TurnsOK'
  BY <1>1, SyncTurn, EnvKept DEF TurnsOK
<1>8. StagesOK' /\ ~supportsChangeLog
  <2>1. Single => ~loading /\ \A q \in Player : playback[q] = Idle
    BY <1>1, SyncTurn
  <2>. QED BY <1>1, <1>2, <1>4, <2>1, EnvKept DEF StagesOK
<1>9. QueueOK'
  BY <1>1, EnvKept DEF Inv, QueueOK
<1>10. ASSUME NEW i \in Item PROVE ItemOK(i)'
  <2>1. ItemOK(i)
    BY DEF Inv
  <2>2. /\ RequestsFor(i)' = RequestsFor(i) /\ TasksOn(i)' = TasksOn(i)
        /\ LeftOf(i)' \subseteq LeftOf(i)
    BY <1>1, <1>4 DEF RequestsFor, TasksOn, LeftOf
  <2>4. ApartAt(i)'
    BY <1>1, <2>1, <2>2, EnvKept DEF ItemOK, ApartAt, TaskOK
  <2>5. OwedAt(i)'
    BY <1>1, <1>8 DEF OwedAt
  <2>6. CreatedAt(i)'
    <3>. SUFFICES ASSUME AddCalm PROVE CreatedAt(i)'
      BY <1>1, EnvKept DEF CreatedAt
    <3>1. CreatedAt(i)
      BY <2>1 DEF ItemOK
    <3>. QED BY <1>1, <2>2, <3>1 DEF CreatedAt
  <2>7. ServerAt(i)'
    <3>. SUFFICES ASSUME ServerCalm PROVE ServerAt(i)'
      BY <1>1, EnvKept DEF ServerAt, ServerCalm
    <3>1. ServerAt(i) /\ RequestsFor(i) = {} /\ TasksOn(i) = {} /\ LeftOf(i) = {}
      BY <1>1, <2>1, SyncTurn, EnvMeans DEF ItemOK, ServerCalm
    <3>2. cache[i] = Entries(server[i], "none")
      BY <1>1, <3>1 DEF ServerAt
    <3>. QED BY <1>1, <2>2, <3>1, <3>2 DEF ServerAt, Entries
  <2>. QED BY <2>4, <2>5, <2>6, <2>7 DEF ItemOK
<1>. QED BY <1>5, <1>6, <1>7, <1>8, <1>9, <1>10 DEF Inv

-----------------------------------------------------------------------------
(* The playbacks.                                                          *)

LEMMA PlaybackDoneMeans ==
  ASSUME Types, NEW then, PlaybackDone(then)
  PROVE  /\ toAdd' = toAdd /\ mSyncQueue' \in 0..MaxSyncs
         /\ sync' \in {sync, "idle"} /\ loading' \in BOOLEAN
         /\ then # "emptyQueue" => sync' = sync
         /\ then = "emptyQueue" => sync' = "idle"
         /\ loading' # loading => then = "refresh"
<1>1. mSyncQueue \in 0..MaxSyncs /\ MaxSyncs \in Nat \ {0} /\ loading \in BOOLEAN
  BY CacheAssumption DEF Types, CacheAssumption
<1>2. CASE then = "refresh"
  <2>1. DownstreamRefresh
    BY <1>2 DEF PlaybackDone
  <2>2. CASE offline
    <3>1. Synchronize /\ loading' = loading /\ toAdd' = toAdd
      BY <2>1, <2>2 DEF DownstreamRefresh
    <3>. QED BY <1>1, <1>2, <2>2, <3>1, SynchronizeMeans
  <2>3. CASE ~offline
    BY <1>1, <1>2, <2>1, <2>3 DEF DownstreamRefresh
  <2>. QED BY <2>2, <2>3
<1>3. CASE then = "emptyQueue"
  BY <1>1, <1>3 DEF PlaybackDone, EmptyQueue
<1>4. CASE then \notin {"refresh", "emptyQueue"}
  BY <1>1, <1>4 DEF PlaybackDone, syncVars
<1>. QED BY <1>2, <1>3, <1>4

LEMMA Kinds ==
  /\ \A type \in OfflineFlag : /\ KindOf(type) \in {"add", "modify", "delete"}
                               /\ NextType(type) \in OfflineFlag \cup {"none"}
                               /\ (KindOf(type) = "add") <=> (type = "created")
                               /\ (KindOf(type) = "modify") <=> (type = "modified")
                               /\ (KindOf(type) = "delete") <=> (type = "deleted")
BY DEF KindOf, NextType, OfflineFlag

LEMMA RunningMeans ==
  ASSUME Types, NEW p \in Player, playback[p] # Idle
  PROVE  /\ playback[p] \in Running /\ playback[p].type \in OfflineFlag
         /\ playback[p].left \subseteq Dated
         /\ playback[p].then \in {"refresh", "onLoad", "emptyQueue"}
BY DEF Types, Running

LEMMA NotIdle ==
  ASSUME NEW pb \in Running
  PROVE  pb # Idle
BY DEF Running, Idle, OfflineFlag

(* The next step of a playback: a request, the next type, or its end.       *)
GoesOn(p, left, others) ==
  PopItemQueue(p, left, others) \/ (AbortPlayback(p) /\ others = requests)

(* ... and what it means for the invariant.                               *)
GoneOn(p, left, others) ==
  /\ PlayersOK' /\ TurnsOK' /\ StagesOK' /\ requests' \subseteq Asked
  /\ playback' \in [Player -> Running \cup {Idle}]
  /\ \A q \in Player : q # p => playback'[q] = playback[q]
  /\ sync' \in {"idle", "replay", "getItems", "adding", "playback"}
  /\ toAdd' = toAdd /\ mSyncQueue' \in 0..MaxSyncs /\ loading' \in BOOLEAN
  /\ Single => sync \in {"idle", "playback"} /\ sync' # "adding"
  /\ \/ requests' = others /\ playback'[p].left = {}
     \/ \E c \in left : /\ requests' = others \cup {Request(c, p)}
                        /\ playback'[p].left = left \ {c}

LEMMA PlaybackGoesOn ==
  ASSUME Inv, NEW p \in Player, playback[p] # Idle, UNCHANGED given, conflicts' = conflicts,
         disabled' = disabled, db' = db,
         NEW left, left \subseteq Dated, NEW others, others \subseteq requests,
         \A r \in others : r.by # p,
         \A c \in left : /\ c.kind = KindOf(playback[p].type)
                         /\ \A d \in left : d.item = c.item => d = c,
         GoesOn(p, left, others)
  PROVE  GoneOn(p, left, others)
<1>1. Types /\ PlayersOK /\ TurnsOK /\ StagesOK
  BY DEF Inv
<1>. PICK pb : pb = playback[p]
  OBVIOUS
<1>2. /\ pb \in Running /\ pb.type \in OfflineFlag /\ pb.left \subseteq Dated /\ pb # Idle
      /\ pb.then \in {"refresh", "onLoad", "emptyQueue"}
      /\ playback \in [Player -> Running \cup {Idle}]
      /\ p # "user" /\ \A q \in Player : q # "user"
  BY <1>1, RunningMeans, CacheAssumption DEF Types, CacheAssumption
<1>3. Alone => db = <<>> /\ \A r \in requests : ~ByUser(r)
  BY <1>1 DEF TurnsOK, Busy
<1>4. Single => /\ sync \in {"idle", "playback"} /\ ~loading
                /\ pb.then = "refresh" => sync = "idle"
                /\ \A q \in Player : q # p => playback[q] = Idle
  BY <1>1 DEF StagesOK
<1>5. supportsChangeLog' = supportsChangeLog /\ (Alone' <=> Alone) /\ (Single' <=> Single)
      /\ (supportsChangeLog => sync \in {"idle", "replay"})
  BY <1>1, EnvKept DEF StagesOK
<1>6. \A r \in others : ~ByUser(r) => r.by \in Player
  BY <1>1 DEF Types, Asked, ByUser
<1>7. ASSUME NEW c \in left, requests' = others \cup {Request(c, p)},
             playback' = [playback EXCEPT ![p].left = left \ {c}], UNCHANGED syncVars
      PROVE  /\ PlayersOK' /\ TurnsOK' /\ StagesOK' /\ requests' \subseteq Asked
             /\ playback' \in [Player -> Running \cup {Idle}]
             /\ \A q \in Player : q # p => playback'[q] = playback[q]
             /\ playback'[p].left = left \ {c}
             /\ loading' = loading /\ sync' = sync /\ mSyncQueue' = mSyncQueue /\ toAdd' = toAdd
  <2>. PICK r : r = Request(c, p)
    OBVIOUS
  <2>1. r \in Asked /\ r.change = c /\ r.by = p /\ ~ByUser(r) /\ requests' = others \cup {r}
    BY <1>2, <1>7 DEF Request, Asked, ByUser
  <2>2. loading' = loading /\ sync' = sync /\ mSyncQueue' = mSyncQueue /\ toAdd' = toAdd
    BY <1>7 DEF syncVars
  <2>3. /\ playback' \in [Player -> Running \cup {Idle}]
        /\ \A q \in Player : q # p => playback'[q] = playback[q]
        /\ playback'[p] \in Running /\ playback'[p].left = left \ {c}
        /\ playback'[p].type = pb.type /\ playback'[p].then = pb.then
    <3>1. [pb EXCEPT !.left = left \ {c}] \in Running
      BY <1>2 DEF Running
    <3>2. playback' = [playback EXCEPT ![p] = [pb EXCEPT !.left = left \ {c}]]
      BY <1>2, <1>7
    <3>. QED BY <1>2, <3>1, <3>2 DEF Running
  <2>4. playback'[p] # Idle
    BY <2>3, NotIdle
  <2>5. PlayersOK'
    <3>1. \A s \in requests' : ~ByUser(s) =>
            /\ playback'[s.by] # Idle
            /\ s.change.kind = KindOf(playback'[s.by].type)
            /\ \A u \in requests' : u.by = s.by => u = s
      BY <1>1, <1>6, <2>1, <2>3, <2>4 DEF PlayersOK, ByUser
    <3>2. \A q \in Player : \A d \in playback'[q].left :
            /\ d.kind = KindOf(playback'[q].type)
            /\ \A e \in playback'[q].left : e.item = d.item => e = d
      BY <1>1, <2>3 DEF PlayersOK
    <3>. QED BY <3>1, <3>2 DEF PlayersOK, ByUser
  <2>6. TurnsOK'
    BY <1>3, <1>5, <2>1 DEF TurnsOK, ByUser
  <2>7. StagesOK'
    BY <1>1, <1>4, <1>5, <2>2, <2>3 DEF StagesOK
  <2>8. requests' \subseteq Asked
    BY <1>1, <2>1 DEF Types
  <2>. QED BY <2>2, <2>3, <2>5, <2>6, <2>7, <2>8
<1>8. ASSUME left = {}, requests' = others, NextType(pb.type) # "none",
             playback' = [playback EXCEPT ![p].type = NextType(pb.type), ![p].left = {}],
             UNCHANGED syncVars
      PROVE  /\ PlayersOK' /\ TurnsOK' /\ StagesOK' /\ requests' \subseteq Asked
             /\ playback' \in [Player -> Running \cup {Idle}]
             /\ \A q \in Player : q # p => playback'[q] = playback[q]
             /\ playback'[p].left = {}
             /\ loading' = loading /\ sync' = sync /\ mSyncQueue' = mSyncQueue /\ toAdd' = toAdd
  <2>2. loading' = loading /\ sync' = sync /\ mSyncQueue' = mSyncQueue /\ toAdd' = toAdd
    BY <1>8 DEF syncVars
  <2>3. /\ playback' \in [Player -> Running \cup {Idle}]
        /\ \A q \in Player : q # p => playback'[q] = playback[q]
        /\ playback'[p] \in Running /\ playback'[p].left = {}
        /\ playback'[p].then = pb.then
    <3>. PICK f : f = [pb EXCEPT !.type = NextType(pb.type)]
      OBVIOUS
    <3>. PICK g : g = [f EXCEPT !.left = {}]
      OBVIOUS
    <3>1. f \in Running /\ f.then = pb.then
      BY <1>2, <1>8, Kinds DEF Running
    <3>2. g \in Running /\ g.left = {} /\ g.then = pb.then
      BY <3>1 DEF Running
    <3>3. playback' = [playback EXCEPT ![p] = g]
      BY <1>2, <1>8
    <3>. QED BY <1>2, <3>2, <3>3
  <2>4. playback'[p] # Idle
    BY <2>3, NotIdle
  <2>5. PlayersOK'
    BY <1>1, <1>6, <1>8, <2>3, <2>4 DEF PlayersOK, ByUser
  <2>6. TurnsOK'
    BY <1>3, <1>5, <1>8 DEF TurnsOK, ByUser
  <2>7. StagesOK'
    BY <1>1, <1>4, <1>5, <2>2, <2>3 DEF StagesOK
  <2>8. requests' \subseteq Asked
    BY <1>1, <1>8 DEF Types
  <2>. QED BY <2>2, <2>3, <2>5, <2>6, <2>7, <2>8
<1>9. ASSUME requests' = others, playback' = [playback EXCEPT ![p] = Idle],
             PlaybackDone(pb.then)
      PROVE  /\ PlayersOK' /\ TurnsOK' /\ StagesOK' /\ requests' \subseteq Asked
             /\ playback' \in [Player -> Running \cup {Idle}]
             /\ \A q \in Player : q # p => playback'[q] = playback[q]
             /\ playback'[p].left = {}
             /\ sync' \in {sync, "idle"} /\ toAdd' = toAdd
             /\ mSyncQueue' \in 0..MaxSyncs /\ loading' \in BOOLEAN
  <2>2. /\ toAdd' = toAdd /\ mSyncQueue' \in 0..MaxSyncs
        /\ sync' \in {sync, "idle"} /\ loading' \in BOOLEAN
        /\ pb.then # "emptyQueue" => sync' = sync
        /\ loading' # loading => pb.then = "refresh"
    BY <1>1, <1>9, PlaybackDoneMeans
  <2>3. /\ playback' \in [Player -> Running \cup {Idle}]
        /\ \A q \in Player : q # p => playback'[q] = playback[q]
        /\ playback'[p] = Idle /\ playback'[p].left = {}
    BY <1>2, <1>9 DEF Idle
  <2>5. PlayersOK'
    BY <1>1, <1>6, <1>9, <2>3 DEF PlayersOK, ByUser
  <2>6. TurnsOK'
    BY <1>3, <1>5, <1>9 DEF TurnsOK, ByUser
  <2>7. StagesOK'
    <3>1. Single => /\ \A q \in Player : playback'[q] = Idle
                    /\ loading' => sync' = "idle"
      BY <1>1, <1>4, <2>2, <2>3 DEF Types
    <3>. QED BY <1>5, <2>2, <3>1 DEF StagesOK
  <2>8. requests' \subseteq Asked
    BY <1>1, <1>9 DEF Types
  <2>. QED BY <2>2, <2>3, <2>5, <2>6, <2>7, <2>8
<1>10. \/ \E c \in left : /\ requests' = others \cup {Request(c, p)}
                          /\ playback' = [playback EXCEPT ![p].left = left \ {c}]
                          /\ UNCHANGED syncVars
       \/ /\ requests' = others
          /\ playback' = [playback EXCEPT ![p] = Idle] /\ PlaybackDone(pb.then)
       \/ /\ left = {} /\ requests' = others /\ NextType(pb.type) # "none"
          /\ playback' = [playback EXCEPT ![p].type = NextType(pb.type), ![p].left = {}]
          /\ UNCHANGED syncVars
  BY DEF GoesOn, PopItemQueue, AbortPlayback
<1>. QED BY <1>1, <1>4, <1>7, <1>8, <1>9, <1>10 DEF Types, GoneOn

(* What is read is what the cache owes, item by item.                      *)
LEMMA FlaggedMeans ==
  ASSUME Types, NEW type \in OfflineFlag
  PROVE  /\ Flagged(type) \subseteq Dated
         /\ \A c \in Flagged(type) : /\ c.kind = KindOf(type) /\ c.item \in Item
                                     /\ cache[c.item].flag = type
                                     /\ cache[c.item].time = c.time
                                     /\ \A d \in Flagged(type) : d.item = c.item => d = c
<1>. SUFFICES ASSUME NEW c \in Flagged(type)
              PROVE  /\ c \in Dated /\ c.kind = KindOf(type) /\ c.item \in Item
                     /\ cache[c.item].flag = type
                     /\ cache[c.item].time = c.time
                     /\ \A d \in Flagged(type) : d.item = c.item => d = c
  OBVIOUS
<1>1. PICK i \in Item : /\ cache[i].flag = type
                        /\ c = [kind |-> KindOf(type), item |-> i, time |-> cache[i].time]
  BY DEF Flagged
<1>2. cache[i].time # 0 /\ cache[i].time \in Time
  BY <1>1 DEF Types, Entry, OfflineFlag
<1>3. KindOf(type) \in {"add", "modify", "delete"}
  BY Kinds
<1>4. c \in Dated
  BY <1>1, <1>2, <1>3 DEF Dated, Change
<1>5. \A d \in Flagged(type) : d.item = c.item => d = c
  BY <1>1 DEF Flagged
<1>. QED BY <1>1, <1>4, <1>5

LEMMA PlaybackReadsInv ==
  ASSUME Inv, NEW p \in Player, PlaybackReads(p)
  PROVE  Inv'
<1>1. /\ UNCHANGED given /\ conflicts' = conflicts /\ disabled' = disabled
      /\ env' = env /\ supportsChangeLog' = supportsChangeLog
      /\ offline' = offline /\ now' = now /\ server' = server /\ cache' = cache
      /\ db' = db /\ owed' = owed
      /\ playback[p] # Idle /\ \A r \in requests : r.by # p
  BY DEF PlaybackReads, Waiting, status, given
<1>2. Types /\ PlayersOK /\ TurnsOK /\ StagesOK /\ now <= now'
  BY <1>1, TypesMean DEF Inv
<1>. PICK type : type = playback[p].type
  OBVIOUS
<1>3. type \in OfflineFlag
  BY <1>1, <1>2, RunningMeans
<1>. PICK left : left = IF offline THEN {} ELSE Flagged(type)
  OBVIOUS
<1>4. /\ left \subseteq Dated
      /\ \A c \in left : /\ c.kind = KindOf(type) /\ c.item \in Item
                         /\ cache[c.item].flag = type
                         /\ cache[c.item].time = c.time
                         /\ \A d \in left : d.item = c.item => d = c
  BY <1>2, <1>3, FlaggedMeans
<1>. PICK others : others = requests
  OBVIOUS
<1>5. /\ others \subseteq requests /\ \A r \in others : r.by # p
      /\ \A c \in left : /\ c.kind = KindOf(playback[p].type)
                         /\ \A d \in left : d.item = c.item => d = c
      /\ GoesOn(p, left, others)
  BY <1>1, <1>4 DEF PlaybackReads, GoesOn
<1>6. /\ PlayersOK' /\ TurnsOK' /\ StagesOK' /\ requests' \subseteq Asked
      /\ playback' \in [Player -> Running \cup {Idle}]
      /\ \A q \in Player : q # p => playback'[q] = playback[q]
      /\ sync' \in {"idle", "replay", "getItems", "adding", "playback"}
      /\ toAdd' = toAdd /\ mSyncQueue' \in 0..MaxSyncs /\ loading' \in BOOLEAN
      /\ Single => sync \in {"idle", "playback"} /\ sync' # "adding"
      /\ \/ requests' = others /\ playback'[p].left = {}
         \/ \E c \in left : /\ requests' = others \cup {Request(c, p)}
                            /\ playback'[p].left = left \ {c}
  <2>0. Inv /\ playback[p] # Idle /\ UNCHANGED given /\ conflicts' = conflicts /\ disabled' = disabled
        /\ db' = db /\ left \subseteq Dated
    BY <1>1, <1>4
  <2>1. GoneOn(p, left, others)
    BY ONLY <2>0, p \in Player, <1>5, PlaybackGoesOn
  <2>. QED BY <2>1 DEF GoneOn
<1>7. Types'
  BY <1>1, <1>2, <1>6 DEF Types
<1>8. ServerCalm => ((sync' = "adding") <=> (sync = "adding"))
  BY <1>6, EnvMeans DEF ServerCalm
<1>9. CASE requests' = requests /\ playback'[p].left = {}
  <2>1. \A q \in Player : playback'[q].left \subseteq playback[q].left
    BY <1>6, <1>9
  <2>2. QueueOK' /\ \A i \in Item : ItemOK(i)'
    BY <1>1, <1>6, <1>7, <1>8, <1>9, <2>1, ItemsKept
  <2>. QED BY <1>6, <1>7, <2>2 DEF Inv
<1>10. ASSUME NEW c \in left, requests' = requests \cup {Request(c, p)},
              playback'[p].left = left \ {c}
       PROVE  Inv'
  <2>. PICK r : r = Request(c, p)
    OBVIOUS
  <2>1. r.change = c /\ r.by = p /\ r.answer = "waiting" /\ ~ByUser(r)
        /\ requests' = requests \cup {r}
    BY <1>10, CacheAssumption DEF Request, ByUser, CacheAssumption
  <2>2. QueueOK'
    BY <1>1, EnvKept DEF Inv, QueueOK
  <2>3. Alone => db = <<>> /\ \A s \in requests : ~ByUser(s)
    BY <1>1, <1>2 DEF TurnsOK, Busy
  <2>4. Single => requests = {} /\ \A q \in Player : q # p => playback[q] = Idle
    BY <1>1, <1>2, <2>3, EnvMeans DEF PlayersOK, StagesOK, Types, Asked, ByUser
  <2>5. ASSUME NEW i \in Item PROVE ItemOK(i)'
    <3>1. ItemOK(i)
      BY DEF Inv
    <3>2. /\ TasksOn(i)' = TasksOn(i) /\ OwedOf(i)' = OwedOf(i)
          /\ \A s \in RequestsFor(i)' : s \in RequestsFor(i) \/ (s = r /\ c.item = i)
          /\ \A s \in RequestsFor(i) : s \in RequestsFor(i)'
      BY <1>1, <2>1 DEF TasksOn, OwedOf, RequestsFor
    <3>3. Alone => TasksOn(i) = {} /\ \A s \in RequestsFor(i)' : ~ByUser(s)
      BY <2>1, <2>3, <3>2, EmptyTasks DEF TasksOn, RequestsFor
    <3>4. \A d \in LeftOf(i)' : d \in LeftOf(i) \/ (d \in left /\ d # c /\ d.item = i)
      BY <1>6, <1>10 DEF LeftOf
    <3>5. ApartAt(i)'
      BY <1>1, <3>2, <3>3, EnvKept, EnvMeans DEF ApartAt
    <3>6. OwedAt(i)'
      <4>. SUFFICES ASSUME supportsChangeLog, Calm, i \notin conflicts PROVE OwedAt(i)'
        BY <1>1, EnvKept DEF OwedAt
      <4>1. OwedAt(i)
        BY <3>1 DEF ItemOK
      <4>2. \A q : (Newest(q, i)' <=> Newest(q, i)) /\ (Covers(q, i)' <=> Covers(q, i))
                   /\ (Kept(q)' <=> Kept(q))
        BY <1>1, <3>2 DEF Newest, Covers, Kept
      <4>3. \A d \in left : d.item = i => Covers(d, i)
        <5>. SUFFICES ASSUME NEW d \in left, d.item = i, NEW o \in OwedOf(i)
                      PROVE  o.time <= d.time \/ (o.kind = "delete" /\ d.kind = "delete")
          BY DEF Covers
        <5>1. Kept(o) /\ o.item = i
          BY <4>1 DEF OwedAt, OwedOf
        <5>. QED BY <1>3, <1>4, <5>1, Kinds DEF Kept
      <4>. QED BY <1>1, <2>1, <3>2, <3>4, <4>1, <4>2, <4>3 DEF OwedAt
    <3>7. CreatedAt(i)'
      <4>. SUFFICES ASSUME AddCalm PROVE CreatedAt(i)'
        BY <1>1, EnvKept DEF CreatedAt
      <4>1. CreatedAt(i) /\ RequestsFor(i) = {} /\ TasksOn(i) = {} /\ Alone
            /\ \A d \in LeftOf(i)' : d \in left /\ d # c /\ d.item = i
        BY <1>6, <1>10, <2>4, <3>1, <3>3, EnvMeans
        DEF ItemOK, RequestsFor, LeftOf, Idle
      <4>2. \A d \in left : d.item = i /\ d.kind = "add" => server[i] = 0
        BY <1>3, <1>4, <4>1, Kinds DEF CreatedAt
      <4>3. \A s \in RequestsFor(i)' : s = r /\ c.item = i
        BY <3>2, <4>1
      <4>4. cache[i].flag = "created" => server[i] = 0
        BY <4>1 DEF CreatedAt
      <4>5. \A d \in LeftOf(i)' : RequestsFor(i)' = {}
        BY <1>4, <4>1, <4>3
      <4>. QED BY <1>1, <2>1, <3>2, <4>1, <4>2, <4>3, <4>4, <4>5 DEF CreatedAt, IsAdd
    <3>8. ServerAt(i)'
      <4>. SUFFICES ASSUME ServerCalm PROVE ServerAt(i)'
        BY <1>1, EnvKept DEF ServerAt, ServerCalm
      <4>1. ServerAt(i) /\ RequestsFor(i) = {} /\ TasksOn(i) = {}
            /\ sync # "adding" /\ sync' # "adding"
            /\ \A d \in LeftOf(i)' : d \in left /\ d # c /\ d.item = i
        BY <1>6, <1>10, <2>4, <3>1, <3>3, EnvMeans
        DEF ItemOK, RequestsFor, LeftOf, Idle, ServerCalm
      <4>2. \A d \in left : d.item = i => Cached(d, i)'
        BY <1>1, <1>3, <1>4, Kinds DEF Cached
      <4>3. \A s \in RequestsFor(i)' : s = r /\ c.item = i
        BY <3>2, <4>1
      <4>4. ~Settling(i)
        BY <4>1 DEF Settling
      <4>5. \A d \in LeftOf(i)' : RequestsFor(i)' = {}
        BY <1>4, <4>1, <4>3
      <4>6. cache[i].flag = "none" => cache[i].time = server[i]
        BY <4>1, <4>4 DEF ServerAt
      <4>. QED BY <1>1, <2>1, <3>2, <4>1, <4>2, <4>3, <4>5, <4>6 DEF ServerAt
    <3>. QED BY <3>5, <3>6, <3>7, <3>8 DEF ItemOK
  <2>. QED BY <1>6, <1>7, <2>2, <2>5 DEF Inv
<1>. QED BY <1>6, <1>9, <1>10

(* What the answer to a playback leaves in the cache.                      *)
LEMMA AfterAnswerMeans ==
  ASSUME Types, NEW p \in Player, NEW r \in requests, cache' = AfterAnswer(p, r)
  PROVE  /\ cache' \in [Item -> Entry]
         /\ \A i \in Item : cache'[i].flag # "none" => cache'[i].time # 0
         /\ \A i \in Item : i # r.change.item => cache'[i] = cache[i]
         /\ r.answer # "ok" => cache' = cache
         /\ r.answer = "ok" =>
              LET i == r.change.item
              IN /\ cache'[i].flag = "none"
                 /\ playback[p].type = "deleted" => cache'[i].time = 0
                 /\ playback[p].type # "deleted" => cache'[i].time = cache[i].time
<1>. PICK i : i = r.change.item
  OBVIOUS
<1>1. i \in Item /\ cache \in [Item -> Entry] /\ cache[i] \in Entry
      /\ \A j \in Item : cache[j].flag # "none" => cache[j].time # 0
  BY DEF Types, Asked, Dated, Change
<1>2. CASE r.answer # "ok"
  <2>1. cache' = cache
    BY <1>2 DEF AfterAnswer
  <2>. QED BY <1>1, <1>2, <2>1
<1>3. CASE r.answer = "ok"
  <2>1. Absent \in Entry /\ Absent.flag = "none" /\ Absent.time = 0
    BY CacheAssumption DEF Absent, Entry, Flag, Time, CacheAssumption
  <2>2. /\ [cache[i] EXCEPT !.flag = "none"] \in Entry
        /\ [cache[i] EXCEPT !.flag = "none"].flag = "none"
        /\ [cache[i] EXCEPT !.flag = "none"].time = cache[i].time
    BY <1>1 DEF Entry, Flag
  <2>3. CASE playback[p].type = "deleted" \/ cache[i].time = 0
    <3>1. cache' = [cache EXCEPT ![i] = Absent]
      BY <1>3, <2>3 DEF AfterAnswer
    <3>. QED BY <1>1, <1>3, <2>1, <2>3, <3>1
  <2>4. CASE ~(playback[p].type = "deleted" \/ cache[i].time = 0)
    <3>1. cache' = [cache EXCEPT ![i] = [cache[i] EXCEPT !.flag = "none"]]
      BY <1>3, <2>4 DEF AfterAnswer
    <3>. QED BY <1>1, <1>3, <2>2, <2>4, <3>1
  <2>. QED BY <2>3, <2>4
<1>. QED BY <1>2, <1>3

LEMMA PlaybackAnsweredInv ==
  ASSUME Inv, NEW p \in Player, PlaybackAnswered(p)
  PROVE  Inv'
<1>1. PICK r \in requests : /\ r.by = p /\ r.answer # "waiting"
                            /\ cache' = AfterAnswer(p, r)
                            /\ PopItemQueue(p, playback[p].left, requests \ {r})
  BY DEF PlaybackAnswered
<1>2. /\ UNCHANGED given /\ conflicts' = conflicts /\ disabled' = disabled
      /\ env' = env /\ supportsChangeLog' = supportsChangeLog
      /\ offline' = offline /\ now' = now /\ server' = server
      /\ db' = db /\ owed' = owed
  BY DEF PlaybackAnswered, status, given
<1>3. Types /\ PlayersOK /\ TurnsOK /\ StagesOK /\ now <= now'
      /\ r \in Asked /\ r.change \in Dated /\ r.change.item \in Item
      /\ r.change.time # 0 /\ ~ByUser(r) /\ p # "user"
  BY <1>1, <1>2, TypesMean, CacheAssumption
  DEF Inv, Types, Asked, Dated, Change, ByUser, CacheAssumption
<1>4. /\ playback[p] # Idle /\ r.change.kind = KindOf(playback[p].type)
      /\ \A s \in requests : s.by = p => s = r
  BY <1>1, <1>3 DEF PlayersOK
<1>. PICK left : left = playback[p].left
  OBVIOUS
<1>. PICK others : others = requests \ {r}
  OBVIOUS
<1>5. /\ others \subseteq requests /\ \A s \in others : s.by # p
      /\ left \subseteq Dated
      /\ \A c \in left : /\ c.kind = KindOf(playback[p].type)
                         /\ \A d \in left : d.item = c.item => d = c
      /\ GoesOn(p, left, others)
  BY <1>1, <1>3, <1>4, RunningMeans DEF PlayersOK, GoesOn
<1>6. GoneOn(p, left, others)
  <2>1. Inv /\ playback[p] # Idle /\ UNCHANGED given /\ conflicts' = conflicts /\ disabled' = disabled
        /\ db' = db
    BY <1>2, <1>4
  <2>. QED BY ONLY <2>1, p \in Player, <1>5, PlaybackGoesOn
<1>7. /\ PlayersOK' /\ TurnsOK' /\ StagesOK' /\ requests' \subseteq Asked
      /\ playback' \in [Player -> Running \cup {Idle}]
      /\ \A q \in Player : q # p => playback'[q] = playback[q]
      /\ sync' \in {"idle", "replay", "getItems", "adding", "playback"}
      /\ toAdd' = toAdd /\ mSyncQueue' \in 0..MaxSyncs /\ loading' \in BOOLEAN
      /\ Single => sync \in {"idle", "playback"} /\ sync' # "adding"
  BY <1>6 DEF GoneOn
<1>8. /\ playback'[p].left \subseteq left
      /\ \A s \in requests' :
           \/ s \in requests /\ s # r
           \/ \E c \in left : /\ s = Request(c, p)
                              /\ playback'[p].left = left \ {c}
  BY <1>6 DEF GoneOn
<1>9. \A c : /\ Request(c, p).change = c /\ Request(c, p).answer = "waiting"
             /\ ~ByUser(Request(c, p))
  BY <1>3 DEF Request, ByUser
<1>10. /\ cache' \in [Item -> Entry]
       /\ \A i \in Item : cache'[i].flag # "none" => cache'[i].time # 0
       /\ \A i \in Item : i # r.change.item => cache'[i] = cache[i]
       /\ r.answer # "ok" => cache' = cache
       /\ r.answer = "ok" =>
            /\ cache'[r.change.item].flag = "none"
            /\ playback[p].type = "deleted" => cache'[r.change.item].time = 0
            /\ playback[p].type # "deleted" =>
                 cache'[r.change.item].time = cache[r.change.item].time
  BY <1>1, <1>3, AfterAnswerMeans
<1>11. Types'
  BY <1>2, <1>3, <1>7, <1>10 DEF Types
<1>12. QueueOK'
  BY <1>2, EnvKept DEF Inv, QueueOK
<1>13. Alone => db = <<>> /\ \A s \in requests : ~ByUser(s)
  BY <1>3, <1>4 DEF TurnsOK, Busy
<1>14. Single => requests = {r} /\ \A q \in Player : q # p => playback[q] = Idle
  BY <1>3, <1>4, <1>13, EnvMeans DEF PlayersOK, StagesOK, Types, Asked, ByUser
<1>15. ASSUME NEW i \in Item PROVE ItemOK(i)'
  <2>1. ItemOK(i)
    BY DEF Inv
  <2>2. /\ TasksOn(i)' = TasksOn(i) /\ OwedOf(i)' = OwedOf(i)
        /\ \A d \in LeftOf(i)' : d \in LeftOf(i)
        /\ \A d \in left : d.item = i => d \in LeftOf(i)
    BY <1>2, <1>5, <1>7, <1>8 DEF TasksOn, OwedOf, LeftOf, Dated
  <2>3. \A s \in RequestsFor(i)' :
           \/ s \in RequestsFor(i) /\ s # r
           \/ /\ s.answer = "waiting" /\ ~ByUser(s)
              /\ s.change \in left /\ s.change.item = i
              /\ playback'[p].left = left \ {s.change}
    BY <1>8, <1>9 DEF RequestsFor
  <2>4. Alone => TasksOn(i) = {} /\ \A s \in RequestsFor(i)' : ~ByUser(s)
    BY <1>13, <2>3, EmptyTasks DEF TasksOn, RequestsFor
  <2>5. ApartAt(i)'
    BY <1>2, <2>2, <2>4, EnvKept, EnvMeans DEF ApartAt
  <2>6. (r.answer = "ok" /\ r.change.item = i) \/ cache'[i] = cache[i]
    BY <1>10
  <2>7. OwedAt(i)'
    <3>. SUFFICES ASSUME supportsChangeLog, Calm, i \notin conflicts PROVE OwedAt(i)'
      BY <1>2, EnvKept DEF OwedAt
    <3>1. OwedAt(i)
      BY <2>1 DEF ItemOK
    <3>2. \A c : (Newest(c, i)' <=> Newest(c, i)) /\ (Covers(c, i)' <=> Covers(c, i))
      BY <1>2, <2>2 DEF Newest, Covers
    <3>3. r.answer = "ok" /\ r.change.item = i => OwedOf(i) = {}
      BY <3>1 DEF OwedAt, RequestsFor
    <3>4. \A o \in OwedOf(i) : Kept(o)' /\ o.time <= now
      BY <2>6, <3>1, <3>3 DEF OwedAt, OwedOf, Kept
    <3>5. \A s \in RequestsFor(i)' : s.answer # "ok" => Covers(s.change, i)
      BY <2>2, <2>3, <3>1 DEF OwedAt
    <3>6. \A s \in RequestsFor(i)' : s.answer = "ok" => OwedOf(i) = {}
      BY <2>3, <3>1 DEF OwedAt
    <3>. QED BY <1>2, <2>2, <2>4, <3>1, <3>2, <3>4, <3>5, <3>6, EnvMeans DEF OwedAt
  <2>8. Single => \A s \in RequestsFor(i)' : LeftOf(i)' = {} /\ s.change \in LeftOf(i)
    <3>. SUFFICES ASSUME Single, NEW s \in RequestsFor(i)'
                  PROVE  LeftOf(i)' = {} /\ s.change \in LeftOf(i)
      OBVIOUS
    <3>1. /\ s.change \in left /\ s.change.item = i /\ s.change \in LeftOf(i)
          /\ playback'[p].left = left \ {s.change}
      BY <1>14, <2>2, <2>3 DEF RequestsFor
    <3>2. \A d \in LeftOf(i)' : d \in playback'[p].left /\ d.item = i
      BY <1>7, <1>14 DEF LeftOf, Idle
    <3>. QED BY <1>5, <3>1, <3>2
  <2>9. CreatedAt(i)'
    <3>. SUFFICES ASSUME AddCalm PROVE CreatedAt(i)'
      BY <1>2, EnvKept DEF CreatedAt
    <3>1. CreatedAt(i) /\ Single /\ Alone
      BY <2>1, EnvMeans DEF ItemOK
    <3>2. \A d \in LeftOf(i) : d.kind = "add" => server[i] = 0
      BY <3>1 DEF CreatedAt
    <3>3. \A s \in RequestsFor(i)' : IsAdd(s) => server[i] = 0 /\ ~ByUser(s)
      BY <2>4, <2>8, <3>1, <3>2 DEF IsAdd
    <3>4. cache'[i].flag = "created" => server[i] = 0
      BY <1>10, <1>14, <2>6, <3>1 DEF CreatedAt, RequestsFor
    <3>5. \A d \in LeftOf(i)' : RequestsFor(i)' = {}
      BY <2>8, <3>1
    <3>. QED BY <1>2, <2>2, <2>4, <3>1, <3>2, <3>3, <3>4, <3>5 DEF CreatedAt
  <2>10. ServerAt(i)'
    <3>. SUFFICES ASSUME ServerCalm PROVE ServerAt(i)'
      BY <1>2, EnvKept DEF ServerAt, ServerCalm
    <3>1. ServerAt(i) /\ Single /\ TasksOn(i) = {} /\ sync # "adding" /\ sync' # "adding"
      BY <1>7, <2>1, <2>4, EnvMeans DEF ItemOK, ServerCalm
    <3>2. \A d \in LeftOf(i) : Cached(d, i) /\ RequestsFor(i) = {}
      BY <3>1 DEF ServerAt
    <3>3. LeftOf(i) # {} => cache'[i] = cache[i]
      BY <1>1, <2>6, <3>2 DEF RequestsFor
    <3>4. \A d \in LeftOf(i) : Cached(d, i)'
      BY <3>2, <3>3 DEF Cached
    <3>5. \A s \in RequestsFor(i)' : s.answer = "waiting" /\ Cached(s.change, i)'
      BY <1>14, <2>3, <2>8, <3>1, <3>4 DEF RequestsFor
    <3>6. \A d \in LeftOf(i)' : RequestsFor(i)' = {}
      BY <2>8, <3>1
    <3>7. ~Settling(i)
      BY <1>3, <1>14, <3>1 DEF Settling, RequestsFor
    <3>8. cache'[i].flag = "none" => cache'[i].time = server[i]
      <4>1. CASE cache'[i] = cache[i]
        BY <3>1, <3>7, <4>1 DEF ServerAt
      <4>2. CASE r.answer = "ok" /\ r.change.item = i
        <5>1. Taken(r.change, i) /\ Cached(r.change, i)
          BY <1>3, <3>1, <4>2 DEF ServerAt, RequestsFor
        <5>2. (r.change.kind = "delete") <=> (playback[p].type = "deleted")
          BY <1>3, <1>4, RunningMeans, Kinds
        <5>. QED BY <1>10, <4>2, <5>1, <5>2 DEF Taken, Cached
      <4>. QED BY <2>6, <4>1, <4>2
    <3>. QED BY <1>2, <2>2, <3>1, <3>4, <3>5, <3>6, <3>8 DEF ServerAt
  <2>. QED BY <2>5, <2>7, <2>9, <2>10 DEF ItemOK
<1>. QED BY <1>7, <1>11, <1>12, <1>15 DEF Inv

-----------------------------------------------------------------------------
(* The application starts again.                                           *)
LEMMA RestartInv ==
  ASSUME Inv, Restart
  PROVE  Inv'
<1>1. /\ UNCHANGED given /\ disabled' = disabled
      /\ env' = env /\ supportsChangeLog' = supportsChangeLog
      /\ offline' = offline /\ now' = now /\ server' = server /\ cache' = cache
      /\ owed' = owed /\ "restart" \in env
      /\ db' = <<>> /\ requests' = {} /\ playback' = [p \in Player |-> Idle]
      /\ loading' = FALSE /\ sync' = "idle" /\ mSyncQueue' = 0
      /\ toAdd' = [i \in Item |-> 0]
      /\ conflicts' = conflicts \cup {r.change.item : r \in {q \in requests : q.answer = "ok"}}
  BY DEF Restart, status, given
<1>2. Types /\ ~AddCalm
  BY <1>1, EnvMeans DEF Inv
<1>3. 0 \in 0..MaxSyncs /\ 0 \in Time
  BY CacheAssumption DEF Time, CacheAssumption
<1>4. Types'
  <2>1. conflicts' \subseteq Item
    BY <1>1, <1>2 DEF Types, Asked, Dated, Change
  <2>. QED BY <1>1, <1>2, <1>3, <2>1, EmptyTasks DEF Types
<1>5. PlayersOK' /\ TurnsOK' /\ StagesOK'
  BY <1>1 DEF PlayersOK, TurnsOK, StagesOK, Idle
<1>6. QueueOK'
  BY <1>1, EmptyTasks DEF QueueOK
<1>7. ASSUME NEW i \in Item PROVE ItemOK(i)'
  <2>1. OwedAt(i)
    BY DEF Inv, ItemOK
  <2>2. /\ RequestsFor(i)' = {} /\ TasksOn(i)' = {} /\ LeftOf(i)' = {}
        /\ OwedOf(i)' = OwedOf(i)
    BY <1>1, EmptyTasks DEF RequestsFor, TasksOn, LeftOf, OwedOf, Idle
  <2>3. OwedAt(i)'
    BY <1>1, <2>1, <2>2, EnvKept DEF OwedAt, Kept
  <2>4. ApartAt(i)'
    BY <2>2 DEF ApartAt
  <2>5. CreatedAt(i)' /\ ServerAt(i)'
    BY <1>1, <1>2, EnvKept DEF CreatedAt, ServerAt, ServerCalm
  <2>. QED BY <2>3, <2>4, <2>5 DEF ItemOK
<1>. QED BY <1>4, <1>5, <1>6, <1>7 DEF Inv

LEMMA StutterInv ==
  ASSUME Inv, UNCHANGED vars
  PROVE  Inv'
<1>1. /\ UNCHANGED <<given, conflicts, disabled, offline, now, server, cache, db, requests, playback, owed>>
      /\ UNCHANGED <<loading, sync, mSyncQueue, toAdd>>
      /\ env' = env /\ supportsChangeLog' = supportsChangeLog
  BY DEF vars, syncVars, status, given
<1>2. Types'
  BY <1>1 DEF Inv, Types
<1>3. PlayersOK' /\ TurnsOK' /\ StagesOK'
  BY <1>1, EnvKept DEF Inv, PlayersOK, TurnsOK, StagesOK, Busy
<1>4. QueueOK' /\ \A i \in Item : ItemOK(i)'
  BY <1>1, <1>2, ItemsKept
<1>. QED BY <1>2, <1>3, <1>4 DEF Inv

LEMMA InitInv == Init => Inv
<1>. SUFFICES ASSUME Init PROVE Inv
  OBVIOUS
<1>1. /\ offline = FALSE /\ disabled = FALSE /\ conflicts = {}
      /\ server \in [Item -> {0, 1}] /\ now = 1
      /\ cache = [i \in Item |-> Entries(server[i], "none")]
      /\ db = <<>> /\ requests = {} /\ playback = [p \in Player |-> Idle]
      /\ loading = FALSE /\ sync = "idle" /\ mSyncQueue = 0
      /\ toAdd = [i \in Item |-> 0] /\ owed = {}
  BY DEF Init
<1>2. [env |-> env, log |-> supportsChangeLog] \in Cases
  BY CacheAssumption DEF Init, CacheAssumption
<1>3. 0 \in Time /\ 1 \in Time /\ 1 \in 1..MaxTime /\ 0 \in 0..MaxSyncs
  BY CacheAssumption DEF Time, CacheAssumption
<1>4. \A i \in Item : /\ cache[i] \in Entry
                      /\ cache[i].time = server[i] /\ cache[i].flag = "none"
  BY <1>1, <1>3 DEF Entries, Entry, Flag
<1>5. cache \in [Item -> Entry]
  BY <1>1, <1>4
<1>6. Types
  BY <1>1, <1>2, <1>3, <1>4, <1>5, EmptyTasks DEF Types
<1>7. PlayersOK /\ TurnsOK /\ StagesOK
  BY <1>1 DEF PlayersOK, TurnsOK, StagesOK, Idle
<1>8. QueueOK
  BY <1>1, EmptyTasks DEF QueueOK
<1>9. ASSUME NEW i \in Item PROVE ItemOK(i)
  <2>1. /\ RequestsFor(i) = {} /\ TasksOn(i) = {} /\ LeftOf(i) = {} /\ OwedOf(i) = {}
    BY <1>1, EmptyTasks DEF RequestsFor, TasksOn, LeftOf, OwedOf, Idle
  <2>. QED BY <1>1, <1>4, <2>1
           DEF ItemOK, ApartAt, OwedAt, CreatedAt, ServerAt, Settling
<1>. QED BY <1>6, <1>7, <1>8, <1>9 DEF Inv

LEMMA NextInv ==
  ASSUME Inv, [Next]_vars
  PROVE  Inv'
<1>1. CASE \E i \in Item : AddItem(i) \/ ModifyItem(i) \/ DeleteItem(i)
  BY <1>1, AddItemInv, ChangeItemInv
<1>2. CASE GoOffline \/ Disable
  BY <1>2, GoOfflineInv, DisableInv
<1>3. CASE UserRefreshes
  <2>1. Refresh /\ offline' = offline
        /\ UNCHANGED <<given, conflicts, disabled, now, server, cache, db, requests, owed>>
    BY <1>3 DEF UserRefreshes, status
  <2>2. offline' \in BOOLEAN /\ (offline' => offline)
    BY <2>1 DEF Inv, Types
  <2>. QED BY <2>1, <2>2, RefreshInv
<1>4. CASE GoOnline
  <2>1. Refresh /\ offline' = FALSE
        /\ UNCHANGED <<given, conflicts, disabled, now, server, cache, db, requests, owed>>
    BY <1>4 DEF GoOnline, status
  <2>. QED BY <2>1, RefreshInv
<1>5. CASE DbReads \/ DbCallback
  BY <1>5, DbReadsInv, DbCallbackInv
<1>6. CASE \E r \in requests : ServerTakes(r) \/ ServerRefuses(r) \/ UserAnswered(r)
  BY <1>6, ServerTakesInv, ServerRefusesInv, UserAnsweredInv
<1>7. CASE \E i \in Item : OthersChange(i)
  BY <1>7, OthersChangeInv
<1>8. CASE UncachedLoaded
  BY <1>8, UncachedLoadedInv
<1>9. CASE SyncNext
  BY <1>9, ReplayDoneInv, ItemsGotInv, GetItemsFailedInv, ReconcileInv, AddGotItemInv
  DEF SyncNext
<1>10. CASE \E p \in Player : PlaybackReads(p) \/ PlaybackAnswered(p)
  BY <1>10, PlaybackReadsInv, PlaybackAnsweredInv
<1>11. CASE Restart
  BY <1>11, RestartInv
<1>12. CASE UNCHANGED vars
  BY <1>12, StutterInv
<1>. QED BY <1>1, <1>2, <1>3, <1>4, <1>5, <1>6, <1>7, <1>8, <1>9, <1>10, <1>11, <1>12
         DEF Next, UserNext

LEMMA InvAlways == Spec => []Inv
BY InitInv, NextInv, PTL DEF Spec

-----------------------------------------------------------------------------
(* Every variable has its type: a playback has at most one type and one
   callback, the responders that wait are counted.                         *)
THEOREM TypeCorrect == Spec => []TypeOK
<1>1. ASSUME Inv PROVE TypeOK
  <2>1. Types
    BY <1>1 DEF Inv
  <2>2. \A k \in 1..Len(db) : db[k].change \in Change
    BY <2>1, TasksAreTasks DEF Types, TasksOf, Task, Edits, Dated
  <2>3. \A r \in requests : r.change \in Change /\ r.by \in Player \cup {"user"}
    BY <2>1 DEF Types, Asked, Dated
  <2>4. Idle \in Playbacks /\ Running \subseteq Playbacks
    BY DEF Idle, Playbacks, Running, Dated
  <2>5. playback \in [Player -> Playbacks] /\ owed \subseteq Change /\ now \in Nat
    BY <2>1, <2>4, TypesMean DEF Types, Dated
  <2>. QED BY <2>1, <2>2, <2>3, <2>5 DEF Types, TypeOK
<1>. QED BY <1>1, InvAlways, PTL

(* However many items, changes, playbacks and refreshes of calCachedCalendar.js
   there are, with a server that refuses and restarts at any moment: an offline
   change the user was told of keeps its flag in the cache until the server has
   it.  The exceptions are of the item itself: others change it on the server,
   or an answer about it is lost, so that the replay of the provider may
   overwrite it.                                                           *)
THEOREM OwedIsKeptAlways == Spec => []OwedIsKept
<1>1. ASSUME Inv PROVE OwedIsKept
  <2>. SUFFICES ASSUME supportsChangeLog, Calm, NEW o \in owed
                PROVE  o.item \in conflicts \/ Kept(o)
    BY DEF OwedIsKept, Calm
  <2>1. o.item \in Item /\ o \in OwedOf(o.item)
    BY <1>1 DEF Inv, Types, Dated, Change, OwedOf
  <2>. QED BY <1>1, <2>1 DEF Inv, ItemOK, OwedAt
<1>. QED BY <1>1, InvAlways, PTL

(* What playbackOfflineItems and adoptItem (calCachedCalendar.js) ask the
   server to add is not there already.                                     *)
THEOREM AddFindsNoCopyAlways == Spec => []AddFindsNoCopy
<1>1. ASSUME Inv PROVE AddFindsNoCopy
  <2>. SUFFICES ASSUME AddCalm, NEW r \in requests, r.answer = "waiting",
                       r.change.kind = "add"
                PROVE  server[r.change.item] = 0
    BY DEF AddFindsNoCopy, AddCalm
  <2>1. r.change.item \in Item /\ r \in RequestsFor(r.change.item)
    BY <1>1, RequestItem
  <2>. QED BY <1>1, <2>1 DEF Inv, ItemOK, CreatedAt, IsAdd
<1>. QED BY <1>1, InvAlways, PTL

(* When no callback, answer, playback or synchronisation of
   calCachedCalendar.js is outstanding, what the cache shows without a flag is
   what the server has, whatever came before.                              *)
THEOREM UnflaggedIsServersAlways == Spec => []UnflaggedIsServers
<1>1. ASSUME Inv PROVE UnflaggedIsServers
  <2>. SUFFICES ASSUME ServerCalm, Quiet, NEW i \in Item, cache[i].flag = "none"
                PROVE  cache[i].time = server[i]
    BY DEF UnflaggedIsServers, ServerCalm, AddCalm, Calm, Without
  <2>1. sync = "idle" /\ RequestsFor(i) = {} /\ TasksOn(i) = {}
    BY EmptyTasks DEF Quiet, Busy, RequestsFor, TasksOn
  <2>. QED BY <1>1, <2>1 DEF Inv, ItemOK, ServerAt, Settling
<1>. QED BY <1>1, InvAlways, PTL
=============================================================================
