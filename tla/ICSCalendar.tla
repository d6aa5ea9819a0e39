---------------------------- MODULE ICSCalendar ----------------------------
(***************************************************************************)
(* The provider of calendars that are one iCalendar file, on a web server  *)
(* or on disk (calICSCalendar). It reads the file into a memory calendar,  *)
(* applies the user's changes there and uploads all of it. While a         *)
(* download or an upload lasts the calendar is locked and requests wait in *)
(* a queue; the hooks of the transport (httpHooks, fileHooks) compare the  *)
(* version of the file with the one last seen.                             *)
(*                                                                         *)
(* An operation of the calendar runs to its end before another event is    *)
(* handled, so its state is one record and the methods are operators that  *)
(* take the record and return it changed.                                  *)
(***************************************************************************)
EXTENDS Naturals, Sequences

CONSTANTS
  Item,
  MaxChanges,       \* bound: changes the user requests
  MaxRefreshes,     \* bound: refreshes besides the one at startup
  MaxOthers,        \* bound: changes of others to the file
  Cases             \* [env, hooks]: the circumstances and the transport, one
                    \* of which each behaviour has

Circumstances ==
  { "pipelined",    \* the user makes a request while the calendar is locked
    "others",       \* others change the file
    "race",         \* they do between an upload and the look at its version
    "noEtag",       \* the server does not name the version an upload has made
    "badAnswer",    \* its answer when asked for that version is not UTF-8
    "unversioned",  \* it does not name the version of the file it sends
    "neverLoaded",  \* the download at startup fails
    "getFails",     \* a later download fails
    "putFails",     \* an upload fails on its way
    "openFails",    \* the channel of an upload cannot be opened
    "answerLost",   \* the answer to an upload that was stored is lost
    "notUtf8",      \* others leave a file that is not UTF-8
    "notIcs",       \* others leave a file that the parser cannot read
    "gone" }        \* an item to be deleted is gone when its turn comes

ASSUME ICSAssumption ==
  /\ MaxChanges \in Nat /\ MaxRefreshes \in Nat /\ MaxOthers \in Nat
  /\ Cases \subseteq [env : SUBSET Circumstances, hooks : {"http", "file"}]

VARIABLES
  case,
  cal,              \* the calICSCalendar
  answer,           \* what the listener of each change was told
  file,             \* the file, external
  made,             \* how much was requested and changed by others so far
  stored,           \* history: the changes an upload has stored
  unasked           \* history: items an upload changed though no change it
                    \* answers for asked to

vars == <<case, cal, answer, file, made, stored, unasked>>

Has(circumstance) == circumstance \in case.env
Without(circumstances) == case.env \cap circumstances = {}
Http == case.hooks = "http"

Change == 1..MaxChanges
Callback == {"get", "backup", "put", "answer", "etag"}
Content == [v : 0..2, g : 0..MaxChanges]     \* value, X-MOZ-GENERATION
Absent == [v |-> 0, g |-> 0]
NoItems == [i \in Item |-> Absent]

-----------------------------------------------------------------------------
(* The queue. The memory calendar calls back at once.                      *)

Await(c, callback) == [c EXCEPT !.pending[callback] = @ + 1]
Received(c, callback) == [c EXCEPT !.pending[callback] = @ - 1]
Lock(c) == [c EXCEPT !.locked = TRUE]

(* A failure in the memory calendar reaches calICSObserver.onError.        *)
Accepted(c, op) ==
  [c EXCEPT !.mem[op.item] = op.new,
            !.actions = Append(@, [n |-> op.n, ok |-> TRUE, item |-> op.item])]
Rejected(c, op) ==
  [c EXCEPT !.readOnly = TRUE,
            !.actions = Append(@, [n |-> op.n, ok |-> FALSE, item |-> op.item])]

ModifyMemory(c, op) ==
  IF c.mem[op.item] = op.old THEN Accepted(c, op) ELSE Rejected(c, op)
DeleteMemory(c, op) ==
  IF c.mem[op.item].g = op.old.g THEN Accepted(c, op) ELSE Rejected(c, op)

(* One round of processQueue's loop, which stops at a refresh or when the  *)
(* deletion of an item that is gone throws.                                *)
Perform(b, op) ==
  IF b.stop # "no" THEN [b EXCEPT !.rest = Append(@, op)]
  ELSE CASE op.kind = "refresh" -> [b EXCEPT !.stop = "refresh", !.refresh = op]
         [] op.kind = "add" -> [b EXCEPT !.c = Accepted(@, op), !.write = TRUE]
         [] op.kind = "modify" ->
              [b EXCEPT !.c = ModifyMemory(@, op), !.write = TRUE]
         [] op.kind = "delete" /\ b.c.mem[op.item] = Absent ->
              [b EXCEPT !.stop = "threw"]
         [] OTHER -> [b EXCEPT !.c = DeleteMemory(@, op), !.write = TRUE]

Round(c) ==
  LET round[k \in 0..Len(c.queue)] ==
        IF k = 0
        THEN [c |-> c, rest |-> <<>>, write |-> FALSE, stop |-> "no",
              refresh |-> [kind |-> "none"]]
        ELSE Perform(round[k - 1], c.queue[k])
  IN round[Len(c.queue)]
Throws(c) == ~c.locked /\ Round(c).stop = "threw"

WriteICS(c) == Await(Lock(c), "backup")

(* Without an ETag the date of the file last read is asked about.          *)
LastSeen(c) == IF c.etag # 0 THEN c.etag ELSE c.modified
DoRefreshUnforced(c, forced) ==  \* faulty
  Await([Lock(c) EXCEPT !.known = LastSeen(c)], "get")
DoRefresh(c, forced) ==
  Await([Lock(c) EXCEPT !.known = IF forced THEN 0 ELSE LastSeen(c)], "get")

ProcessQueueDropping(c) ==  \* faulty: a refresh does without the write
  IF c.locked THEN c
  ELSE LET b == Round(c)
           left == [b.c EXCEPT !.queue = b.rest]
       IN IF b.stop = "refresh" THEN DoRefresh(left, b.refresh.forced)
          ELSE IF b.write /\ b.stop = "no" THEN WriteICS(left) ELSE left
ProcessQueue(c) ==
  IF c.locked THEN c
  ELSE LET b == Round(c)
           left == [b.c EXCEPT !.queue = b.rest]
       IN CASE b.stop = "threw" -> left
            [] b.stop # "threw" /\ b.write ->
                 WriteICS(IF b.stop = "refresh"
                          THEN [left EXCEPT !.queue = <<b.refresh>> \o @] ELSE left)
            [] b.stop = "refresh" /\ ~b.write -> DoRefresh(left, b.refresh.forced)
            [] OTHER -> left

Enqueue(c, op) == ProcessQueue([c EXCEPT !.queue = Append(@, op)])
Refresh(c, forced) == Enqueue(c, [kind |-> "refresh", forced |-> forced])

(* unlock answers the changes the memory calendar has, all as failed when  *)
(* there is an error, and goes on with the queue.                          *)
Answers(c, failed) ==
  [n \in Change |->
     IF \E k \in DOMAIN c.actions : c.actions[k].n = n
     THEN IF ~failed /\ \E k \in DOMAIN c.actions : c.actions[k].n = n /\ c.actions[k].ok
          THEN "ok" ELSE "failed"
     ELSE answer[n]]
Released(c) == [c EXCEPT !.actions = <<>>, !.locked = FALSE]
UnlockOnly(c, failed) ==  \* faulty
  /\ answer' = Answers(c, failed)
  /\ cal' = Released(c)
Unlock(c, failed) ==
  /\ answer' = Answers(c, failed)
  /\ cal' = ProcessQueue(Released(c))

ReadOnly(c) == [c EXCEPT !.readOnly = TRUE]

-----------------------------------------------------------------------------
(* Download.                                                               *)

NotModified == cal.known # 0 /\ cal.known = file.version

(* onStreamComplete: a failure and an unchanged file keep the data. What   *)
(* is not UTF-8 makes the calendar read-only; what does not parse is no    *)
(* items, because onParsingComplete does not look at its rc.               *)
GetAnswered ==
  /\ cal.pending["get"] > 0
  /\ LET c == Received(cal, "get")
         seen == [c EXCEPT !.modified = file.version,
                   !.etag = IF Http /\ Has("unversioned") THEN 0 ELSE file.version]
     IN \/ /\ Has(IF cal.loaded THEN "getFails" ELSE "neverLoaded")
           /\ Unlock(c, FALSE)
        \/ /\ NotModified
           /\ Unlock(c, FALSE)
        \/ /\ ~NotModified
           /\ ~cal.loaded => ~Has("neverLoaded")
           /\ CASE file.form = "notUtf8" -> Unlock(ReadOnly(seen), FALSE)
                [] file.form = "notIcs" ->
                     Unlock([seen EXCEPT !.mem = NoItems, !.loaded = TRUE], FALSE)
                [] OTHER ->
                     Unlock([seen EXCEPT !.mem = file.items, !.loaded = TRUE], FALSE)
  /\ UNCHANGED <<case, file, made, stored, unasked>>

-----------------------------------------------------------------------------
(* Upload. *)

PutFails(c) ==  \* onStopRequest
  LET queued == [ReadOnly(c) EXCEPT
                   !.queue = Append(@, [kind |-> "refresh", forced |-> TRUE])]
  IN Unlock(ProcessQueue(queued), TRUE)

BackupDoneUnmatched ==  \* faulty: the upload names no version
  /\ cal.pending["backup"] > 0
  /\ cal' = Await([Received(cal, "backup") EXCEPT !.body = cal.mem, !.match = 0], "put")
  /\ UNCHANGED <<case, answer, file, made, stored, unasked>>

(* The backup is a download whose outcome does not matter. doWriteICS then *)
(* serialises the memory calendar, and opens the channel if the hook finds *)
(* no change. If that throws, the refresh comes after the unlock.          *)
BackupDone ==
  /\ cal.pending["backup"] > 0
  /\ LET c == Received(cal, "backup")
         changed == ~Http /\ c.etag # 0 /\ c.etag # file.version
     IN \/ /\ changed
           /\ Unlock(ReadOnly(c), TRUE)
        \/ /\ ~changed /\ Has("openFails")
           /\ answer' = Answers(c, TRUE)
           /\ cal' = Refresh(ProcessQueue(Released(ReadOnly(c))), TRUE)
        \/ /\ ~changed
           /\ cal' = Await([c EXCEPT !.body = c.mem, !.match = c.etag], "put")
           /\ UNCHANGED answer
  /\ UNCHANGED <<case, file, made, stored, unasked>>

Matches == Http /\ cal.match # 0 => cal.match = file.version

(* The server stores the upload.                                           *)
PutStored ==
  /\ cal.pending["put"] > 0 /\ Matches
  /\ file' = [items |-> cal.body, version |-> file.version + 1, form |-> "ok"]
  /\ cal' = Await(Received([cal EXCEPT !.ours = file'.version], "put"), "answer")
  /\ stored' = stored \cup
       {cal.actions[k].n : k \in {j \in DOMAIN cal.actions : cal.actions[j].ok}}
  /\ unasked' = unasked \cup
       {i \in Item : /\ file'.items[i] # file.items[i]
                     /\ ~\E k \in DOMAIN cal.actions : cal.actions[k].item = i}
  /\ UNCHANGED <<case, answer, made>>

PutRefused ==
  /\ cal.pending["put"] > 0
  /\ ~Matches \/ Has("putFails")
  /\ PutFails(Received(cal, "put"))
  /\ UNCHANGED <<case, file, made, stored, unasked>>

(* onAfterPut takes the version from the answer or the file. Without an    *)
(* ETag it asks the server for it; it does so, too, when the unlock it     *)
(* calls inside its try block throws.                                      *)
PutAnswered ==
  /\ cal.pending["answer"] > 0
  /\ LET c == Received(cal, "answer") IN
     \/ /\ Has("answerLost")
        /\ PutFails(c)
     \/ /\ Http /\ Has("noEtag")
        /\ cal' = Await(c, "etag")
        /\ UNCHANGED answer
     \/ /\ ~(Http /\ Has("noEtag"))
        /\ LET done == [c EXCEPT !.etag = IF Http THEN c.ours ELSE file.version] IN
           IF Http /\ Throws(Released(done))
           THEN /\ answer' = Answers(done, FALSE)
                /\ cal' = Await(ProcessQueue(Released(done)), "etag")
           ELSE Unlock(done, FALSE)
  /\ UNCHANGED <<case, file, made, stored, unasked>>

(* The answer has another root than the one looked for, so that no version *)
(* is found. What cannot be read makes the listener throw.                 *)
EtagAnswered ==
  /\ cal.pending["etag"] > 0
  /\ LET c == Received(cal, "etag") IN
     \/ Unlock([c EXCEPT !.etag = 0], FALSE)
     \/ Has("badAnswer") /\ cal' = c /\ UNCHANGED answer
  /\ UNCHANGED <<case, file, made, stored, unasked>>

-----------------------------------------------------------------------------
(* The user, who sees the memory calendar, and the others.                 *)

Waits(kind, i) ==
  \E k \in DOMAIN cal.queue : cal.queue[k].kind = kind /\ cal.queue[k].item = i
MayBeGone(i) ==
  \/ Waits("delete", i) \/ cal.pending["get"] > 0
  \/ \E k \in DOMAIN cal.queue : cal.queue[k].kind = "refresh"

Request(kind, i, new) ==
  /\ ~cal.readOnly
  /\ cal.locked => Has("pipelined")
  /\ made.changes < MaxChanges
  /\ made' = [made EXCEPT !.changes = @ + 1]
  /\ cal' = Enqueue(cal, [kind |-> kind, item |-> i, old |-> cal.mem[i],
                          new |-> new, n |-> made.changes + 1])
  /\ UNCHANGED <<case, answer, file, stored, unasked>>

AdoptItem(i) ==
  /\ cal.mem[i] = Absent /\ ~Waits("add", i)
  /\ Request("add", i, [v |-> 1, g |-> 0])

ModifyItem(i) ==
  /\ cal.mem[i] # Absent
  /\ Request("modify", i, [v |-> 3 - cal.mem[i].v, g |-> cal.mem[i].g + 1])

DeleteItem(i) ==
  /\ cal.mem[i] # Absent
  /\ MayBeGone(i) => Has("gone")
  /\ Request("delete", i, Absent)

RefreshRequested ==
  /\ made.refreshes < MaxRefreshes
  /\ made' = [made EXCEPT !.refreshes = @ + 1]
  /\ cal' = Refresh(cal, FALSE)
  /\ UNCHANGED <<case, answer, file, stored, unasked>>

(* In the calendar's properties. *)
EnableWriting ==
  /\ cal.readOnly
  /\ cal' = [cal EXCEPT !.readOnly = FALSE]
  /\ UNCHANGED <<case, answer, file, made, stored, unasked>>

OthersChange ==
  /\ Has("others") /\ made.others < MaxOthers
  /\ ~Http /\ cal.pending["put"] + cal.pending["answer"] > 0 => Has("race")
  /\ made' = [made EXCEPT !.others = @ + 1]
  /\ \/ \E i \in Item : \E new \in {Absent, [file.items[i] EXCEPT !.v = IF @ = 1 THEN 2 ELSE 1]} :
          /\ new # file.items[i]
          /\ file' = [items |-> [file.items EXCEPT ![i] = new],
                      version |-> file.version + 1, form |-> "ok"]
     \/ \E form \in {"notUtf8", "notIcs"} \cap case.env :
          file' = [file EXCEPT !.version = @ + 1, !.form = form]
  /\ UNCHANGED <<case, cal, answer, stored, unasked>>

-----------------------------------------------------------------------------
(* registerCalendar and assureCache refresh a calendar at once.            *)
Init ==
  /\ case \in Cases
  /\ \E items \in [Item -> {Absent, [v |-> 1, g |-> 0]}] :
       file = [items |-> items, version |-> 1, form |-> "ok"]
  /\ cal = Refresh([queue |-> <<>>, actions |-> <<>>, locked |-> FALSE,
                    pending |-> [b \in Callback |-> 0], mem |-> NoItems,
                    etag |-> 0, modified |-> 0, readOnly |-> FALSE, known |-> 0,
                    body |-> NoItems, match |-> 0, ours |-> 0,
                    loaded |-> FALSE], FALSE)
  /\ answer = [n \in Change |-> "none"]
  /\ made = [changes |-> 0, refreshes |-> 0, others |-> 0]
  /\ stored = {} /\ unasked = {}

Network == GetAnswered \/ BackupDone \/ PutStored \/ PutRefused \/ PutAnswered
           \/ EtagAnswered

Next ==
  \/ Network
  \/ \E i \in Item : AdoptItem(i) \/ ModifyItem(i) \/ DeleteItem(i)
  \/ RefreshRequested \/ EnableWriting \/ OthersChange

Spec == Init /\ [][Next]_vars

(* Every download and every upload is answered in the end.                 *)
FairSpec == Spec /\ WF_vars(Network)

-----------------------------------------------------------------------------
(* The variables have their types. The calendar waits for one callback at  *)
(* a time and is locked while it does; unless processQueue was left by an  *)
(* exception or the answer to a PROPFIND could not be read, it is locked   *)
(* only then.                                                              *)
TypeOK ==
  /\ case \in Cases
  /\ cal.mem \in [Item -> Content] /\ cal.body \in [Item -> Content]
  /\ file.items \in [Item -> Content]
  /\ {cal.etag, cal.modified, cal.match} \subseteq 0..file.version
  /\ cal.pending \in [Callback -> Nat]
  /\ answer \in [Change -> {"none", "ok", "failed"}]
  /\ stored \subseteq Change /\ unasked \subseteq Item
  /\ Without({"gone"}) =>
       /\ \A b \in Callback : cal.pending[b] <= 1
       /\ \A b, d \in Callback : cal.pending[b] + cal.pending[d] = 2 => b = d
       /\ (\E b \in Callback : cal.pending[b] > 0) => cal.locked
       /\ cal.locked => Has("badAnswer") \/ \E b \in Callback : cal.pending[b] > 0
       /\ ~cal.locked => cal.queue = <<>> /\ cal.actions = <<>>

(* An upload replaces the whole file, yet it changes only the items of the *)
(* changes it answers for: it neither drops what others did nor brings     *)
(* back what was answered as failed. Of a server that does not name the    *)
(* versions this holds as long as nobody else changes the file: the        *)
(* version is not known then, and the upload is not conditional.           *)
UploadChangesWhatWasAsked ==
  /\ Without({"others"}) \/ Without({"noEtag", "unversioned"})
  /\ Without({"neverLoaded", "race", "notUtf8", "notIcs", "gone"})
  /\ Without({"pipelined", "getFails"}) \/ Without({"putFails", "openFails"})
  => unasked = {}

(* A change is answered as successful only when an upload has stored it.   *)
OkIsStored ==
  Without({"gone"}) => \A n \in Change : answer[n] = "ok" => n \in stored

(* A calendar that is at rest and has the version of the file shows what   *)
(* is in the file, also after an upload that failed; so does one without a *)
(* version when nobody else changes the file.                              *)
RestShowsFile ==
  /\ Without({"race", "notUtf8", "notIcs", "gone"})
  /\ Without({"getFails", "neverLoaded"}) \/ Without({"putFails", "openFails"})
  /\ ~cal.locked
  /\ \/ cal.etag = file.version
     \/ cal.etag = 0 /\ cal.loaded /\ Without({"others"})
  => cal.mem = file.items

(* Every change is answered in the end, unless a listener was left by an   *)
(* exception while the calendar was locked.                                *)
EveryChangeAnswered ==
  Without({"gone", "badAnswer"}) =>
    \A n \in Change : (made.changes >= n) ~> (answer[n] # "none")

(* A file that could not be read makes the calendar read-only, so that it  *)
(* is not written over.                                                    *)
UnreadableIsReadOnly ==
  ~cal.locked /\ cal.etag = file.version /\ file.form # "ok" => cal.readOnly
=============================================================================
