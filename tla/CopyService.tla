---------------------------- MODULE CopyService ----------------------------
(***************************************************************************)
(* nsMsgCopyService (mailnews/base/src/nsMsgCopyService.cpp): the queue    *)
(* every message copy, message move, folder copy and file append goes      *)
(* through.  A request is submitted with a listener; the destination       *)
(* folder does the work and reports back with NotifyCompletion, naming     *)
(* only the source and the destination, so the service has to find out     *)
(* which request that was.                                                 *)
(*                                                                         *)
(* Everything runs on the UI thread.  Concurrency comes from re-entrancy:  *)
(* a destination may report completion before its CopyMessages returns, a  *)
(* listener's OnStopCopy may submit the next copy, and the service calls   *)
(* both in the middle of its own loops.  callStack holds the activations   *)
(* of the service that have not returned, newest first; what is below the  *)
(* top resumes only when the top returns.                                  *)
(***************************************************************************)
EXTENDS Integers, SequencesExt

CONSTANTS
  Request,      \* nsCopyRequest objects, numbered in the order of creation
  Folder,       \* nsIMsgFolder objects
  File,         \* nsIFile objects appended by CopyFileMessage
  NoFolder,     \* nullptr
  NewFolder,    \* the folder object a folder copy creates
  Parent,       \* Folder -> Folder, or NoFolder for a folder of no interest
  NameOf,       \* Folder -> Name
  NoName,       \* the empty m_dstFolderName of requests that copy no folder
  RenamedTo,    \* the "name(2)" a move invents when the name is taken
  MaxSources,   \* bound: source folders of one CopyMessages
  Env           \* which of Circumstances the callers and folders show

Circumstances ==
  { "reentrant",  \* listeners submit a copy from OnStopCopy
    "duplicate",  \* a (source, destination) pair is queued twice
    "retry",      \* a listener submits again the pair it is told about
    "refuse",     \* CopyFolder returns an error and does not notify
    "silent",     \* an operation ends and nobody is notified
    "tells",      \* a folder calls a request's listener itself
    "strays",     \* a folder copy is reported as a pair no request has
    "rename",     \* a moved folder ends up under another name
    "abort" }     \* a send is cancelled while its file copy is in flight

Names == {NameOf[f] : f \in Folder} \cup {RenamedTo}

ASSUME CopyAssumption ==
  /\ Request \subseteq Nat
  /\ NoFolder \notin Folder \cup File
  /\ NewFolder \notin Folder \cup File \cup {NoFolder}
  /\ Folder \cap File = {}
  /\ Parent \in [Folder -> Folder \cup {NoFolder}]
  /\ NameOf \in [Folder -> Names]
  /\ NoName \notin Names
  /\ MaxSources \in Nat \ {0}
  /\ Env \subseteq Circumstances

VARIABLES
  m_copyRequests,  \* the queue, oldest request first
  req,             \* what each created request holds
  starts,          \* OnStartCopy calls of the service to each listener
  stops,           \* OnStopCopy calls of the service to each listener
  told,            \* OnStopCopy calls of the folders to each listener
  inFlight,        \* <<request, source>> operations a folder is working on
  copied,          \* operations a folder has finished with success
  undoBatches,     \* requests whose transaction batch is open
  callStack,       \* activations of the service, newest first
  alive            \* FALSE once the service is destroyed

vars == <<m_copyRequests, req, starts, stops, told, inFlight, copied,
          undoBatches, callStack, alive>>

NotCreated == [type |-> "none"]

(* nsCopyRequest.  handled is the set of sources whose m_processed is set;
   source 0 stands for "no nsCopySource at all".                           *)
CopyRequest ==
  [type : {"messages", "folders", "file"}, src : Folder \cup File,
   dst : Folder, dstName : Names \cup {NoName},
   sources : Seq(Folder \cup {NoFolder}), handled : SUBSET Nat,
   processed : BOOLEAN]

(* What NotifyCompletion is told, and what FindRequest reads from it.      *)
Key == [src : Folder \cup File \cup {NewFolder}, dst : Folder \cup {NewFolder},
        parent : Folder \cup {NoFolder}, name : Names]

Frame ==
  [op : {"DoNextCopy"}]
    \cup [op : {"Copying"}, r : Request, s : Nat, notified : BOOLEAN]
    \cup [op : {"NotifyCompletion"}, key : Key, ok : BOOLEAN, num : Int]
    \cup [op : {"OnStopCopy"}, r : Request, ok : BOOLEAN]

Top == Head(callStack)
Running(op) == callStack # <<>> /\ Top.op = op
Push(stack, frame) == <<frame>> \o stack

Listed(r) == \E i \in DOMAIN m_copyRequests : m_copyRequests[i] = r

Init ==
  /\ m_copyRequests = <<>>
  /\ req = [r \in Request |-> NotCreated]
  /\ starts = [r \in Request |-> 0]
  /\ stops = [r \in Request |-> 0]
  /\ told = [r \in Request |-> 0]
  /\ inFlight = {}
  /\ copied = {}
  /\ undoBatches = {}
  /\ callStack = <<>>
  /\ alive = TRUE

-----------------------------------------------------------------------------
(* Submitting a request.                                                   *)

(* The UI thread can enter the service from its event loop, or from a
   listener the service is calling.                                        *)
MayCall == /\ alive
           /\ \/ callStack = <<>>
              \/ "reentrant" \in Env /\ Running("OnStopCopy")

(* nsIMsgCopyService.idl: "aSupport and dstFolder uniquely identify a copy
   service request".  Callers that keep to it do not submit a pair that is
   queued, or whose completion the service is still handling.              *)
PairIsQueued(src, dst) ==
  \E r \in Request : Listed(r) /\ req[r].src = src /\ req[r].dst = dst

PairIsCompleting(src, dst) ==
  \E i \in DOMAIN callStack :
    /\ callStack[i].op = "NotifyCompletion"
    /\ callStack[i].key.src = src
    /\ dst \in {callStack[i].key.dst, callStack[i].key.parent}

(* r is the next object to be created.                                     *)
IsNext(r) == /\ req[r] = NotCreated
             /\ \A q \in Request : q < r => req[q] # NotCreated

(* A faulty variant that leaves every request to the next completion.       *)
CopyImmediatelyNever(new) == FALSE

(* QueueRequest: is there no request to wait for?                          *)
CopyImmediately(new) ==
  \A i \in DOMAIN m_copyRequests :
    LET old == req[m_copyRequests[i]] IN
    \/ old.dst # new.dst
    \/ new.type = "folders" /\ old.dstName # new.dstName

(* DoCopy                                                                  *)
DoCopy(r, new) ==
  /\ m_copyRequests' = Append(m_copyRequests, r)
  /\ callStack' = IF CopyImmediately(new)
                    THEN Push(callStack, [op |-> "DoNextCopy"])
                    ELSE callStack

(* A faulty variant that does not keep the name of a copied folder.         *)
NewRequestUnnamed(type, src, dst, sources) ==
  [type |-> type, src |-> src, dst |-> dst, dstName |-> NoName,
   sources |-> sources,
   handled |-> {s \in DOMAIN sources : sources[s] = dst},
   processed |-> FALSE]

(* nsCopyRequest::Init and AddNewCopySource: a source that is the
   destination itself counts as processed from the start.                  *)
NewRequest(type, src, dst, sources) ==
  [type |-> type, src |-> src, dst |-> dst,
   dstName |-> IF type = "folders" THEN NameOf[src] ELSE NoName,
   sources |-> sources,
   handled |-> {s \in DOMAIN sources : sources[s] = dst},
   processed |-> FALSE]

Submit(r, type, src, dst, sources) ==
  /\ MayCall
  /\ IsNext(r)
  /\ PairIsQueued(src, dst) => "duplicate" \in Env
  /\ PairIsCompleting(src, dst) => "retry" \in Env
  /\ LET new == NewRequest(type, src, dst, sources) IN
       /\ req' = [req EXCEPT ![r] = new]
       /\ DoCopy(r, new)
  /\ UNCHANGED <<starts, stops, told, inFlight, copied, alive>>

(* The ways CopyMessages can split the messages by their folders.          *)
Groupings(src) ==
  {g \in UNION {[1..n -> Folder] : n \in 1..MaxSources} :
     /\ \E i \in DOMAIN g : g[i] = src
     /\ \A i, j \in DOMAIN g : g[i] = g[j] => i = j}

CopyMessages(r) ==
  \E src, dst \in Folder : \E sources \in Groupings(src) :
    /\ src # dst
    /\ Submit(r, "messages", src, dst, sources)
    /\ undoBatches' = IF Len(sources) > 1 THEN undoBatches \cup {r}
                                          ELSE undoBatches

(* CopyMessages with no messages: the listener is called back on the spot. *)
CopyNoMessages(r) ==
  /\ MayCall
  /\ IsNext(r)
  /\ \E src, dst \in Folder :
       req' = [req EXCEPT ![r] = NewRequest("messages", src, dst, <<>>)]
  /\ starts' = [starts EXCEPT ![r] = @ + 1]
  /\ stops' = [stops EXCEPT ![r] = @ + 1]
  /\ callStack' = Push(callStack, [op |-> "OnStopCopy", r |-> r, ok |-> TRUE])
  /\ UNCHANGED <<m_copyRequests, told, inFlight, copied, undoBatches, alive>>

CopyFolders(r) ==
  \E src, dst \in Folder :
    /\ src # dst
    /\ Submit(r, "folders", src, dst, <<src>>)
    /\ UNCHANGED undoBatches

(* CopyFileMessage has one source, the message to replace, or none.        *)
CopyFileMessage(r) ==
  \E file \in File, dst \in Folder : \E sources \in {<<>>, <<NoFolder>>} :
    /\ Submit(r, "file", file, dst, sources)
    /\ UNCHANGED undoBatches

-----------------------------------------------------------------------------
(* DoNextCopy: the FIFO scan for a request whose target is not in use.     *)

AllSourcesProcessed(r) == DOMAIN req[r].sources \subseteq req[r].handled

(* A request the scan counts as being copied (or copied already).          *)
Processed(r) ==
  \/ req[r].processed
  \/ req[r].sources # <<>> /\ AllSourcesProcessed(r)

(* A faulty scan that does not look for active targets.                     *)
TargetNeverActive(i) == FALSE

TargetActiveBefore(i) ==
  \E j \in 1..(i - 1) :
    /\ Processed(m_copyRequests[j])
    /\ req[m_copyRequests[j]].dst = req[m_copyRequests[i]].dst

Startable(i) == ~Processed(m_copyRequests[i]) /\ ~TargetActiveBefore(i)

(* The source the scan stops at; 0 for a request without sources.          *)
IsNextSource(r, s) ==
  \/ req[r].sources = <<>> /\ s = 0
  \/ /\ s \in DOMAIN req[r].sources \ req[r].handled
     /\ 1..(s - 1) \subseteq req[r].handled

(* m_processed is stored for requests the scan passes over, up to n.       *)
MarkScanned(n) ==
  [r \in Request |->
     IF \E i \in 1..n : /\ m_copyRequests[i] = r
                        /\ Processed(r)
                        /\ ~TargetActiveBefore(i)
       THEN [req[r] EXCEPT !.processed = TRUE]
       ELSE req[r]]

StartSource(r, s, scanned) ==
  [scanned EXCEPT ![r].handled = @ \cup ({s} \ {0}),
                  ![r].processed = (@ \/ scanned[r].type = "file")]

(* A faulty scan that takes the youngest startable request.                 *)
NewestStarts(i, s) ==
  LET r == m_copyRequests[i]
  IN /\ Startable(i)
     /\ \A j \in (i + 1)..Len(m_copyRequests) : ~Startable(j)
     /\ IsNextSource(r, s)
     /\ starts' = [starts EXCEPT ![r] = @ + 1]
     /\ req' = StartSource(r, s, MarkScanned(i - 1))
     /\ callStack' = Push(Tail(callStack), [op |-> "Copying", r |-> r,
                                            s |-> s, notified |-> FALSE])

DoNextCopyStarts(i, s) ==
  LET r == m_copyRequests[i]
  IN /\ Startable(i)
     /\ \A j \in 1..(i - 1) : ~Startable(j)
     /\ IsNextSource(r, s)
     /\ starts' = [starts EXCEPT ![r] = @ + 1]
     /\ req' = StartSource(r, s, MarkScanned(i - 1))
     /\ callStack' = Push(Tail(callStack), [op |-> "Copying", r |-> r,
                                            s |-> s, notified |-> FALSE])

DoNextCopyFindsNone ==
  /\ \A i \in DOMAIN m_copyRequests : ~Startable(i)
  /\ req' = MarkScanned(Len(m_copyRequests))
  /\ callStack' = Tail(callStack)
  /\ UNCHANGED starts

DoNextCopy ==
  /\ Running("DoNextCopy")
  /\ \/ \E i \in DOMAIN m_copyRequests, s \in 0..MaxSources :
          DoNextCopyStarts(i, s)
     \/ DoNextCopyFindsNone
  /\ UNCHANGED <<m_copyRequests, stops, told, inFlight, copied, undoBatches,
                 alive>>

-----------------------------------------------------------------------------
(* FindRequest and ClearRequest.                                           *)

SameSource(r, key) ==
  req[r].type = "folders" => /\ req[r].src = key.src
                             /\ req[r].dst = key.parent

(* A faulty variant that identifies message requests by target alone.       *)
MatchesAnySource(r, key) ==
  IF req[r].type = "folders"
    THEN SameSource(r, key) /\ req[r].dstName = key.name
    ELSE req[r].dst = key.dst

Matches(r, key) ==
  IF req[r].type = "folders"
    THEN SameSource(r, key) /\ req[r].dstName = key.name
    ELSE req[r].src = key.src /\ req[r].dst = key.dst

(* Position i is the one FindRequest returns.  A folder request that differs
   only in the name is not reset to null before the loop goes on, so when
   nothing matches the last request of the queue may be returned.          *)
FindRequest(i, key) ==
  LET n == Len(m_copyRequests)
      hit(j) == Matches(m_copyRequests[j], key)
  IN \/ hit(i) /\ \A j \in 1..(i - 1) : ~hit(j)
     \/ /\ i = n
        /\ \A j \in 1..n : ~hit(j)
        /\ req[m_copyRequests[n]].type = "folders"
        /\ SameSource(m_copyRequests[n], key)

(* A faulty variant that does not call EndBatch.                            *)
ClearRequestKeepsBatch(r, ok, stack) ==
  /\ m_copyRequests' = RemoveFirst(m_copyRequests, r)
  /\ stops' = [stops EXCEPT ![r] = @ + 1]
  /\ callStack' = Push(stack, [op |-> "OnStopCopy", r |-> r, ok |-> ok])
  /\ UNCHANGED undoBatches

(* ClearRequest, with the listener's activation pushed on stack.           *)
ClearRequest(r, ok, stack) ==
  /\ m_copyRequests' = RemoveFirst(m_copyRequests, r)
  /\ undoBatches' = undoBatches \ {r}
  /\ stops' = [stops EXCEPT ![r] = @ + 1]
  /\ callStack' = Push(stack, [op |-> "OnStopCopy", r |-> r, ok |-> ok])

OnStopCopyReturns ==
  /\ Running("OnStopCopy")
  /\ callStack' = Tail(callStack)
  /\ UNCHANGED <<m_copyRequests, req, starts, stops, told, inFlight, copied,
                 undoBatches, alive>>

-----------------------------------------------------------------------------
(* The destination folder's CopyMessages, CopyFolder or CopyFileMessage,
   called from DoNextCopy.                                                 *)

(* A folder copy may be reported as a pair FindRequest cannot match: a copy
   across servers of a folder without messages as the new folder on both
   sides, a move that finds the destination busy as the destination.        *)
StrayKeys(q) ==
  {[src |-> NewFolder, dst |-> NewFolder, parent |-> q.dst, name |-> q.dstName],
   [src |-> q.src, dst |-> q.dst, parent |-> Parent[q.dst],
    name |-> NameOf[q.dst]]}

(* What the folder may pass to NotifyCompletion for operation op.  Messages
   are reported with the folder they come from, not with the source the
   request was submitted with; a folder copy is reported with the new child
   of the destination.                                                     *)
CompletionKeys(op) ==
  LET q == req[op[1]] IN
  IF q.type = "folders"
    THEN {[src |-> q.src, dst |-> NewFolder, parent |-> q.dst, name |-> n] :
            n \in {q.dstName} \cup {m \in {RenamedTo} : "rename" \in Env}}
         \cup {key \in StrayKeys(q) : "strays" \in Env}
    ELSE {[src |-> IF q.type = "file" THEN q.src ELSE q.sources[op[2]],
           dst |-> q.dst, parent |-> Parent[q.dst], name |-> NameOf[q.dst]]}

Notify(op, ok, stack) ==
  /\ \E key \in CompletionKeys(op) :
       callStack' = Push(stack, [op |-> "NotifyCompletion", key |-> key,
                                 ok |-> ok, num |-> Len(m_copyRequests)])
  /\ copied' = IF ok THEN copied \cup {op} ELSE copied

InFolderCall == Running("Copying") /\ ~Top.notified
CurrentOp == <<Top.r, Top.s>>

(* The operation goes on in the background after the call returns.         *)
FolderWorksOn ==
  /\ InFolderCall
  /\ inFlight' = inFlight \cup {CurrentOp}
  /\ callStack' = Tail(callStack)
  /\ UNCHANGED <<m_copyRequests, req, starts, stops, told, copied, undoBatches,
                 alive>>

(* The folder finishes, or gives up, and notifies before it returns.       *)
FolderNotifiesAtOnce ==
  /\ InFolderCall
  /\ \E ok \in BOOLEAN :
       Notify(CurrentOp, ok,
              Push(Tail(callStack), [Top EXCEPT !.notified = TRUE]))
  /\ UNCHANGED <<m_copyRequests, req, starts, stops, told, inFlight,
                 undoBatches, alive>>

(* CopyFolder fails without a notification: DoNextCopy clears the request
   itself, and goes no further down the queue.                             *)
FolderRefuses ==
  /\ InFolderCall
  /\ "refuse" \in Env
  /\ req[Top.r].type = "folders"
  /\ ClearRequest(Top.r, FALSE, Tail(callStack))
  /\ UNCHANGED <<req, starts, told, inFlight, copied, alive>>

(* CopyMessages or CopyFileMessage returns an error and has not notified;
   DoNextCopy hands the error to its own caller.                           *)
FolderFailsSilently ==
  /\ InFolderCall
  /\ "silent" \in Env
  /\ req[Top.r].type # "folders"
  /\ callStack' = Tail(callStack)
  /\ UNCHANGED <<m_copyRequests, req, starts, stops, told, inFlight, copied,
                 undoBatches, alive>>

(* nsMsgMaildirStore::CopyMessages has reported the copy, and calls the
   listener it was handed as well.                                         *)
FolderTellsAgain ==
  /\ "tells" \in Env
  /\ Running("Copying")
  /\ Top.notified
  /\ CurrentOp \in copied
  /\ req[Top.r].type = "messages"
  /\ told' = [told EXCEPT ![Top.r] = @ + 1]
  /\ callStack' = Push(Tail(callStack),
                       [op |-> "OnStopCopy", r |-> Top.r, ok |-> TRUE])
  /\ UNCHANGED <<m_copyRequests, req, starts, stops, inFlight, copied,
                 undoBatches, alive>>

FolderCallReturns ==
  /\ Running("Copying")
  /\ Top.notified
  /\ callStack' = Tail(callStack)
  /\ UNCHANGED <<m_copyRequests, req, starts, stops, told, inFlight, copied,
                 undoBatches, alive>>

-----------------------------------------------------------------------------
(* Completions.                                                            *)

(* A background operation ends and its folder notifies the service.        *)
FolderNotifies(op) ==
  /\ alive
  /\ callStack = <<>>
  /\ op \in inFlight
  /\ inFlight' = inFlight \ {op}
  /\ \E ok \in BOOLEAN : Notify(op, ok, callStack)
  /\ UNCHANGED <<m_copyRequests, req, starts, stops, told, undoBatches, alive>>

(* nsImapMailFolder::OnStopRunningUrl, nsImapMoveFolderHierarchy: when the
   move failed there is no child of that name and nobody is notified.      *)
FolderEndsSilently(op) ==
  /\ "silent" \in Env
  /\ callStack = <<>>
  /\ op \in inFlight
  /\ req[op[1]].type = "folders"
  /\ inFlight' = inFlight \ {op}
  /\ UNCHANGED <<m_copyRequests, req, starts, stops, told, copied, undoBatches,
                 callStack, alive>>

(* nsImapFolderCopyState: when the new folder cannot be made, or the copy of
   its messages (a request of its own) has just failed, it calls the folder
   request's listener and ends.  The service is not notified and keeps the
   request.                                                                *)
FolderTellsListener(op) ==
  /\ "tells" \in Env
  /\ \/ callStack = <<>>
     \/ Running("OnStopCopy") /\ ~Top.ok
  /\ op \in inFlight
  /\ req[op[1]].type = "folders"
  /\ inFlight' = inFlight \ {op}
  /\ told' = [told EXCEPT ![op[1]] = @ + 1]
  /\ callStack' = Push(callStack,
                       [op |-> "OnStopCopy", r |-> op[1], ok |-> FALSE])
  /\ UNCHANGED <<m_copyRequests, req, starts, stops, copied, undoBatches, alive>>

(* nsMsgComposeAndSend::Abort reports an aborted file copy itself; the
   folder goes on with the append.                                         *)
AbortFileCopy(op) ==
  /\ "abort" \in Env
  /\ alive
  /\ callStack = <<>>
  /\ op \in inFlight
  /\ req[op[1]].type = "file"
  /\ Notify(op, FALSE, callStack)
  /\ UNCHANGED <<m_copyRequests, req, starts, stops, told, inFlight,
                 undoBatches, alive>>

(* One turn of NotifyCompletion's loop: the request found is cleared if it
   was there when the notification came in, and is done or has failed.     *)
ToClear(i) ==
  /\ FindRequest(i, Top.key)
  /\ i <= Top.num
  /\ LET r == m_copyRequests[i]
     IN AllSourcesProcessed(r) \/ req[r].processed \/ ~Top.ok

NotifyCompletionClears ==
  \E i \in DOMAIN m_copyRequests :
    /\ ToClear(i)
    /\ ClearRequest(m_copyRequests[i], Top.ok,
                    Push(Tail(callStack), [Top EXCEPT !.num = @ - 1]))

(* A faulty variant that does not go on with DoNextCopy.                    *)
NotifyCompletionJustEnds ==
  /\ \A i \in DOMAIN m_copyRequests : ~ToClear(i)
  /\ callStack' = Tail(callStack)
  /\ UNCHANGED <<m_copyRequests, undoBatches, stops>>

NotifyCompletionEnds ==
  /\ \A i \in DOMAIN m_copyRequests : ~ToClear(i)
  /\ callStack' = Push(Tail(callStack), [op |-> "DoNextCopy"])
  /\ UNCHANGED <<m_copyRequests, undoBatches, stops>>

NotifyCompletion ==
  /\ Running("NotifyCompletion")
  /\ NotifyCompletionClears \/ NotifyCompletionEnds
  /\ UNCHANGED <<req, starts, told, inFlight, copied, alive>>

(* ~nsMsgCopyService, when the application exits: whatever is queued is
   cleared as failed.                                                      *)
Destroy ==
  /\ alive
  /\ callStack = <<>>
  /\ alive' = FALSE
  /\ m_copyRequests' = <<>>
  /\ undoBatches' = undoBatches \ ToSet(m_copyRequests)
  /\ stops' = [r \in Request |-> IF Listed(r) THEN stops[r] + 1 ELSE stops[r]]
  /\ inFlight' = {}
  /\ UNCHANGED <<req, starts, told, copied, callStack>>

-----------------------------------------------------------------------------
Call == \E r \in Request : \/ CopyMessages(r)
                           \/ CopyNoMessages(r)
                           \/ CopyFolders(r)
                           \/ CopyFileMessage(r)

(* Steps the UI thread takes on its own once it is inside the service.     *)
Resume == \/ DoNextCopy
          \/ FolderWorksOn
          \/ FolderNotifiesAtOnce
          \/ FolderRefuses
          \/ FolderFailsSilently
          \/ FolderTellsAgain
          \/ FolderCallReturns
          \/ NotifyCompletion
          \/ OnStopCopyReturns

Next == \/ Call
        \/ Resume
        \/ \E op \in inFlight : \/ FolderNotifies(op)
                                \/ FolderEndsSilently(op)
                                \/ FolderTellsListener(op)
                                \/ AbortFileCopy(op)
        \/ Destroy

Spec == Init /\ [][Next]_vars

(* The UI thread does not stop inside the service, and a folder ends what
   it has begun.                                                           *)
Fairness ==
  /\ WF_vars(Resume)
  /\ \A r \in Request, s \in 0..MaxSources :
       WF_vars(<<r, s>> \in inFlight /\ FolderNotifies(<<r, s>>))

FairSpec == Spec /\ Fairness

-----------------------------------------------------------------------------
(* Properties.                                                             *)

(* Every variable keeps the shape the C++ declarations give it.            *)
TypeOK ==
  /\ m_copyRequests \in Seq(Request)
  /\ req \in [Request -> CopyRequest \cup {NotCreated}]
  /\ starts \in [Request -> Nat]
  /\ stops \in [Request -> Nat]
  /\ told \in [Request -> Nat]
  /\ inFlight \subseteq Request \X Nat
  /\ copied \subseteq Request \X Nat
  /\ undoBatches \subseteq Request
  /\ callStack \in Seq(Frame)
  /\ alive \in BOOLEAN

(* A request is on the queue until ClearRequest has called its listener's
   OnStopCopy, and it is there once: ClearRequest deletes the object, so a
   second clearing, or a second entry, would use a deleted request.        *)
StoppedOnce ==
  /\ \A i, j \in DOMAIN m_copyRequests :
       m_copyRequests[i] = m_copyRequests[j] => i = j
  /\ \A r \in Request :
       /\ Listed(r) <=> req[r] # NotCreated /\ stops[r] = 0
       /\ stops[r] <= 1

(* The operations the destination folders are busy with.                   *)
Active ==
  inFlight \cup {<<callStack[i].r, callStack[i].s>> :
                   i \in {i \in DOMAIN callStack :
                            /\ callStack[i].op = "Copying"
                            /\ ~callStack[i].notified}}

(* A destination works on one operation at a time.  Folders rely on it:
   nsMsgLocalMailFolder::InitCopyState asserts that no copy into the folder
   is in progress.                                                         *)
OneCopyPerTarget ==
  \A a, b \in Active : req[a[1]].dst = req[b[1]].dst => a = b

(* While a folder works on a request, the request is still on the queue, so
   the completion will find it and its listener has not been told it ended. *)
BusyMeansListed == \A a \in Active : Listed(a[1])

(* A listener is told of success only when every source of its request has
   been copied by the destination.                                         *)
SourcesToCopy(r) ==
  IF req[r].sources = <<>> /\ req[r].type = "file" THEN {0}
  ELSE {s \in DOMAIN req[r].sources : req[r].sources[s] # req[r].dst}

SuccessMeansCopied ==
  \A i \in DOMAIN callStack :
    callStack[i].op = "OnStopCopy" /\ callStack[i].ok
      => \A s \in SourcesToCopy(callStack[i].r) :
           <<callStack[i].r, s>> \in copied

(* Between two events of the UI thread, every queued request waits for an
   operation that is going on in its destination; nothing else would ever
   run DoNextCopy for it.  It needs folders that report every end to the
   service ("silent", "tells"), and report it as the request ("strays").     *)
QueueNeverStalls ==
  callStack = <<>> =>
    \A r \in Request : Listed(r) =>
      \E op \in inFlight : req[op[1]].dst = req[r].dst

(* When all of a request's sources have been copied and the UI thread is
   back in its event loop, the completion has been matched to the request.
   Init keeps m_dstFolderName "so that FindRequest() is able to find the
   right request when copy finishes".                                      *)
CompletionIsFound ==
  callStack = <<>> =>
    \A r \in Request : Listed(r) =>
      \E s \in SourcesToCopy(r) : <<r, s>> \notin copied

(* A transaction batch is open for exactly the queued requests that have
   several sources, so that BeginBatch and EndBatch pair up.               *)
BatchesPairUp ==
  undoBatches = {r \in Request : Listed(r) /\ Len(req[r].sources) > 1}

(* A listener hears the end of its copy once, unless a folder calls it too. *)
ToldOnce ==
  "tells" \notin Env => \A r \in Request : stops[r] + told[r] <= 1

(* On every path by which a request leaves the queue, those of errors and of
   the destructor included, the service clears it once and ends its batch;
   nothing takes a request off the queue unheard.  Its listener is told once,
   except by the folders that call listeners themselves ("tells").           *)
RequestsAreClosed == StoppedOnce /\ BatchesPairUp /\ ToldOnce

(* What the folders do and what the queue says agree, though completions
   carry nothing but a source and a destination: a busy folder's request is
   listed, success means copied, and a copied request does not stay.  It needs
   folders that report the pair of the request ("strays", "rename").          *)
CompletionsAreMatched == BusyMeansListed /\ SuccessMeansCopied /\ CompletionIsFound

(* "always FIFO": a listed request is started, or started again on its next
   source, only when no older request for the same target is on the queue. *)
StartsInOrder ==
  [][\A i \in DOMAIN m_copyRequests : \A j \in 1..(i - 1) :
       req[m_copyRequests[j]].dst = req[m_copyRequests[i]].dst
         => starts'[m_copyRequests[i]] = starts[m_copyRequests[i]]]_vars

(* What callers rely on (CopyPromise): the requests for one destination are
   copied one after the other in the order they were submitted, and every
   listener is told in the end how its copy ended.                         *)
Queue ==
  [f \in Folder |-> {r \in Request : Listed(r) /\ req[r].dst = f}]

State(r) == IF req[r] = NotCreated THEN "new"
            ELSE IF stops[r] > 0 THEN "stopped"
            ELSE IF starts[r] > 0 THEN "copying"
            ELSE "waiting"

States == [r \in Request |-> State(r)]

Promise == INSTANCE CopyPromise WITH
  queue <- Queue, state <- States, open <- alive

(* Whatever the folders do with a request, and whenever listeners come back:
   DoNextCopy and ClearRequest never skip, repeat or reorder the requests for
   a destination.                                                          *)
KeepsPromise == Promise!Spec

(* And when folders end what they begin, no folder's queue stays put.      *)
KeepsFairPromise == Promise!FairSpec

=============================================================================
