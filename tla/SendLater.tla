------------------------------ MODULE SendLater ------------------------------
(***************************************************************************)
(* nsMsgSendLater (mailnews/compose/src/nsMsgSendLater.cpp): sends the     *)
(* messages that wait in the unsent messages folder, when the user asks    *)
(* for it, or in the background a little after a message has been put      *)
(* there.  A run takes the messages one by one; each is read from the      *)
(* folder, sent, deleted from the folder and copied to its Sent folder,    *)
(* and each of these steps ends in a callback that starts the next one.    *)
(*                                                                         *)
(* The service keeps one current message, one enumerator and one temporary *)
(* file, so everything rests on there being at most one run and at most    *)
(* one outstanding step.  Nothing checks that a run has an outstanding     *)
(* step: if a callback does not come, or an error is not taken up, the run *)
(* never ends and no other can begin.                                      *)
(***************************************************************************)
EXTENDS Integers

CONSTANTS
  Message,     \* headers of the messages ever put into the folder
  Queued,      \* those with the Queued flag, sent only when the user asks
  NoMessage,   \* nullptr
  Env          \* which of Circumstances the surroundings show

Circumstances ==
  { "firstFails",   \* the first message of a run cannot be opened
    "nextFails",    \* a later message of a run cannot be opened
    "unsendable",   \* SendMessageFile returns an error
    "mailLost",     \* a message posted as news cannot be mailed as well
    "deleteFails",  \* DeleteMessages returns an error
    "parseFails",   \* the folder's summary cannot be rebuilt
    "query",        \* HasUnsentMessages is called while it is out of date
    "depositBusy",  \* a message arrives in the folder during a run
    "remove",       \* the user deletes unsent messages
    "offline",      \* the user goes offline and online
    "quit" }        \* the application tries to quit during a run

ASSUME SendAssumption ==
  /\ Queued \subseteq Message
  /\ NoMessage \notin Message
  /\ Env \subseteq Circumstances

VARIABLES
  outbox,             \* messages in the unsent messages folder
  deposited,          \* messages put into the folder in this session
  removed,            \* messages the user has deleted
  dbValid,            \* the folder's summary file is up to date
  m_parsingFolder,    \* the folder is rebuilding it
  mReparseListener,   \* the folder will then call OnStopRunningUrl
  mUserInitiated,     \* who asked for the last run
  asked,              \* SendUnsentMessages waits for the rebuilding
  mSendingMessages,   \* a run is going on
  mEnumerator,        \* the messages the run has not taken up
  mMessage,           \* the current message
  pending,            \* steps whose callback has not come
  tried,              \* messages a run has taken up
  delivered,          \* how often a message was delivered, up to twice
  runsOpen,           \* OnStartSending less OnStopSending notifications
  mTimerSet,          \* the service believes its timer is running
  timerArmed,         \* the timer is running
  mShutdownTasks,     \* the shutdown service has listed this service
  mShutdownListener,  \* the shutdown service waits for the run to end
  online

folderVars == <<outbox, deposited, removed>>
dbVars == <<dbValid, m_parsingFolder, mReparseListener>>
requestVars == <<mUserInitiated, asked>>
runVars == <<mSendingMessages, mEnumerator, mMessage, pending, tried, runsOpen,
             mShutdownListener>>
timerVars == <<mTimerSet, timerArmed>>
vars == <<folderVars, dbVars, requestVars, runVars, delivered, timerVars,
          mShutdownTasks, online>>

Step == [op : {"read", "send", "copy"}, m : Message]

Init ==
  /\ outbox \in SUBSET Message
  /\ deposited = {}
  /\ removed = {}
  /\ dbValid \in BOOLEAN
  /\ m_parsingFolder = FALSE
  /\ mReparseListener = FALSE
  /\ mUserInitiated = FALSE
  /\ asked = FALSE
  /\ mSendingMessages = FALSE
  /\ mEnumerator = {}
  /\ mMessage = NoMessage
  /\ pending = {}
  /\ tried = {}
  /\ delivered = [m \in Message |-> 0]
  /\ runsOpen = 0
  /\ mTimerSet = FALSE
  /\ timerArmed = FALSE
  /\ mShutdownTasks = FALSE
  /\ mShutdownListener = FALSE
  /\ online = TRUE

-----------------------------------------------------------------------------
(* The run.                                                                *)

(* A faulty EndSendMessages that returns after the sending listeners.      *)
EndSendMessagesTellsNobody(started) ==
  /\ mSendingMessages' = FALSE
  /\ mEnumerator' = {}
  /\ runsOpen' = started - 1
  /\ UNCHANGED mShutdownListener

(* EndSendMessages; started is the value runsOpen had.                     *)
EndSendMessages(started) ==
  /\ mSendingMessages' = FALSE
  /\ mEnumerator' = {}
  /\ runsOpen' = started - 1
  /\ mShutdownListener' = FALSE

(* StartNextMailFileSend, when it returns NS_OK: it ends the run, or begins
   to read one of the messages that are left.  steps are the outstanding
   steps, current is what mMessage holds.                                  *)
StartNextMailFileSend(left, steps, current, started) ==
  \/ /\ left = {}
     /\ EndSendMessages(started)
     /\ mMessage' = current
     /\ pending' = steps
     /\ UNCHANGED tried
  \/ \E m \in left :
       /\ mSendingMessages' = TRUE
       /\ mEnumerator' = left \ {m}
       /\ mMessage' = m
       /\ pending' = steps \cup {[op |-> "read", m |-> m]}
       /\ tried' = tried \cup {m}
       /\ runsOpen' = started
       /\ UNCHANGED mShutdownListener

(* What the completion handlers do with it: an error ends the run.         *)
StartNextOrEnd(steps, current) ==
  \/ StartNextMailFileSend(mEnumerator, steps, current, runsOpen)
  \/ /\ "nextFails" \in Env
     /\ \E m \in mEnumerator :
          /\ mMessage' = m
          /\ tried' = tried \cup {m}
     /\ EndSendMessages(runsOpen)
     /\ pending' = steps

(* InternalSendMessages hands an error to its caller, and that is all.     *)
FirstFails(list) ==
  /\ "firstFails" \in Env
  /\ \E m \in list :
       /\ mMessage' = m
       /\ mEnumerator' = list \ {m}
       /\ tried' = tried \cup {m}
  /\ mSendingMessages' = TRUE
  /\ runsOpen' = runsOpen + 1
  /\ UNCHANGED <<pending, mShutdownListener>>

(* A faulty variant: a background run takes what only the user may send.   *)
ToSendSwapped(user) == IF user THEN outbox ELSE outbox \cap Queued

ToSend(user) == IF user THEN outbox ELSE outbox \ Queued

(* A faulty variant that forgets NotifyListenersOnStartSending.            *)
StartRunUnannounced(user) ==
  /\ mUserInitiated' = user
  /\ \/ StartNextMailFileSend(ToSend(user), pending, mMessage, runsOpen)
     \/ FirstFails(ToSend(user))

(* InternalSendMessages once the summary is known to be valid.             *)
StartRun(user) ==
  /\ mUserInitiated' = user
  /\ \/ StartNextMailFileSend(ToSend(user), pending, mMessage, runsOpen + 1)
     \/ FirstFails(ToSend(user))

Refused == ~online \/ mSendingMessages

InternalSendMessages(user) ==
  \/ /\ Refused
     /\ UNCHANGED <<dbVars, mUserInitiated, runVars>>
  \/ /\ ~Refused
     /\ ~dbValid
     /\ mUserInitiated' = user
     /\ m_parsingFolder' = TRUE
     /\ mReparseListener' = TRUE
     /\ UNCHANGED <<dbValid, runVars>>
  \/ /\ ~Refused
     /\ dbValid
     /\ StartRun(user)
     /\ UNCHANGED dbVars

-----------------------------------------------------------------------------
(* What starts a run.                                                      *)

SendUnsentMessages ==
  /\ InternalSendMessages(TRUE)
  /\ asked' = IF Refused THEN asked ELSE ~dbValid
  /\ UNCHANGED <<folderVars, delivered, timerVars, mShutdownTasks, online>>

(* OnItemAdded: a message has been copied to the folder.                   *)
OnItemAdded(m) ==
  /\ m \notin outbox \cup deposited \cup removed \cup tried
  /\ ~m_parsingFolder
  /\ mSendingMessages => "depositBusy" \in Env
  /\ outbox' = outbox \cup {m}
  /\ deposited' = deposited \cup {m}
  /\ mTimerSet' = TRUE
  /\ timerArmed' = (timerArmed \/ ~mTimerSet)
  /\ UNCHANGED <<removed, dbVars, requestVars, runVars, delivered,
                 mShutdownTasks, online>>

(* A faulty variant that leaves mTimerSet alone.                           *)
TimerFiresStaysSet ==
  /\ timerArmed
  /\ timerArmed' = FALSE
  /\ InternalSendMessages(FALSE)
  /\ UNCHANGED <<folderVars, asked, delivered, mTimerSet, mShutdownTasks,
                 online>>

(* Observe, "timer-callback"; while a run is going on the timer's message
   is only cleared.                                                        *)
TimerFires ==
  /\ timerArmed
  /\ timerArmed' = FALSE
  /\ mTimerSet' = FALSE
  /\ InternalSendMessages(FALSE)
  /\ UNCHANGED <<folderVars, asked, delivered, mShutdownTasks, online>>

(* nsMsgLocalMailFolder::OnStopRunningUrl and the service's own: the folder
   has rebuilt its summary, or has failed to and has not marked it valid.  *)
ReparseDone(ok) ==
  /\ m_parsingFolder
  /\ ok \/ "parseFails" \in Env
  /\ dbValid' = ok
  /\ m_parsingFolder' = FALSE
  /\ mReparseListener' = FALSE
  /\ asked' = (asked /\ ~(mReparseListener /\ (~ok \/ mUserInitiated)))
  /\ IF mReparseListener /\ ok /\ ~Refused
       THEN StartRun(mUserInitiated)
       ELSE UNCHANGED <<mUserInitiated, runVars>>
  /\ UNCHANGED <<folderVars, delivered, timerVars, mShutdownTasks, online>>

(* The user interface asks whether there is anything to send, to enable a
   command for instance.  ReparseDBIfNeeded(nullptr) starts to rebuild the
   summary for nobody, or takes the place of the one who waits for it.     *)
HasUnsentMessages ==
  /\ "query" \in Env
  /\ ~dbValid
  /\ m_parsingFolder' = TRUE
  /\ mReparseListener' = FALSE
  /\ UNCHANGED <<folderVars, dbValid, requestVars, runVars, delivered,
                 timerVars, mShutdownTasks, online>>

-----------------------------------------------------------------------------
(* The callbacks of a run.                                                 *)

(* OnStopRequest: the message has been read and is handed to nsIMsgSend, or
   the next one is tried.  A message deleted before its turn cannot be read. *)
ReadDone(step) ==
  LET steps == pending \ {step} IN
  /\ step.op = "read"
  /\ \/ /\ step.m \in outbox
        /\ pending' = steps \cup {[step EXCEPT !.op = "send"]}
        /\ UNCHANGED <<mSendingMessages, mEnumerator, mMessage, tried, runsOpen,
                       mShutdownListener>>
     \/ /\ step.m \notin outbox \/ "unsendable" \in Env
        /\ StartNextOrEnd(steps, mMessage)
  /\ UNCHANGED <<outbox, delivered>>

(* A faulty variant that nulls mMessage and keeps the message.             *)
DeleteCurrentMessageKeepsIt(current) ==
  /\ current = NoMessage
  /\ UNCHANGED outbox

(* DeleteCurrentMessage; afterwards mMessage holds current.                *)
DeleteCurrentMessage(current) ==
  \/ /\ outbox' = outbox \ {mMessage}
     /\ current = NoMessage
  \/ /\ "deleteFails" \in Env
     /\ current = mMessage
     /\ UNCHANGED outbox

Deliver(m) == [delivered EXCEPT ![m] = IF @ < 2 THEN @ + 1 ELSE @]

(* A faulty variant that deletes the message before it looks at the status. *)
SendDoneDeletesFirst(step) ==
  LET steps == pending \ {step} IN
  /\ step.op = "send"
  /\ outbox' = outbox \ {mMessage}
  /\ \/ delivered' = Deliver(step.m)
     \/ UNCHANGED delivered
  /\ StartNextOrEnd(steps, NoMessage)

(* SendOperationListener::OnStopSending, OnSendStepFinished.  After a
   successful send the message is copied to the Sent folder; if it is not
   to be copied anywhere OnStopCopy follows at once.                       *)
SendDone(step) ==
  LET steps == pending \ {step} IN
  /\ step.op = "send"
  /\ \/ \E current \in {mMessage, NoMessage} :
          /\ delivered' = Deliver(step.m)
          /\ DeleteCurrentMessage(current)
          /\ \/ /\ pending' = steps \cup {[step EXCEPT !.op = "copy"]}
                /\ mMessage' = current
                /\ UNCHANGED <<mSendingMessages, mEnumerator, tried, runsOpen,
                               mShutdownListener>>
             \/ StartNextOrEnd(steps, current)
     \/ /\ StartNextOrEnd(steps, mMessage)
        /\ UNCHANGED <<outbox, delivered>>

(* nsMsgComposeAndSend::DoDeliveryExitProcessing: the news article has been
   posted and DeliverFileAsMail returns an error.  The error is dropped and
   the listener hears no more of the message.                              *)
MailLost(step) ==
  /\ "mailLost" \in Env
  /\ step.op = "send"
  /\ pending' = pending \ {step}
  /\ UNCHANGED <<outbox, mSendingMessages, mEnumerator, mMessage, tried,
                 runsOpen, mShutdownListener, delivered>>

(* A faulty variant that returns when the copy has failed.                 *)
CopyDoneChecksStatus(step) ==
  /\ step.op = "copy"
  /\ \/ StartNextOrEnd(pending \ {step}, mMessage)
     \/ /\ pending' = pending \ {step}
        /\ UNCHANGED <<mSendingMessages, mEnumerator, mMessage, tried, runsOpen,
                       mShutdownListener>>
  /\ UNCHANGED <<outbox, delivered>>

(* SendOperationListener::OnStopCopy, OnCopyStepFinished, whatever the
   status.                                                                 *)
CopyDone(step) ==
  /\ step.op = "copy"
  /\ StartNextOrEnd(pending \ {step}, mMessage)
  /\ UNCHANGED <<outbox, delivered>>

StepCallback ==
  /\ \E step \in pending : \/ ReadDone(step)
                           \/ SendDone(step)
                           \/ MailLost(step)
                           \/ CopyDone(step)
  /\ UNCHANGED <<deposited, removed, dbVars, requestVars, timerVars,
                 mShutdownTasks, online>>

-----------------------------------------------------------------------------
(* The rest of the application.                                            *)

(* The user deletes an unsent message; not within the reading of its file. *)
UserDeletes(m) ==
  /\ "remove" \in Env
  /\ m \in outbox
  /\ [op |-> "read", m |-> m] \notin pending
  /\ outbox' = outbox \ {m}
  /\ removed' = removed \cup {m}
  /\ UNCHANGED <<deposited, dbVars, requestVars, runVars, delivered, timerVars,
                 mShutdownTasks, online>>

SwitchOffline ==
  /\ "offline" \in Env
  /\ online' = ~online
  /\ UNCHANGED <<folderVars, dbVars, requestVars, runVars, delivered, timerVars,
                 mShutdownTasks>>

(* nsMsgShutdownService::Observe, quit-application-requested: the service is
   listed when it needs to run, and the list is never cleared.             *)
QuitRequested ==
  /\ "quit" \in Env
  /\ mSendingMessages
  /\ mShutdownTasks' = TRUE
  /\ UNCHANGED <<folderVars, dbVars, requestVars, runVars, delivered, timerVars,
                 online>>

(* DoShutdownTask, once the dialog has opened, or at a later attempt to
   quit.  The timer is cancelled even if the user stays in the end.        *)
DoShutdownTask ==
  /\ mShutdownTasks
  /\ timerArmed' = FALSE
  /\ mShutdownListener' = (mShutdownListener \/ mSendingMessages)
  /\ UNCHANGED <<folderVars, dbVars, requestVars, mSendingMessages, mEnumerator,
                 mMessage, pending, tried, runsOpen, delivered, mTimerSet,
                 mShutdownTasks, online>>

(* Observe, "quit-application"                                             *)
QuitApplication ==
  /\ "quit" \in Env
  /\ timerArmed' = FALSE
  /\ mTimerSet' = FALSE
  /\ UNCHANGED <<folderVars, dbVars, requestVars, runVars, delivered,
                 mShutdownTasks, online>>

-----------------------------------------------------------------------------
Next ==
  \/ SendUnsentMessages
  \/ \E m \in Message : OnItemAdded(m) \/ UserDeletes(m)
  \/ TimerFires
  \/ \E ok \in BOOLEAN : ReparseDone(ok)
  \/ HasUnsentMessages
  \/ StepCallback
  \/ SwitchOffline
  \/ QuitRequested
  \/ DoShutdownTask
  \/ QuitApplication

Spec == Init /\ [][Next]_vars

(* A timer fires, a summary that is being rebuilt gets rebuilt, and a step
   that has been started calls back.                                       *)
Fairness ==
  /\ WF_vars(TimerFires)
  /\ WF_vars(\E ok \in BOOLEAN : ReparseDone(ok))
  /\ WF_vars(StepCallback)

FairSpec == Spec /\ Fairness

-----------------------------------------------------------------------------
(* Properties.                                                             *)

(* Every variable keeps the shape the C++ declarations give it.            *)
TypeOK ==
  /\ outbox \subseteq Message
  /\ deposited \subseteq Message
  /\ removed \subseteq Message
  /\ dbValid \in BOOLEAN /\ m_parsingFolder \in BOOLEAN
  /\ mReparseListener \in BOOLEAN
  /\ mUserInitiated \in BOOLEAN /\ asked \in BOOLEAN
  /\ mSendingMessages \in BOOLEAN
  /\ mEnumerator \subseteq Message
  /\ mMessage \in Message \cup {NoMessage}
  /\ pending \subseteq Step
  /\ tried \subseteq Message
  /\ delivered \in [Message -> 0..2]
  /\ runsOpen \in Nat
  /\ mTimerSet \in BOOLEAN /\ timerArmed \in BOOLEAN
  /\ mShutdownTasks \in BOOLEAN /\ mShutdownListener \in BOOLEAN
  /\ online \in BOOLEAN

(* At most one step is outstanding, it belongs to a run, and until it has
   been sent the message being worked on is mMessage: DeleteCurrentMessage
   deletes the message that was delivered and no other.                    *)
OneStepAtATime ==
  /\ \A s, t \in pending : s = t
  /\ \A s \in pending : /\ mSendingMessages
                        /\ s.op \in {"read", "send"} => s.m = mMessage

(* Every OnStartSending is followed by one OnStopSending, which comes when
   mSendingMessages is reset and not before.                               *)
NotificationsPair == runsOpen = IF mSendingMessages THEN 1 ELSE 0

(* The shutdown service waits only for a run that is going on; a listener
   that outlived the run would keep the application from quitting.         *)
ShutdownWaitsForRun == mShutdownListener => mSendingMessages

(* Whatever fails and whoever asks, a run has one step outstanding at most,
   its listeners and the shutdown service hear of its end, and once.       *)
RunIsConsistent == OneStepAtATime /\ NotificationsPair /\ ShutdownWaitsForRun

(* A message that was put into the folder, or that a run has taken up, is
   still there unless it has been delivered or the user has deleted it.    *)
NothingLost ==
  \A m \in deposited \cup tried :
    m \in outbox \/ delivered[m] > 0 \/ m \in removed

(* No message is sent twice.                                               *)
DeliveredOnce == \A m \in Message : delivered[m] <= 1

(* A run always waits for a callback, so that OnStopSending will come
   "regardless of the success/failure of the operation"
   (nsIMsgSendLaterListener.idl).                                          *)
RunNeverStalls == mSendingMessages => pending # {}

(* OnItemAdded has "no need to trigger if timer is already set": mTimerSet
   says that the timer is running.                                         *)
TimerSetMeansArmed == mTimerSet <=> timerArmed

(* A run comes to an end, and a message queued for sending in the background
   is tried some time, unless the user deletes it first.                   *)
RunsComplete ==
  /\ mSendingMessages ~> ~mSendingMessages
  /\ \A m \in Message \ Queued : m \in deposited ~> m \in tried \cup removed

=============================================================================
