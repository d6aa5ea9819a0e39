-------------------------- MODULE SendLaterProofs --------------------------
(***************************************************************************)
(* Proofs about SendLater, for every set of messages and every surrounding *)
(* the module's constants allow.                                           *)
(*                                                                         *)
(* RunOK gathers what the run's own variables satisfy.  It is inductive:   *)
(* a new run begins only when mSendingMessages is reset, then no step is   *)
(* outstanding, and a callback removes the only outstanding step before it *)
(* adds another.  Kept strengthens NothingLost with the messages the run   *)
(* has still to take up.                                                   *)
(***************************************************************************)
EXTENDS SendLater, TLAPS

RunTypes ==
  /\ mSendingMessages \in BOOLEAN
  /\ mEnumerator \subseteq Message
  /\ mMessage \in Message \cup {NoMessage}
  /\ pending \subseteq Step
  /\ tried \subseteq Message
  /\ runsOpen \in Nat
  /\ mShutdownListener \in BOOLEAN

RunOK ==
  /\ RunTypes
  /\ OneStepAtATime
  /\ NotificationsPair
  /\ ShutdownWaitsForRun

OtherTypes ==
  /\ outbox \subseteq Message
  /\ deposited \subseteq Message
  /\ removed \subseteq Message
  /\ dbValid \in BOOLEAN /\ m_parsingFolder \in BOOLEAN
  /\ mReparseListener \in BOOLEAN
  /\ mUserInitiated \in BOOLEAN /\ asked \in BOOLEAN
  /\ delivered \in [Message -> 0..2]
  /\ mTimerSet \in BOOLEAN /\ timerArmed \in BOOLEAN
  /\ mShutdownTasks \in BOOLEAN
  /\ online \in BOOLEAN

Safe(m) == m \in outbox \/ delivered[m] > 0 \/ m \in removed

Kept == \A m \in deposited \cup tried \cup mEnumerator : Safe(m)

Inv == OtherTypes /\ RunOK /\ Kept

-----------------------------------------------------------------------------
(* The pieces a run is made of.                                            *)

(* EndSendMessages leaves the run's variables in order when the run had been
   announced and no step is outstanding.                                   *)
LEMMA EndKeepsRun ==
  ASSUME RunOK, EndSendMessages(1), pending' = {},
         mMessage' \in Message \cup {NoMessage}, tried' \subseteq Message
  PROVE  RunOK' /\ mEnumerator' = {}
<1>1. mSendingMessages' = FALSE /\ mShutdownListener' = FALSE
  BY DEF EndSendMessages
<1>2. runsOpen' = 0 /\ mEnumerator' = {}
  BY DEF EndSendMessages
<1>3. RunTypes'
  BY <1>1, <1>2 DEF RunTypes
<1>4. OneStepAtATime' /\ ShutdownWaitsForRun'
  BY <1>1 DEF OneStepAtATime, ShutdownWaitsForRun
<1>5. NotificationsPair'
  BY <1>1, <1>2 DEF NotificationsPair
<1> QED BY <1>2, <1>3, <1>4, <1>5 DEF RunOK

(* Starting on the next message, or ending the run, with no other step
   outstanding, leaves the run's variables in order and takes up nothing
   but what was left.                                                      *)
LEMMA StartNextKeepsRun ==
  ASSUME RunOK,
         NEW left \in SUBSET Message, NEW current \in Message \cup {NoMessage},
         StartNextMailFileSend(left, {}, current, 1)
  PROVE  RunOK' /\ (tried \cup mEnumerator)' \subseteq tried \cup left
<1>1. CASE /\ left = {}
           /\ EndSendMessages(1)
           /\ mMessage' = current
           /\ pending' = {}
           /\ UNCHANGED tried
  BY <1>1, EndKeepsRun DEF RunOK, RunTypes
<1>2. ASSUME NEW m \in left,
             mSendingMessages' = TRUE,
             mEnumerator' = left \ {m},
             mMessage' = m,
             pending' = {} \cup {[op |-> "read", m |-> m]},
             tried' = tried \cup {m},
             runsOpen' = 1,
             UNCHANGED mShutdownListener
      PROVE  RunOK' /\ (tried \cup mEnumerator)' \subseteq tried \cup left
  BY <1>2 DEF RunOK, RunTypes, Step, OneStepAtATime, NotificationsPair,
              ShutdownWaitsForRun
<1> QED BY <1>1, <1>2 DEF StartNextMailFileSend

(* The same of what a completion handler does next.                        *)
LEMMA StartNextOrEndKeepsRun ==
  ASSUME RunOK, mSendingMessages,
         NEW current \in Message \cup {NoMessage},
         StartNextOrEnd({}, current)
  PROVE  /\ RunOK'
         /\ (tried \cup mEnumerator)' \subseteq tried \cup mEnumerator
<1>1. runsOpen = 1 /\ mEnumerator \in SUBSET Message
  BY DEF RunOK, RunTypes, NotificationsPair
<1>2. CASE StartNextMailFileSend(mEnumerator, {}, current, runsOpen)
  BY <1>1, <1>2, StartNextKeepsRun
<1>3. ASSUME NEW m \in mEnumerator,
             mMessage' = m,
             tried' = tried \cup {m},
             EndSendMessages(runsOpen),
             pending' = {}
      PROVE  /\ RunOK'
             /\ (tried \cup mEnumerator)' \subseteq tried \cup mEnumerator
  BY <1>1, <1>3, EndKeepsRun DEF RunOK, RunTypes
<1> QED BY <1>2, <1>3 DEF StartNextOrEnd

(* A run begins in order when none is going on, with messages of the folder. *)
LEMMA StartRunKeepsRun ==
  ASSUME RunOK, ~mSendingMessages, outbox \subseteq Message,
         NEW user \in BOOLEAN, StartRun(user)
  PROVE  /\ RunOK'
         /\ (tried \cup mEnumerator)' \subseteq tried \cup outbox
         /\ mUserInitiated' \in BOOLEAN
<1> DEFINE list == ToSend(user)
<1>1. list \in SUBSET Message /\ list \subseteq outbox
  BY DEF ToSend
<1>2. pending = {} /\ runsOpen = 0 /\ mMessage \in Message \cup {NoMessage}
  BY DEF RunOK, RunTypes, OneStepAtATime, NotificationsPair
<1>3. mUserInitiated' \in BOOLEAN
  BY DEF StartRun
<1> HIDE DEF list
<1>4. CASE StartNextMailFileSend(list, pending, mMessage, runsOpen + 1)
  <2>1. StartNextMailFileSend(list, {}, mMessage, 1)
    BY <1>2, <1>4
  <2> QED BY <1>1, <1>2, <1>3, <2>1, StartNextKeepsRun
<1>5. CASE FirstFails(list)
  BY <1>1, <1>2, <1>3, <1>5
     DEF FirstFails, RunOK, RunTypes, OneStepAtATime, NotificationsPair,
         ShutdownWaitsForRun
<1> QED BY <1>4, <1>5 DEF StartRun, list

(* Nothing is lost as long as nothing leaves the folder and the run takes up
   only messages that were safe.                                           *)
LEMMA KeptByRun ==
  ASSUME Kept, UNCHANGED <<folderVars, delivered>>,
         (tried \cup mEnumerator)' \subseteq tried \cup mEnumerator \cup outbox
  PROVE  Kept'
BY DEF Kept, Safe, folderVars

-----------------------------------------------------------------------------
(* The invariant.                                                          *)

LEMMA InitInv == SendAssumption /\ Init => Inv
<1> SUFFICES ASSUME SendAssumption, Init PROVE Inv
  OBVIOUS
<1>1. RunTypes
  BY DEF Init, RunTypes
<1>2. delivered \in [Message -> 0..2]
  BY DEF Init
<1>3. OtherTypes
  BY <1>2 DEF Init, OtherTypes
<1>4. OneStepAtATime /\ NotificationsPair /\ ShutdownWaitsForRun
  BY DEF Init, OneStepAtATime, NotificationsPair, ShutdownWaitsForRun
<1>5. Kept
  BY DEF Init, Kept
<1> QED BY <1>1, <1>3, <1>4, <1>5 DEF Inv, RunOK

(* What touches neither the folder nor the run has only types to keep.     *)
LEMMA InvUntouched ==
  ASSUME Inv, UNCHANGED <<folderVars, runVars, delivered>>, OtherTypes'
  PROVE  Inv'
<1>1. RunTypes' /\ OneStepAtATime' /\ NotificationsPair' /\ ShutdownWaitsForRun'
  BY DEF Inv, RunOK, RunTypes, OneStepAtATime, NotificationsPair,
         ShutdownWaitsForRun, runVars
<1>2. Kept'
  BY DEF Inv, Kept, Safe, folderVars, runVars
<1> QED BY <1>1, <1>2 DEF Inv, RunOK

(* InternalSendMessages, whoever calls it.                                 *)
LEMMA InternalSendMessagesKeepsInv ==
  ASSUME Inv, NEW user \in BOOLEAN, InternalSendMessages(user),
         UNCHANGED <<folderVars, delivered, mShutdownTasks, online>>,
         asked' \in BOOLEAN, mTimerSet' \in BOOLEAN, timerArmed' \in BOOLEAN
  PROVE  Inv'
<1>1. CASE Refused /\ UNCHANGED <<dbVars, mUserInitiated, runVars>>
  BY <1>1 DEF Inv, OtherTypes, RunOK, RunTypes, OneStepAtATime,
              NotificationsPair, ShutdownWaitsForRun, Kept, Safe, folderVars,
              dbVars, runVars
<1>2. CASE /\ mUserInitiated' = user
           /\ m_parsingFolder' = TRUE
           /\ mReparseListener' = TRUE
           /\ UNCHANGED <<dbValid, runVars>>
  BY <1>2 DEF Inv, OtherTypes, RunOK, RunTypes, OneStepAtATime,
              NotificationsPair, ShutdownWaitsForRun, Kept, Safe, folderVars,
              runVars
<1>3. CASE ~Refused /\ StartRun(user) /\ UNCHANGED dbVars
  <2>1. /\ RunOK'
        /\ (tried \cup mEnumerator)' \subseteq tried \cup outbox
        /\ mUserInitiated' \in BOOLEAN
    BY <1>3, StartRunKeepsRun DEF Inv, OtherTypes, Refused
  <2>2. Kept'
    BY <2>1, KeptByRun DEF Inv
  <2> QED BY <1>3, <2>1, <2>2 DEF Inv, OtherTypes, folderVars, dbVars
<1> QED BY <1>1, <1>2, <1>3 DEF InternalSendMessages

LEMMA ReparseDoneKeepsInv ==
  ASSUME Inv, NEW ok \in BOOLEAN, ReparseDone(ok)
  PROVE  Inv'
<1>1. /\ dbValid' \in BOOLEAN
      /\ m_parsingFolder' \in BOOLEAN
      /\ mReparseListener' \in BOOLEAN
      /\ asked' \in BOOLEAN
  BY DEF ReparseDone
<1>2. CASE mReparseListener /\ ok /\ ~Refused
  <2>1. /\ RunOK'
        /\ (tried \cup mEnumerator)' \subseteq tried \cup outbox
        /\ mUserInitiated' \in BOOLEAN
    BY <1>2, StartRunKeepsRun DEF ReparseDone, Inv, OtherTypes, Refused
  <2>2. Kept'
    BY <2>1, KeptByRun DEF Inv, ReparseDone
  <2> QED BY <1>1, <2>1, <2>2
             DEF ReparseDone, Inv, OtherTypes, folderVars, timerVars
<1>3. CASE ~(mReparseListener /\ ok /\ ~Refused)
  <2>1. UNCHANGED <<folderVars, delivered, timerVars, mShutdownTasks, online,
                    mUserInitiated, runVars>>
    BY <1>3 DEF ReparseDone
  <2> QED BY <1>1, <2>1
             DEF Inv, OtherTypes, RunOK, RunTypes, OneStepAtATime,
                 NotificationsPair, ShutdownWaitsForRun, Kept, Safe, folderVars,
                 timerVars, runVars
<1> QED BY <1>2, <1>3

(* The callback of a step: the step is the only one, the run goes on, and
   what is sent is what is deleted.                                        *)
LEMMA StepCallbackKeepsInv ==
  ASSUME Inv, StepCallback
  PROVE  Inv'
<1> PICK step \in pending : \/ ReadDone(step)
                            \/ SendDone(step)
                            \/ MailLost(step)
                            \/ CopyDone(step)
  BY DEF StepCallback
<1>1. /\ pending \ {step} = {}
      /\ mSendingMessages
      /\ step \in Step
      /\ step.op \in {"read", "send"} => step.m = mMessage
      /\ mMessage \in Message \cup {NoMessage}
  BY DEF Inv, RunOK, RunTypes, OneStepAtATime
<1>2. UNCHANGED <<deposited, removed, dbVars, requestVars, timerVars,
                  mShutdownTasks, online>>
  BY DEF StepCallback
<1>3. SUFFICES /\ outbox' \subseteq Message
               /\ delivered' \in [Message -> 0..2]
               /\ RunOK'
               /\ (tried \cup mEnumerator)' \subseteq tried \cup mEnumerator
               /\ \A m \in Message : Safe(m) => Safe(m)'
  <2>1. OtherTypes'
    BY <1>2, <1>3 DEF Inv, OtherTypes, dbVars, requestVars, timerVars
  <2>2. Kept'
    BY <1>2, <1>3 DEF Inv, OtherTypes, RunOK, RunTypes, Kept
  <2> QED BY <1>3, <2>1, <2>2 DEF Inv
<1>4. CASE ReadDone(step)
  <2>1. UNCHANGED <<outbox, delivered, removed>>
    BY <1>2, <1>4 DEF ReadDone
  <2>2. CASE /\ pending' = (pending \ {step}) \cup {[step EXCEPT !.op = "send"]}
             /\ UNCHANGED <<mSendingMessages, mEnumerator, mMessage, tried,
                            runsOpen, mShutdownListener>>
             /\ step.op = "read"
    <3>1. /\ [step EXCEPT !.op = "send"] \in Step
          /\ [step EXCEPT !.op = "send"].m = mMessage
          /\ pending' = {[step EXCEPT !.op = "send"]}
      BY <1>1, <2>2 DEF Step
    <3> QED BY <1>1, <2>1, <2>2, <3>1
               DEF Inv, OtherTypes, RunOK, RunTypes, OneStepAtATime,
                   NotificationsPair, ShutdownWaitsForRun, Safe
  <2>3. CASE StartNextOrEnd(pending \ {step}, mMessage)
    <3>1. StartNextOrEnd({}, mMessage)
      BY <1>1, <2>3
    <3> QED BY <1>1, <2>1, <3>1, StartNextOrEndKeepsRun
               DEF Inv, OtherTypes, Safe
  <2> QED BY <1>4, <2>2, <2>3 DEF ReadDone
<1>5. CASE SendDone(step)
  <2>1. step.op = "send" /\ step.m = mMessage /\ mMessage \in Message
    BY <1>1, <1>5 DEF SendDone, Step
  <2>2. ASSUME NEW current \in {mMessage, NoMessage},
               delivered' = Deliver(step.m),
               DeleteCurrentMessage(current),
               \/ /\ pending' = (pending \ {step})
                                  \cup {[step EXCEPT !.op = "copy"]}
                  /\ mMessage' = current
                  /\ UNCHANGED <<mSendingMessages, mEnumerator, tried, runsOpen,
                                 mShutdownListener>>
               \/ StartNextOrEnd(pending \ {step}, current)
        PROVE  /\ outbox' \subseteq Message
               /\ delivered' \in [Message -> 0..2]
               /\ RunOK'
               /\ (tried \cup mEnumerator)' \subseteq tried \cup mEnumerator
               /\ \A m \in Message : Safe(m) => Safe(m)'
    <3>1. /\ outbox' \subseteq outbox
          /\ outbox \ {mMessage} \subseteq outbox'
      BY <2>2 DEF DeleteCurrentMessage
    <3>2. /\ delivered' \in [Message -> 0..2]
          /\ delivered'[mMessage] > 0
          /\ \A m \in Message : delivered[m] > 0 => delivered'[m] > 0
      BY <2>1, <2>2 DEF Deliver, Inv, OtherTypes
    <3>3. outbox' \subseteq Message
      BY <3>1 DEF Inv, OtherTypes
    <3>4. \A m \in Message : Safe(m) => Safe(m)'
      BY <1>2, <2>1, <3>1, <3>2 DEF Safe
    <3>5. CASE /\ pending' = (pending \ {step})
                                \cup {[step EXCEPT !.op = "copy"]}
               /\ mMessage' = current
               /\ UNCHANGED <<mSendingMessages, mEnumerator, tried, runsOpen,
                              mShutdownListener>>
      <4>1. /\ [step EXCEPT !.op = "copy"] \in Step
            /\ [step EXCEPT !.op = "copy"].op = "copy"
            /\ pending' = {[step EXCEPT !.op = "copy"]}
        BY <1>1, <3>5 DEF Step
      <4>2. RunOK'
        BY <1>1, <3>5, <4>1 DEF Inv, RunOK, RunTypes, OneStepAtATime,
                                NotificationsPair, ShutdownWaitsForRun
      <4> QED BY <3>2, <3>3, <3>4, <3>5, <4>2
    <3>6. CASE StartNextOrEnd(pending \ {step}, current)
      <4>1. StartNextOrEnd({}, current)
        BY <1>1, <3>6
      <4>2. /\ RunOK'
            /\ (tried \cup mEnumerator)' \subseteq tried \cup mEnumerator
        BY <1>1, <2>1, <4>1, StartNextOrEndKeepsRun DEF Inv
      <4> QED BY <3>2, <3>3, <3>4, <4>2
    <3> QED BY <2>2, <3>5, <3>6
  <2>3. CASE /\ StartNextOrEnd(pending \ {step}, mMessage)
             /\ UNCHANGED <<outbox, delivered>>
    <3>1. StartNextOrEnd({}, mMessage)
      BY <1>1, <2>3
    <3> QED BY <1>1, <1>2, <2>3, <3>1, StartNextOrEndKeepsRun
               DEF Inv, OtherTypes, Safe
  <2> QED BY <1>5, <2>2, <2>3 DEF SendDone
<1>6. CASE MailLost(step)
  BY <1>1, <1>2, <1>6
     DEF MailLost, Inv, OtherTypes, RunOK, RunTypes, OneStepAtATime,
         NotificationsPair, ShutdownWaitsForRun, Safe
<1>7. CASE CopyDone(step)
  <2>1. StartNextOrEnd({}, mMessage) /\ UNCHANGED <<outbox, delivered>>
    BY <1>1, <1>7 DEF CopyDone
  <2> QED BY <1>1, <1>2, <2>1, StartNextOrEndKeepsRun DEF Inv, OtherTypes, Safe
<1> QED BY <1>4, <1>5, <1>6, <1>7

LEMMA NextInv ==
  ASSUME SendAssumption, Inv, [Next]_vars
  PROVE  Inv'
<1>1. CASE SendUnsentMessages
  <2>1. /\ asked' \in BOOLEAN
        /\ mTimerSet' \in BOOLEAN
        /\ timerArmed' \in BOOLEAN
    BY <1>1 DEF SendUnsentMessages, timerVars, Inv, OtherTypes
  <2> QED BY <1>1, <2>1, InternalSendMessagesKeepsInv DEF SendUnsentMessages
<1>2. ASSUME NEW m \in Message, OnItemAdded(m) PROVE Inv'
  BY <1>2 DEF OnItemAdded, Inv, OtherTypes, RunOK, RunTypes, OneStepAtATime,
              NotificationsPair, ShutdownWaitsForRun, Kept, Safe, dbVars,
              requestVars, runVars
<1>3. ASSUME NEW m \in Message, UserDeletes(m) PROVE Inv'
  BY <1>3 DEF UserDeletes, Inv, OtherTypes, RunOK, RunTypes, OneStepAtATime,
              NotificationsPair, ShutdownWaitsForRun, Kept, Safe, dbVars,
              requestVars, runVars, timerVars
<1>4. CASE TimerFires
  <2>1. /\ asked' \in BOOLEAN
        /\ mTimerSet' \in BOOLEAN
        /\ timerArmed' \in BOOLEAN
    BY <1>4 DEF TimerFires, Inv, OtherTypes
  <2> QED BY <1>4, <2>1, InternalSendMessagesKeepsInv DEF TimerFires
<1>5. ASSUME NEW ok \in BOOLEAN, ReparseDone(ok) PROVE Inv'
  BY <1>5, ReparseDoneKeepsInv
<1>6. CASE StepCallback
  BY <1>6, StepCallbackKeepsInv
<1>7. CASE HasUnsentMessages \/ SwitchOffline \/ QuitRequested
             \/ QuitApplication \/ UNCHANGED vars
  <2>1. UNCHANGED <<folderVars, runVars, delivered>>
    BY <1>7 DEF HasUnsentMessages, SwitchOffline, QuitRequested,
                QuitApplication, vars
  <2>2. OtherTypes'
    BY <1>7 DEF HasUnsentMessages, SwitchOffline, QuitRequested,
                QuitApplication, Inv, OtherTypes, folderVars, dbVars,
                requestVars, timerVars, vars
  <2> QED BY <2>1, <2>2, InvUntouched
<1>8. CASE DoShutdownTask
  BY <1>8 DEF DoShutdownTask, Inv, OtherTypes, RunOK, RunTypes, OneStepAtATime,
              NotificationsPair, ShutdownWaitsForRun, Kept, Safe, folderVars,
              dbVars, requestVars
<1> QED BY <1>1, <1>2, <1>3, <1>4, <1>5, <1>6, <1>7, <1>8 DEF Next

LEMMA InvAlways == Spec => []Inv
<1>1. SendAssumption
  BY SendAssumption
<1>2. Init => Inv
  BY <1>1, InitInv
<1>3. Inv /\ [Next]_vars => Inv'
  BY <1>1, NextInv
<1> QED BY <1>2, <1>3, PTL DEF Spec

-----------------------------------------------------------------------------
(* The results.                                                            *)

(* Every variable keeps the shape the C++ declarations give it.            *)
THEOREM TypeCorrect == Spec => []TypeOK
<1>1. Inv => TypeOK
  BY DEF Inv, OtherTypes, RunOK, RunTypes, TypeOK
<1> QED BY <1>1, InvAlways, PTL

(* Whatever fails and whoever asks, at most one step is outstanding, and
   what is deleted from the folder is what was sent.                       *)
THEOREM OneStepAtATimeAlways == Spec => []OneStepAtATime
<1>1. Inv => OneStepAtATime
  BY DEF Inv, RunOK
<1> QED BY <1>1, InvAlways, PTL

(* Listeners see starts and stops alternate.                               *)
THEOREM NotificationsPairAlways == Spec => []NotificationsPair
<1>1. Inv => NotificationsPair
  BY DEF Inv, RunOK
<1> QED BY <1>1, InvAlways, PTL

(* The shutdown service is never left waiting for a run that has ended.    *)
THEOREM ShutdownWaitsForRunAlways == Spec => []ShutdownWaitsForRun
<1>1. Inv => ShutdownWaitsForRun
  BY DEF Inv, RunOK
<1> QED BY <1>1, InvAlways, PTL

(* The three together, as the runs check them.                             *)
THEOREM RunIsConsistentAlways == Spec => []RunIsConsistent
<1>1. OneStepAtATime /\ NotificationsPair /\ ShutdownWaitsForRun => RunIsConsistent
  BY DEF RunIsConsistent
<1> QED BY <1>1, OneStepAtATimeAlways, NotificationsPairAlways,
           ShutdownWaitsForRunAlways, PTL

(* A message leaves the folder only because it has been delivered or
   because the user has deleted it.                                        *)
THEOREM NothingLostAlways == Spec => []NothingLost
<1>1. Inv => NothingLost
  BY DEF Inv, Kept, Safe, NothingLost
<1> QED BY <1>1, InvAlways, PTL

-----------------------------------------------------------------------------
(* What holds only while the surroundings behave.                          *)

(* Without an error that nobody takes up, starting on the next message
   leaves a step outstanding or the run over.                              *)
LEMMA StartNextWaits ==
  ASSUME NEW left, NEW steps, NEW current, NEW started,
         StartNextMailFileSend(left, steps, current, started)
  PROVE  RunNeverStalls'
BY DEF StartNextMailFileSend, EndSendMessages, RunNeverStalls

LEMMA StartNextOrEndWaits ==
  ASSUME NEW steps, NEW current, StartNextOrEnd(steps, current)
  PROVE  RunNeverStalls'
<1>1. CASE StartNextMailFileSend(mEnumerator, steps, current, runsOpen)
  BY <1>1, StartNextWaits
<1>2. CASE EndSendMessages(runsOpen)
  BY <1>2 DEF EndSendMessages, RunNeverStalls
<1> QED BY <1>1, <1>2 DEF StartNextOrEnd

LEMMA StartRunWaits ==
  ASSUME "firstFails" \notin Env, NEW user, StartRun(user)
  PROVE  RunNeverStalls'
<1>1. StartNextMailFileSend(ToSend(user), pending, mMessage, runsOpen + 1)
  BY DEF StartRun, FirstFails
<1> QED BY <1>1, StartNextWaits

(* When the first message of a run can always be opened and nsIMsgSend
   always reports back, a run that is going on waits for a callback: the
   completion handlers take up every error.                                *)
THEOREM RunNeverStallsWhenToldOf ==
  "firstFails" \notin Env /\ "mailLost" \notin Env => (Spec => []RunNeverStalls)
<1> SUFFICES ASSUME "firstFails" \notin Env, "mailLost" \notin Env
             PROVE  Spec => []RunNeverStalls
  OBVIOUS
<1>1. Init => RunNeverStalls
  BY DEF Init, RunNeverStalls
<1>2. RunNeverStalls /\ [Next]_vars => RunNeverStalls'
  <2> SUFFICES ASSUME RunNeverStalls, [Next]_vars PROVE RunNeverStalls'
    OBVIOUS
  <2>1. CASE \E user \in BOOLEAN : StartRun(user)
    BY <2>1, StartRunWaits
  <2>2. CASE UNCHANGED <<mSendingMessages, pending>>
    BY <2>2 DEF RunNeverStalls
  <2>3. ASSUME NEW user \in BOOLEAN, InternalSendMessages(user)
        PROVE  RunNeverStalls'
    BY <2>1, <2>2, <2>3 DEF InternalSendMessages, runVars
  <2>4. CASE SendUnsentMessages \/ TimerFires
    BY <2>3, <2>4 DEF SendUnsentMessages, TimerFires
  <2>5. ASSUME NEW ok \in BOOLEAN, ReparseDone(ok)
        PROVE  RunNeverStalls'
    <3>1. CASE StartRun(mUserInitiated)
      BY <3>1, StartRunWaits
    <3>2. CASE UNCHANGED runVars
      BY <2>2, <3>2 DEF runVars
    <3> QED BY <2>5, <3>1, <3>2 DEF ReparseDone
  <2>6. ASSUME NEW step \in pending,
               ReadDone(step) \/ SendDone(step) \/ MailLost(step) \/ CopyDone(step)
        PROVE  RunNeverStalls'
    <3>1. CASE \E x : pending' = (pending \ {step}) \cup {x}
      BY <3>1 DEF RunNeverStalls
    <3>2. CASE \E current : StartNextOrEnd(pending \ {step}, current)
      BY <3>2, StartNextOrEndWaits
    <3> QED BY <2>6, <3>1, <3>2 DEF ReadDone, SendDone, MailLost, CopyDone
  <2>7. CASE \/ \E m \in Message : OnItemAdded(m) \/ UserDeletes(m)
             \/ HasUnsentMessages \/ SwitchOffline \/ QuitRequested
             \/ DoShutdownTask \/ QuitApplication \/ UNCHANGED vars
    <3>1. UNCHANGED <<mSendingMessages, pending>>
      BY <2>7 DEF OnItemAdded, UserDeletes, HasUnsentMessages, SwitchOffline,
                  QuitRequested, DoShutdownTask, QuitApplication, runVars, vars
    <3> QED BY <2>2, <3>1
  <2> QED BY <2>4, <2>5, <2>6, <2>7 DEF Next, StepCallback
<1> QED BY <1>1, <1>2, PTL DEF Spec

(* As long as the application does not try to quit, mTimerSet tells whether
   the timer is running.                                                   *)
THEOREM TimerSetMeansArmedUnlessQuitting ==
  "quit" \notin Env => (Spec => []TimerSetMeansArmed)
<1> SUFFICES ASSUME "quit" \notin Env PROVE Spec => []TimerSetMeansArmed
  OBVIOUS
<1> DEFINE T == /\ mTimerSet = timerArmed
                /\ timerArmed \in BOOLEAN
                /\ mShutdownTasks = FALSE
<1>1. Init => T
  BY DEF Init
<1>2. T /\ [Next]_vars => T'
  <2> SUFFICES ASSUME T, [Next]_vars PROVE T'
    OBVIOUS
  <2>1. ASSUME NEW m \in Message, OnItemAdded(m) PROVE T'
    BY <2>1 DEF OnItemAdded
  <2>2. CASE TimerFires
    BY <2>2 DEF TimerFires
  <2>3. CASE UNCHANGED <<timerVars, mShutdownTasks>>
    BY <2>3 DEF timerVars
  <2>4. ~QuitRequested /\ ~DoShutdownTask /\ ~QuitApplication
    BY DEF QuitRequested, DoShutdownTask, QuitApplication
  <2>5. CASE \/ SendUnsentMessages \/ \E m \in Message : UserDeletes(m)
             \/ \E ok \in BOOLEAN : ReparseDone(ok)
             \/ HasUnsentMessages \/ StepCallback \/ SwitchOffline
             \/ UNCHANGED vars
    <3>1. UNCHANGED <<timerVars, mShutdownTasks>>
      BY <2>5 DEF SendUnsentMessages, UserDeletes, ReparseDone,
                  HasUnsentMessages, StepCallback, SwitchOffline, vars
    <3> QED BY <2>3, <3>1
  <2> QED BY <2>1, <2>2, <2>4, <2>5 DEF Next
<1>3. T => TimerSetMeansArmed
  BY DEF TimerSetMeansArmed
<1> QED BY <1>1, <1>2, <1>3, PTL DEF Spec

-----------------------------------------------------------------------------
(* Nothing is sent twice.  Once says why: a message that has been delivered
   is neither in the folder, nor still to be taken up by the run, nor being
   read or sent.                                                           *)

Gone(out, left) ==
  \A m \in Message : /\ delivered[m] <= 1
                     /\ delivered[m] > 0 => m \in tried \ (out \cup left)

Once ==
  /\ Gone(outbox, mEnumerator)
  /\ \A s \in pending :
       /\ s.m \in tried
       /\ s.op \in {"read", "send"} => /\ delivered[s.m] = 0
                                      /\ s.m \notin mEnumerator

(* After a step of which delivered' and outbox' are already right, going on
   with left is right.                                                     *)
LEMMA EndKeepsOnce ==
  ASSUME NEW left, NEW started, EndSendMessages(started), pending' = {},
         tried \subseteq tried',
         \A m \in Message : /\ delivered'[m] <= 1
                            /\ delivered'[m] > 0 => m \in tried
                            /\ delivered'[m] > 0 => m \notin outbox' \cup left
  PROVE  Once'
BY DEF EndSendMessages, Once, Gone

LEMMA StartNextKeepsOnce ==
  ASSUME NEW left \in SUBSET Message, NEW current, NEW started,
         StartNextMailFileSend(left, {}, current, started),
         delivered' \in [Message -> 0..2],
         \A m \in Message : /\ delivered'[m] <= 1
                            /\ delivered'[m] > 0 => m \in tried
                            /\ delivered'[m] > 0 => m \notin outbox' \cup left
  PROVE  Once'
<1>1. CASE EndSendMessages(started) /\ pending' = {} /\ UNCHANGED tried
  BY <1>1, EndKeepsOnce
<1>2. ASSUME NEW m \in left,
             mEnumerator' = left \ {m},
             pending' = {} \cup {[op |-> "read", m |-> m]},
             tried' = tried \cup {m}
      PROVE  Once'
  <2>1. Gone(outbox, mEnumerator)'
    BY <1>2 DEF Gone
  <2>2. delivered'[m] = 0 /\ m \in tried' /\ m \notin mEnumerator'
    BY <1>2
  <2> QED BY <1>2, <2>1, <2>2 DEF Once
<1> QED BY <1>1, <1>2 DEF StartNextMailFileSend

LEMMA StartNextOrEndKeepsOnce ==
  ASSUME NEW current, StartNextOrEnd({}, current),
         mEnumerator \in SUBSET Message, delivered' \in [Message -> 0..2],
         \A m \in Message : /\ delivered'[m] <= 1
                            /\ delivered'[m] > 0 => m \in tried
                            /\ delivered'[m] > 0 =>
                                 m \notin outbox' \cup mEnumerator
  PROVE  Once'
<1>1. CASE StartNextMailFileSend(mEnumerator, {}, current, runsOpen)
  BY <1>1, StartNextKeepsOnce
<1>2. ASSUME NEW m \in mEnumerator, tried' = tried \cup {m},
             EndSendMessages(runsOpen), pending' = {}
      PROVE  Once'
  BY <1>2, EndKeepsOnce
<1> QED BY <1>1, <1>2 DEF StartNextOrEnd

LEMMA StartRunKeepsOnce ==
  ASSUME Inv, Once, ~mSendingMessages, NEW user, StartRun(user),
         UNCHANGED <<folderVars, delivered>>
  PROVE  Once'
<1> DEFINE list == ToSend(user)
<1>1. list \in SUBSET Message /\ list \subseteq outbox
  BY DEF ToSend, Inv, OtherTypes
<1>2. pending = {} /\ delivered' \in [Message -> 0..2] /\ outbox' = outbox
  BY DEF Inv, OtherTypes, RunOK, OneStepAtATime, folderVars
<1>3. \A m \in Message : /\ delivered'[m] <= 1
                         /\ delivered'[m] > 0 => m \in tried
                         /\ delivered'[m] > 0 => m \notin outbox' \cup list
  BY <1>1, <1>2 DEF Once, Gone
<1>4. ASSUME StartNextMailFileSend(list, pending, mMessage, runsOpen + 1)
      PROVE  Once'
  BY <1>1, <1>2, <1>3, <1>4, StartNextKeepsOnce
<1> HIDE DEF list
<1>5. CASE FirstFails(list)
  BY <1>1, <1>2, <1>3, <1>5 DEF FirstFails, Once, Gone
<1> QED BY <1>4, <1>5 DEF StartRun, list

LEMMA StepCallbackKeepsOnce ==
  ASSUME "deleteFails" \notin Env, SendAssumption, Inv, Once, StepCallback
  PROVE  Once'
<1> PICK step \in pending : \/ ReadDone(step)
                            \/ SendDone(step)
                            \/ MailLost(step)
                            \/ CopyDone(step)
  BY DEF StepCallback
<1>1. /\ pending \ {step} = {}
      /\ step \in Step /\ step.m \in Message /\ step.m \in tried
      /\ step.op \in {"read", "send"} => step.m = mMessage
      /\ mEnumerator \in SUBSET Message
      /\ delivered \in [Message -> 0..2]
  BY DEF Inv, OtherTypes, RunOK, RunTypes, OneStepAtATime, Step, Once
<1>2. \A m \in Message : /\ delivered[m] <= 1
                         /\ delivered[m] > 0 => m \in tried
                         /\ delivered[m] > 0 => m \notin outbox \cup mEnumerator
  BY DEF Once, Gone
<1>3. CASE UNCHANGED <<outbox, delivered>>
             /\ \E current : StartNextOrEnd(pending \ {step}, current)
  <2>1. PICK current : StartNextOrEnd({}, current)
    BY <1>1, <1>3
  <2> QED BY <1>1, <1>2, <1>3, <2>1, StartNextOrEndKeepsOnce
<1>4. CASE ReadDone(step) /\ pending' = (pending \ {step})
                                          \cup {[step EXCEPT !.op = "send"]}
           /\ UNCHANGED <<mEnumerator, tried>>
  <2>1. /\ pending' = {[step EXCEPT !.op = "send"]}
        /\ [step EXCEPT !.op = "send"].m = step.m
        /\ step.op = "read"
        /\ UNCHANGED <<outbox, delivered>>
    BY <1>1, <1>4 DEF ReadDone, Step
  <2> QED BY <1>4, <2>1 DEF Once, Gone
<1>5. ASSUME NEW current \in {mMessage, NoMessage}, step.op = "send",
             delivered' = Deliver(step.m), DeleteCurrentMessage(current),
             \/ /\ pending' = (pending \ {step})
                                \cup {[step EXCEPT !.op = "copy"]}
                /\ UNCHANGED <<mEnumerator, tried>>
             \/ StartNextOrEnd(pending \ {step}, current)
      PROVE  Once'
  <2>1. outbox' = outbox \ {step.m}
    BY <1>1, <1>5 DEF DeleteCurrentMessage
  <2>2. delivered[step.m] = 0 /\ step.m \notin mEnumerator
    BY <1>5 DEF Once
  <2>3. /\ delivered' \in [Message -> 0..2]
        /\ delivered'[step.m] = 1
        /\ \A m \in Message \ {step.m} : delivered'[m] = delivered[m]
    BY <1>1, <1>5, <2>2 DEF Deliver
  <2>4. \A m \in Message :
          /\ delivered'[m] <= 1
          /\ delivered'[m] > 0 => m \in tried
          /\ delivered'[m] > 0 => m \notin outbox' \cup mEnumerator
    BY <1>1, <1>2, <2>1, <2>2, <2>3
  <2>5. CASE StartNextOrEnd(pending \ {step}, current)
    <3>1. StartNextOrEnd({}, current)
      BY <1>1, <2>5
    <3> QED BY <1>1, <2>3, <2>4, <3>1, StartNextOrEndKeepsOnce
  <2>6. CASE /\ pending' = (pending \ {step})
                              \cup {[step EXCEPT !.op = "copy"]}
             /\ UNCHANGED <<mEnumerator, tried>>
    <3>1. /\ pending' = {[step EXCEPT !.op = "copy"]}
          /\ [step EXCEPT !.op = "copy"].m = step.m
          /\ [step EXCEPT !.op = "copy"].op = "copy"
      BY <1>1, <2>6 DEF Step
    <3> QED BY <1>1, <2>4, <2>6, <3>1 DEF Once, Gone
  <2> QED BY <1>5, <2>5, <2>6
<1>6. CASE MailLost(step)
  BY <1>1, <1>6 DEF MailLost, Once, Gone
<1>7. CASE SendDone(step)
  BY <1>3, <1>5, <1>7 DEF SendDone
<1> QED BY <1>3, <1>4, <1>6, <1>7 DEF ReadDone, CopyDone

LEMMA NextOnce ==
  ASSUME "deleteFails" \notin Env, SendAssumption, Inv, Once, [Next]_vars
  PROVE  Once'
<1>1. CASE UNCHANGED <<outbox, delivered, tried, mEnumerator, pending>>
  BY <1>1 DEF Once, Gone
<1>2. ASSUME NEW user \in BOOLEAN, InternalSendMessages(user),
             UNCHANGED <<folderVars, delivered>>
      PROVE  Once'
  <2>1. CASE UNCHANGED runVars
    BY <1>1, <1>2, <2>1 DEF folderVars, runVars
  <2>2. CASE ~Refused /\ StartRun(user)
    BY <1>2, <2>2, StartRunKeepsOnce DEF Refused
  <2> QED BY <1>2, <2>1, <2>2 DEF InternalSendMessages, runVars
<1>3. CASE SendUnsentMessages \/ TimerFires
  BY <1>2, <1>3 DEF SendUnsentMessages, TimerFires
<1>4. ASSUME NEW ok \in BOOLEAN, ReparseDone(ok) PROVE Once'
  <2>1. CASE UNCHANGED <<folderVars, delivered, runVars>>
    BY <1>1, <2>1 DEF folderVars, runVars
  <2>2. CASE ~Refused /\ StartRun(mUserInitiated)
               /\ UNCHANGED <<folderVars, delivered>>
    BY <2>2, StartRunKeepsOnce DEF Refused
  <2> QED BY <1>4, <2>1, <2>2 DEF ReparseDone
<1>5. ASSUME NEW m \in Message, OnItemAdded(m) PROVE Once'
  BY <1>5 DEF OnItemAdded, Once, Gone, runVars, Inv, RunOK, RunTypes
<1>6. ASSUME NEW m \in Message, UserDeletes(m) PROVE Once'
  BY <1>6 DEF UserDeletes, Once, Gone, runVars
<1>7. CASE StepCallback
  BY <1>7, StepCallbackKeepsOnce
<1>8. CASE HasUnsentMessages \/ SwitchOffline \/ QuitRequested
             \/ DoShutdownTask \/ QuitApplication \/ UNCHANGED vars
  BY <1>1, <1>8 DEF HasUnsentMessages, SwitchOffline, QuitRequested,
                    DoShutdownTask, QuitApplication, folderVars, runVars, vars
<1> QED BY <1>3, <1>4, <1>5, <1>6, <1>7, <1>8 DEF Next

(* When messages can be deleted from the folder, none is delivered twice,
   whatever else fails.                                                    *)
THEOREM DeliveredOnceWhenDeletable ==
  "deleteFails" \notin Env => (Spec => []DeliveredOnce)
<1> SUFFICES ASSUME "deleteFails" \notin Env PROVE Spec => []DeliveredOnce
  OBVIOUS
<1>1. Init => Once
  BY DEF Init, Once, Gone
<1>2. Inv /\ Once /\ [Next]_vars => Once'
  BY NextOnce, SendAssumption
<1>3. Once => DeliveredOnce
  BY DEF Once, Gone, DeliveredOnce
<1> QED BY <1>1, <1>2, <1>3, InvAlways, PTL DEF Spec

=============================================================================
