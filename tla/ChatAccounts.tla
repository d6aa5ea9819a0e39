----------------------------- MODULE ChatAccounts -----------------------------
(***************************************************************************)
(* The chat accounts (chat/components/src/imAccounts.js) over the IRC      *)
(* protocol (chat/protocols/irc) and its socket (chat/modules/socket.jsm): *)
(* connecting on start, on demand, after an error and with the user's      *)
(* status, and finding out on the next start what a crash interrupted.     *)
(*                                                                         *)
(* An account's record holds the state of its imAccount, its ircAccount    *)
(* and its ircSocket: these call each other, and one callback of a timer,  *)
(* the network or the user goes through all three.  Everything else is     *)
(* asynchronous.  Delays are abstracted to "soon", within a second, and    *)
(* "later".                                                                *)
(***************************************************************************)
EXTENDS Naturals, FiniteSets

CONSTANTS
  Account,
  MaxAttempt,   \* reconnectAttempt is not counted beyond it
  Cases         \* what is looked at: Circumstances, and which accounts exist

Circumstances ==
  { "lost",         \* the server or the network ends connections
    "idle",         \* nothing is received for two minutes
    "infoChange",   \* the user changes an account's settings
    "fatal",        \* the server refuses a login
    "deadLink",     \* a connection dies and nobody is told
    "sleep",        \* the computer sleeps
    "status",       \* the user or the network goes offline
    "delete",       \* an account is deleted
    "lateWelcome",  \* the server's welcome crosses the client's QUIT
    "lastSecond",   \* an account is connected less than a second before
                    \* its reconnection
    "crash",        \* the application crashes, and starts again
    "noReport" }    \* and the crash reporter knows nothing of it

ASSUME ChatAssumption ==
  /\ MaxAttempt \in Nat \ {0}
  /\ Cases \subseteq [env : SUBSET Circumstances, accounts : SUBSET Account]

VARIABLES
  env,              \* the circumstances of this behaviour
  running,
  online,           \* the user's status and the network's
  acc,
  wanted,           \* history: the user's last word on each account
  autoLoginStatus,
  disk,             \* the preferences as they were last saved
  saveTimer,        \* SavePrefTimer._timer
  lastEnd           \* history: how the last session ended

accountVars == <<acc, wanted>>
diskVars == <<disk, saveTimer>>
sessionVars == <<running, autoLoginStatus, lastEnd>>
vars == <<env, online, accountVars, diskVars, sessionVars>>

Existing == {a \in Account : acc[a].exists}

(* A fresh imAccount with the preference firstConnectionState.             *)
Fresh(first) ==
  [ exists |-> TRUE,
    state |-> "disconnected", error |-> "none",     \* the protocol's error
    imError |-> "none",                             \* the account's own
    observer |-> FALSE,                             \* _statusObserver
    timer |-> "none", stray |-> FALSE,              \* _reconnectTimer; one
                                                    \* that was lost
    attempt |-> 0, settled |-> FALSE,
    first |-> first, autoLogin |-> FALSE,           \* _autoLoginPending
    infoChanged |-> FALSE,
    quitTimer |-> FALSE,
    socket |-> "none", alive |-> FALSE,
    ping |-> FALSE, pong |-> FALSE, strayPong |-> FALSE ]

Gone == [Fresh("ok") EXCEPT !.exists = FALSE]

ErrorReason(r) == IF r.imError # "none" THEN r.imError ELSE r.error

-----------------------------------------------------------------------------
(* What an account's code does, as functions of its record.                *)

CancelReconnection(r) == [r EXCEPT !.timer = "none", !.attempt = 0]

(* A faulty _startReconnectTimer that runs off the end of its list of
   delays.                                                                 *)
CountOn(r, settled) ==
  [r EXCEPT !.timer = "later", !.attempt = @ + 1, !.settled = @ /\ ~settled]

(* A faulty one that gives up when the list is at its end.                 *)
StartUntilListEnds(r, settled) ==
  IF r.attempt = MaxAttempt THEN r
  ELSE [r EXCEPT !.timer = "soon", !.attempt = @ + 1, !.settled = @ /\ ~settled]

(* _startReconnectTimer.  A timer that is still running is not cleared.
   settled: the last connection is more than ten seconds ago.              *)
StartReconnectTimer(r, settled) ==
  LET attempt == IF settled THEN 0 ELSE r.attempt
  IN [r EXCEPT !.stray = r.stray \/ r.timer # "none",
               !.timer = IF attempt = 0 THEN "soon" ELSE "later",
               !.attempt = IF attempt < MaxAttempt THEN attempt + 1 ELSE attempt,
               !.settled = r.settled /\ ~settled]

(* reportConnecting, and a new socket.                                     *)
PrplConnect(r) ==
  LET manual == r.error # "none" /\ r.timer = "later"
      s == IF manual THEN [CancelReconnection(r) EXCEPT !.settled = FALSE] ELSE r
  IN [s EXCEPT !.state = "connecting",
               !.first = IF s.first = "ok" THEN "ok" ELSE "pending",
               !.socket = "opening", !.alive = TRUE]

Connect(r, on) ==
  LET s == [r EXCEPT !.observer = TRUE]
  IN IF on /\ s.state = "disconnected" THEN PrplConnect(s) ELSE s

(* reportDisconnecting: error is not an error when it is "none".           *)
Disconnecting(r, error, settled) ==
  LET s == [r EXCEPT !.state = "disconnecting", !.autoLogin = FALSE,
                     !.first = IF r.first \in {"ok", "crashed"} THEN r.first ELSE "unknown",
                     !.error = error]
  IN IF error = "network" /\ online.network THEN StartReconnectTimer(s, settled) ELSE s

(* reportDisconnected.  The status may have changed while the account was
   disconnecting.                                                          *)
Disconnected(r, on) ==
  LET s == [r EXCEPT !.state = "disconnected", !.quitTimer = FALSE,
                     !.socket = "none", !.alive = FALSE,
                     !.ping = FALSE, !.pong = FALSE, !.strayPong = FALSE]
  IN IF r.observer /\ r.error = "none" /\ on THEN Connect(s, on) ELSE s

GotDisconnected(r, error, settled, on) ==
  CASE r.state = "disconnected" -> r
    [] r.state = "disconnecting" -> Disconnected(r, on)
    [] OTHER -> Disconnected(Disconnecting(r, error, settled), on)

(* ircAccount.disconnect: QUIT is sent, and two seconds given to it.       *)
PrplDisconnect(r) ==
  IF r.state \in {"disconnected", "disconnecting"} THEN r
  ELSE [Disconnecting(r, "none", FALSE) EXCEPT !.quitTimer = TRUE]

(* A faulty disconnect that keeps the status observer.                     *)
DisconnectObserving(r) == PrplDisconnect(r)

Disconnect(r) == PrplDisconnect([r EXCEPT !.observer = FALSE])

(* A faulty _statusObserver.observe that leaves an account with an error to
   its timer.                                                              *)
ObserveStatusWithoutError(r, on) ==
  IF ~r.observer THEN r
  ELSE IF ~on THEN CancelReconnection(PrplDisconnect(r))
  ELSE IF r.state = "disconnected" /\ ErrorReason(r) = "none"
    THEN PrplConnect(r) ELSE r

(* _statusObserver.observe.                                                *)
ObserveStatus(r, on) ==
  IF ~r.observer THEN r
  ELSE IF ~on THEN CancelReconnection(PrplDisconnect(r))
  ELSE IF r.state = "disconnected" /\ ErrorReason(r) \in {"none", "network"}
    THEN PrplConnect(r) ELSE r

CheckAutoLogin(r, on) ==
  IF ~r.exists \/ r.imError # "none" \/ r.state \in {"connecting", "connected"} THEN r
  ELSE Connect([r EXCEPT !.autoLogin = TRUE], on)

(* A faulty welcome that leaves the ping timer to the data that follow.    *)
ConnectedWithoutPing(r) ==
  [r EXCEPT !.state = "connected", !.autoLogin = FALSE, !.settled = TRUE,
            !.first = "ok", !.socket = "welcomed"]

(* account-connected, which 001 RPL_WELCOME reports.                       *)
Connected(r) ==
  [r EXCEPT !.state = "connected", !.autoLogin = FALSE, !.settled = TRUE,
            !.first = "ok", !.socket = "welcomed", !.ping = TRUE]

(* unInit: what is left of an account is its firstConnectionState.         *)
UnInit(r) == IF r.first = "pending" THEN "unknown" ELSE r.first

-----------------------------------------------------------------------------
(* The preferences.                                                        *)

(* What is set: autoLoginPending while AutoLoginCounter counts any.        *)
Memory(accounts) ==
  [first |-> [a \in Account |-> accounts[a].first],
   auto |-> \E a \in Account : accounts[a].autoLogin]

SavedNow ==
  \/ \E a \in Account : /\ acc[a].state # "connecting" /\ acc'[a].state = "connecting"
                        /\ acc'[a].first = "pending"
  \/ ~Memory(acc).auto /\ Memory(acc').auto

(* A connection that succeeds deletes firstConnectionState and starts no
   timer.                                                                  *)
SavedSoon ==
  \/ \E a \in Account : acc'[a].first # acc[a].first /\ acc'[a].first \in {"unknown", "crashed"}
  \/ Memory(acc).auto /\ ~Memory(acc').auto

(* A faulty setter of firstConnectionState that leaves all to the timer.   *)
SavePrefsLater ==
  /\ UNCHANGED disk
  /\ saveTimer' = (saveTimer \/ SavedNow \/ SavedSoon)

SavePrefs ==
  /\ disk' = IF SavedNow THEN Memory(acc') ELSE disk
  /\ saveTimer' = (~SavedNow /\ (saveTimer \/ SavedSoon))

SaveTimerFires ==
  /\ running /\ saveTimer
  /\ disk' = Memory(acc)
  /\ saveTimer' = FALSE
  /\ UNCHANGED <<env, online, accountVars, sessionVars>>

(* One account changes, and what that does to the preferences.             *)
Step(a, r) ==
  /\ acc' = [acc EXCEPT ![a] = r]
  /\ SavePrefs
  /\ UNCHANGED <<env, online, sessionVars>>

On == online.user /\ online.network

(* What would connect accounts less than a second before their timers.     *)
LastSecondAllowed(accounts) ==
  (\E a \in accounts : acc[a].timer = "soon") => "lastSecond" \in env

Settled(r) == IF r.settled THEN BOOLEAN ELSE {FALSE}

Lose(a, error) ==
  \E settled \in Settled(acc[a]) :
    /\ Step(a, GotDisconnected(acc[a], error, settled, On))
    /\ UNCHANGED wanted

-----------------------------------------------------------------------------
(* The user.                                                               *)

UserConnects(a) ==
  /\ running /\ acc[a].exists /\ acc[a].state = "disconnected"
  /\ LastSecondAllowed({a})
  /\ wanted' = [wanted EXCEPT ![a] = "on"]
  /\ Step(a, Connect(acc[a], On))

UserDisconnects(a) ==
  /\ running /\ acc[a].exists /\ acc[a].state \in {"connected", "connecting"}
  /\ wanted' = [wanted EXCEPT ![a] = "off"]
  /\ Step(a, Disconnect(acc[a]))

(* cancelReconnection, offered for accounts with a reconnectAttempt.       *)
UserCancelsReconnection(a) ==
  /\ running /\ acc[a].exists /\ acc[a].state = "disconnected" /\ acc[a].attempt > 0
  /\ wanted' = [wanted EXCEPT ![a] = "off"]
  /\ Step(a, CancelReconnection(Disconnect(acc[a])))

(* _connectionInfoChanged, which changes of an account's settings end in.  *)
ConnectionInfoChanged(a) ==
  LET r == acc[a]
      ignored == \/ r.infoChanged \/ r.state = "connected"
                 \/ r.state = "disconnected" /\ ErrorReason(r) = "none"
  IN /\ "infoChange" \in env /\ running /\ r.exists
     /\ acc' = [acc EXCEPT ![a].first = "unknown", ![a].infoChanged = ~ignored \/ @]
     /\ saveTimer' = TRUE
     /\ wanted' = IF r.state = "disconnected" /\ ErrorReason(r) \in {"network", "fatal"}
                    THEN [wanted EXCEPT ![a] = "on"] ELSE wanted
     /\ UNCHANGED <<env, online, disk, sessionVars>>

(* What it has executeSoon do.                                             *)
ConnectionInfoHandled(a) ==
  LET r == [acc[a] EXCEPT !.infoChanged = FALSE]
  IN /\ running /\ acc[a].infoChanged
     /\ Step(a, CASE r.state = "connecting" -> Connect(Disconnect(r), On)
                  [] r.state = "disconnected" /\ ErrorReason(r) \in {"network", "fatal"}
                       -> Connect(r, On)
                  [] OTHER -> r)
     /\ UNCHANGED wanted

DeleteAccount(a) ==
  /\ "delete" \in env /\ running /\ acc[a].exists
  /\ wanted' = [wanted EXCEPT ![a] = "off"]
  /\ Step(a, Gone)

(* The user's status, or that of the network: observers are told before
   the network goes.                                                       *)
ChangeStatus(now) ==
  LET on == now.user /\ now.network
  IN /\ "status" \in env
     /\ on => LastSecondAllowed({a \in Account : acc[a].observer})
     /\ online' = now
     /\ IF running
          THEN /\ acc' = [a \in Account |-> ObserveStatus(acc[a], on)]
               /\ SavePrefs
          ELSE UNCHANGED <<acc, diskVars>>
     /\ UNCHANGED <<env, wanted, sessionVars>>

-----------------------------------------------------------------------------
(* Timers.                                                                 *)

ReconnectTimerFires(a) ==
  /\ running /\ acc[a].timer # "none"
  /\ Step(a, Connect([acc[a] EXCEPT !.timer = "none"], On))
  /\ UNCHANGED wanted

StrayTimerFires(a) ==
  /\ running /\ acc[a].stray
  /\ Step(a, Connect([acc[a] EXCEPT !.stray = FALSE], On))
  /\ UNCHANGED wanted

(* The reconnection is less than a second away.                            *)
TimePasses(a) ==
  /\ running /\ acc[a].timer = "later"
  /\ Step(a, [acc[a] EXCEPT !.timer = "soon"])
  /\ UNCHANGED wanted

QuitTimerFires(a) ==
  /\ running /\ acc[a].quitTimer
  /\ Lose(a, "none")

(* _sendPing: two minutes without data, or on waking up.                   *)
SendPing(a) ==
  /\ Step(a, [acc[a] EXCEPT !.ping = FALSE, !.pong = TRUE,
                            !.strayPong = acc[a].strayPong \/ acc[a].pong])
  /\ UNCHANGED wanted

PingTimerFires(a) ==
  /\ "idle" \in env \/ ~acc[a].alive
  /\ running /\ acc[a].ping /\ ~acc[a].pong
  /\ SendPing(a)

DisconnectTimerFires(a) ==
  /\ running /\ (acc[a].pong \/ acc[a].strayPong)
  /\ Lose(a, "network")

WakeUp(a) ==
  /\ "sleep" \in env /\ running /\ acc[a].socket # "none"
  /\ \/ Lose(a, "network")
     \/ acc[a].ping /\ SendPing(a)

-----------------------------------------------------------------------------
(* The network and the server.                                             *)

Alive(a) == running /\ acc[a].socket # "none" /\ acc[a].alive

SocketOpens(a) ==
  /\ Alive(a) /\ acc[a].socket = "opening"
  /\ Step(a, [acc[a] EXCEPT !.socket = "open"])
  /\ UNCHANGED wanted

(* 001 RPL_WELCOME: the account is connected, whatever it was.             *)
Welcome(a) ==
  /\ Alive(a) /\ acc[a].socket = "open"
  /\ acc[a].state = "disconnecting" => "lateWelcome" \in env
  /\ Step(a, Connected(acc[a]))
  /\ UNCHANGED wanted

LoginFails(a) ==
  /\ "fatal" \in env /\ Alive(a) /\ acc[a].socket = "open"
  /\ Lose(a, "fatal")

(* ERROR, or the connection is closed or reset; the answer to QUIT too.    *)
ConnectionEnds(a) ==
  /\ Alive(a)
  /\ acc[a].quitTimer \/ "lost" \in env
  /\ Lose(a, "network")

DataReceived(a) ==
  /\ Alive(a) /\ acc[a].socket = "welcomed" /\ acc[a].state = "connected"
  /\ \E pong \in BOOLEAN :
       Step(a, [acc[a] EXCEPT !.ping = TRUE, !.pong = @ /\ ~pong])
  /\ UNCHANGED wanted

ConnectionDies(a) ==
  /\ "deadLink" \in env /\ Alive(a)
  /\ Step(a, [acc[a] EXCEPT !.alive = FALSE])
  /\ UNCHANGED wanted

-----------------------------------------------------------------------------
(* Sessions.                                                               *)

ProcessAutoLogin(accounts, on) == [a \in Account |-> CheckAutoLogin(accounts[a], on)]

(* imAccount, from the preferences.                                        *)
Load(first) ==
  IF first \in {"pending", "crashed"}
    THEN [Fresh("crashed") EXCEPT !.imError = "crashed"] ELSE Fresh(first)

(* initAccounts and, unless the last session's crashed, processAutoLogin.  *)
Start ==
  /\ ~running
  /\ running' = TRUE
  /\ online' = [online EXCEPT !.user = TRUE]
  /\ autoLoginStatus' \in IF ~disk.auto THEN {"enabled"}
                          ELSE IF "noReport" \in env THEN {"crash", "enabled"} ELSE {"crash"}
  /\ LET loaded == [a \in Account |->
                      IF acc[a].exists THEN Load(disk.first[a]) ELSE Gone]
     IN /\ acc' = IF autoLoginStatus' = "enabled"
                    THEN ProcessAutoLogin(loaded, online'.network) ELSE loaded
        /\ wanted' = [a \in Account |->
                        IF acc'[a].autoLogin THEN "on" ELSE "off"]
  /\ IF SavedNow THEN disk' = Memory(acc') /\ saveTimer' = FALSE
     ELSE /\ UNCHANGED disk
          /\ saveTimer' = \E a \in Account : acc'[a].first # disk.first[a]
  /\ UNCHANGED <<env, lastEnd>>

UserProcessesAutoLogin ==
  /\ running /\ autoLoginStatus # "enabled"
  /\ LastSecondAllowed(Account)
  /\ autoLoginStatus' = "enabled"
  /\ acc' = ProcessAutoLogin(acc, On)
  /\ wanted' = [a \in Account |-> IF acc'[a].autoLogin THEN "on" ELSE wanted[a]]
  /\ SavePrefs
  /\ UNCHANGED <<env, online, running, lastEnd>>

Ended == acc' = [a \in Account |-> IF acc[a].exists THEN Fresh("ok") ELSE Gone]

Crash ==
  /\ "crash" \in env /\ running
  /\ running' = FALSE
  /\ Ended
  /\ saveTimer' = FALSE
  /\ lastEnd' = [ how |-> "crash", auto |-> Memory(acc).auto,
                  connecting |-> {a \in Account : /\ acc[a].state = "connecting"
                                                  /\ acc[a].first = "pending"} ]
  /\ UNCHANGED <<env, online, wanted, autoLoginStatus, disk>>

Clean == [how |-> "clean", auto |-> FALSE, connecting |-> {}]

(* unInitAccounts; the platform saves the preferences.                     *)
Quit ==
  /\ "crash" \in env /\ running
  /\ running' = FALSE
  /\ Ended
  /\ disk' = [first |-> [a \in Account |-> UnInit(acc[a])], auto |-> FALSE]
  /\ saveTimer' = FALSE
  /\ lastEnd' = Clean
  /\ UNCHANGED <<env, online, wanted, autoLoginStatus>>

-----------------------------------------------------------------------------
Init ==
  /\ \E case \in Cases :
       /\ env = case.env
       /\ acc = [a \in Account |-> IF a \in case.accounts THEN Fresh("ok") ELSE Gone]
  /\ running = FALSE
  /\ online = [user |-> TRUE, network |-> TRUE]
  /\ wanted = [a \in Account |-> "off"]
  /\ autoLoginStatus = "enabled"
  /\ disk \in [first : [Account -> {"ok", "unknown"}], auto : {FALSE}]
  /\ saveTimer = FALSE
  /\ lastEnd = Clean

TimerFires(a) ==
  \/ ReconnectTimerFires(a) \/ StrayTimerFires(a) \/ TimePasses(a)
  \/ QuitTimerFires(a) \/ PingTimerFires(a) \/ DisconnectTimerFires(a)

ServerActs(a) ==
  \/ SocketOpens(a) \/ Welcome(a) \/ LoginFails(a) \/ ConnectionEnds(a)
  \/ DataReceived(a) \/ ConnectionDies(a)

UserActs(a) ==
  \/ UserConnects(a) \/ UserDisconnects(a) \/ UserCancelsReconnection(a)
  \/ ConnectionInfoChanged(a) \/ DeleteAccount(a)

Next ==
  \/ \E a \in Account : \/ TimerFires(a) \/ ServerActs(a) \/ UserActs(a)
                        \/ ConnectionInfoHandled(a) \/ WakeUp(a)
  \/ \E user, network \in BOOLEAN : ChangeStatus([user |-> user, network |-> network])
  \/ SaveTimerFires \/ Start \/ UserProcessesAutoLogin \/ Crash \/ Quit

Spec == Init /\ [][Next]_vars

(* Timers fire, and executeSoon runs.  Nothing is expected of the server.                        *)
FairSpec ==
  /\ Spec
  /\ \A a \in Account : /\ WF_vars(ReconnectTimerFires(a)) /\ WF_vars(QuitTimerFires(a))
                        /\ WF_vars(PingTimerFires(a)) /\ WF_vars(DisconnectTimerFires(a))
                        /\ WF_vars(ConnectionInfoHandled(a))

-----------------------------------------------------------------------------
(* Properties.                                                             *)

Without(circumstances) == env \cap circumstances = {}

(* Every variable has its type.  A socket, or two seconds for one to close,
   is all that keeps an account in a state other than disconnected, and
   nothing of it is left after.                                            *)
TypeOK ==
  /\ env \subseteq Circumstances /\ running \in BOOLEAN
  /\ online \in [user : BOOLEAN, network : BOOLEAN]
  /\ \A a \in Account :
       /\ acc[a].state \in {"disconnected", "connecting", "connected", "disconnecting"}
       /\ acc[a].error \in {"none", "network", "fatal"}
       /\ acc[a].timer \in {"none", "soon", "later"}
       /\ acc[a].attempt \in 0..MaxAttempt
       /\ acc[a].socket \in {"none", "opening", "open", "welcomed"}
       /\ acc[a].state = "disconnected" <=> acc[a].socket = "none"
       /\ acc[a].state = "disconnecting" => acc[a].quitTimer
       /\ acc[a].quitTimer => acc[a].socket # "none"
  /\ wanted \in [Account -> {"on", "off"}]
  /\ autoLoginStatus \in {"enabled", "crash"}
  /\ disk.first \in [Account -> {"ok", "unknown", "pending", "crashed"}]
  /\ disk.auto \in BOOLEAN /\ saveTimer \in BOOLEAN

(* What the user disconnected, or no longer wants reconnected, is not
   connected again behind his back: no timer and no observer is left.  It
   fails when the welcome of the server comes after the QUIT, when a timer
   is lost to one that replaces it, and when changed settings wait to be
   tried.                                                                  *)
UserDisconnectIsFinal ==
  Without({"lateWelcome", "lastSecond", "infoChange"}) =>
    \A a \in Account : wanted[a] = "off" => acc[a].state \in {"disconnected", "disconnecting"}

(* An account that is to be connected, and has met with no fatal error, has
   a connection, or is on its way to one or from one, or has a timer: none
   is forgotten through changes of the status and of the settings, errors
   and reconnections in any order.  It fails for an account that was
   connecting when the last session crashed: that error stays, even when it
   is connected, and the status no longer connects it.                     *)
WantedIsNotForgotten ==
  \A a \in Existing :
    (running /\ wanted[a] = "on" /\ On /\ acc[a].error # "fatal" /\ acc[a].imError = "none") =>
      \/ acc[a].state # "disconnected"
      \/ acc[a].timer # "none" \/ acc[a].infoChanged

(* What was being connected for the first time when the application
   crashed is not connected on the next start: that it was connecting has
   been saved before.  Automatic connection is off after a crash in the
   course of it, and never after the user has quit, however far it had come. *)
CrashIsRemembered ==
  [][(~running /\ running') =>
       /\ \A a \in lastEnd.connecting : acc'[a].state = "disconnected"
       /\ lastEnd.how = "clean" => autoLoginStatus' = "enabled"
       /\ lastEnd.auto /\ Without({"noReport"}) => autoLoginStatus' = "crash"]_vars

(* Disconnecting comes to an end, whatever the server does, and a connection
   that died is given up: there is always a ping to come, or an answer to
   one to wait for.                                                        *)
DeadConnectionEnds ==
  \A a \in Account :
    /\ acc[a].state = "disconnecting" ~> acc[a].state # "disconnecting"
    /\ (acc[a].state = "connected" /\ ~acc[a].alive) ~> acc[a].state # "connected"

(* An account that lost its connection connects again, unless the user or
   the network has something against it.                                   *)
LostReconnects ==
  \A a \in Account :
    (running /\ wanted[a] = "on" /\ acc[a].state = "disconnected"
       /\ acc[a].error = "network" /\ acc[a].imError = "none")
      ~> (acc[a].state = "connecting" \/ wanted[a] = "off" \/ ~On \/ ~running)
=============================================================================
