-------------------------- MODULE ChatAccountsProofs --------------------------
(***************************************************************************)
(* Proofs about ChatAccounts: the types, that the user has the last word   *)
(* on what is connected, that what he wants connected is not forgotten,    *)
(* and that what a crash interrupted is known on the next start.           *)
(***************************************************************************)
EXTENDS ChatAccounts, TLAPS

(* What an account's record may be.                                        *)
First == {"ok", "unknown", "pending", "crashed"}
ImAccount ==
  [ exists : BOOLEAN,
    state : {"disconnected", "connecting", "connected", "disconnecting"},
    error : {"none", "network", "fatal"}, imError : {"none", "crashed"},
    observer : BOOLEAN, timer : {"none", "soon", "later"}, stray : BOOLEAN,
    attempt : 0..MaxAttempt, settled : BOOLEAN,
    first : First, autoLogin : BOOLEAN, infoChanged : BOOLEAN,
    quitTimer : BOOLEAN,
    socket : {"none", "opening", "open", "welcomed"}, alive : BOOLEAN,
    ping : BOOLEAN, pong : BOOLEAN, strayPong : BOOLEAN ]

(* An account has a socket unless it is disconnected, and the two seconds of
   a QUIT end with its socket.                                             *)
SocketOK(r) ==
  /\ r.state = "disconnected" <=> r.socket = "none"
  /\ r.state = "disconnecting" => r.quitTimer
  /\ r.quitTimer => r.socket # "none"

(* No timer is lost, and one that waits is for a lost connection.          *)
TimerForError(r) ==
  ~r.stray /\ ~r.infoChanged /\ (r.timer # "none" => r.error = "network")

(* A timer waits only while its account is disconnected, so that no timer is
   ever started over it.                                                   *)
TimerOK(r) ==
  TimerForError(r) /\ (r.timer # "none" => r.state = "disconnected")

(* Nothing would connect the account: no observer and no timer.            *)
AtRest(r) ==
  ~r.observer /\ r.timer = "none" /\ r.state \in {"disconnected", "disconnecting"}

Excluded == {"lateWelcome", "lastSecond", "infoChange"}

FinalOK ==
  Without(Excluded) =>
    \A a \in Account : TimerOK(acc[a]) /\ (wanted[a] = "off" => AtRest(acc[a]))

DiskOK ==
  disk \in [first : [Account -> First], auto : BOOLEAN] /\ saveTimer \in BOOLEAN

AccountsOK ==
  acc \in [Account -> ImAccount] /\ \A a \in Account : SocketOK(acc[a])

OthersOK ==
  /\ env \subseteq Circumstances /\ running \in BOOLEAN
  /\ online \in [user : BOOLEAN, network : BOOLEAN]
  /\ wanted \in [Account -> {"on", "off"}]
  /\ autoLoginStatus \in {"enabled", "crash"}

Inv == AccountsOK /\ DiskOK /\ OthersOK /\ FinalOK
-----------------------------------------------------------------------------
(* What the code of an account returns.                                    *)

LEMMA AttemptsFit ==
  /\ 0 \in 0..MaxAttempt
  /\ \A n \in 0..MaxAttempt : n < MaxAttempt => n + 1 \in 0..MaxAttempt
BY ChatAssumption DEF ChatAssumption

LEMMA CancelKeeps ==
  ASSUME NEW r \in ImAccount
  PROVE  /\ CancelReconnection(r) \in ImAccount
         /\ SocketOK(r) => SocketOK(CancelReconnection(r))
         /\ TimerOK(r) => TimerOK(CancelReconnection(r))
         /\ CancelReconnection(r).timer = "none"
         /\ CancelReconnection(r).observer = r.observer
         /\ CancelReconnection(r).state = r.state
<1>1. PICK s : s = CancelReconnection(r)
  OBVIOUS
<1>2. s = [r EXCEPT !.timer = "none", !.attempt = 0]
  BY <1>1 DEF CancelReconnection
<1>3. s \in ImAccount
  BY <1>2, AttemptsFit DEF ImAccount
<1>4. /\ s.timer = "none" /\ s.observer = r.observer /\ s.state = r.state
      /\ s.socket = r.socket /\ s.quitTimer = r.quitTimer
  BY <1>2 DEF ImAccount
<1>5. s.error = r.error /\ s.stray = r.stray /\ s.infoChanged = r.infoChanged
  BY <1>2 DEF ImAccount
<1>6. SocketOK(r) => SocketOK(s)
  BY <1>4 DEF SocketOK
<1>7. TimerOK(r) => TimerOK(s)
  BY <1>4, <1>5 DEF TimerOK, TimerForError
<1>. QED BY <1>1, <1>3, <1>4, <1>6, <1>7

LEMMA StartTimerKeeps ==
  ASSUME NEW r \in ImAccount, NEW settled \in BOOLEAN
  PROVE  /\ StartReconnectTimer(r, settled) \in ImAccount
         /\ StartReconnectTimer(r, settled).state = r.state
         /\ StartReconnectTimer(r, settled).error = r.error
         /\ StartReconnectTimer(r, settled).observer = r.observer
         /\ StartReconnectTimer(r, settled).infoChanged = r.infoChanged
         /\ StartReconnectTimer(r, settled).stray <=> (r.stray \/ r.timer # "none")
<1>1. PICK attempt \in 0..MaxAttempt : attempt = IF settled THEN 0 ELSE r.attempt
  BY AttemptsFit DEF ImAccount
<1>2. PICK next \in 0..MaxAttempt :
        next = IF attempt < MaxAttempt THEN attempt + 1 ELSE attempt
  BY AttemptsFit
<1>3. PICK delay \in {"soon", "later"} : delay = IF attempt = 0 THEN "soon" ELSE "later"
  OBVIOUS
<1>4. PICK stray \in BOOLEAN : stray = (r.stray \/ r.timer # "none")
  OBVIOUS
<1>5. PICK since \in BOOLEAN : since = (r.settled /\ ~settled)
  OBVIOUS
<1>6. PICK s : s = [r EXCEPT !.stray = stray, !.timer = delay, !.attempt = next,
                             !.settled = since]
  OBVIOUS
<1>7. s = StartReconnectTimer(r, settled)
  BY <1>1, <1>2, <1>3, <1>4, <1>5, <1>6 DEF StartReconnectTimer
<1>8. s \in ImAccount
  BY <1>6 DEF ImAccount
<1>9. s.state = r.state /\ s.error = r.error /\ s.observer = r.observer
  BY <1>6 DEF ImAccount
<1>10. s.infoChanged = r.infoChanged /\ s.stray = stray
  BY <1>6 DEF ImAccount
<1>. QED BY <1>4, <1>7, <1>8, <1>9, <1>10

(* A connection the user asks for takes the place of a timer that has long
   to wait.                                                                *)
LEMMA PrplConnectKeeps ==
  ASSUME NEW r \in ImAccount
  PROVE  /\ PrplConnect(r) \in ImAccount
         /\ SocketOK(PrplConnect(r))
         /\ TimerOK(r) /\ r.timer # "soon" => TimerOK(PrplConnect(r))
         /\ PrplConnect(r).observer = r.observer
         /\ PrplConnect(r).autoLogin = r.autoLogin
<1>. DEFINE manual == r.error # "none" /\ r.timer = "later"
            s == IF manual THEN [CancelReconnection(r) EXCEPT !.settled = FALSE] ELSE r
<1>1. /\ s \in ImAccount
      /\ s.observer = r.observer /\ s.autoLogin = r.autoLogin
      /\ TimerOK(r) /\ r.timer # "soon" => s.timer = "none" /\ ~s.stray /\ ~s.infoChanged
  <2>1. CASE manual
    BY <2>1, AttemptsFit DEF CancelReconnection, ImAccount, TimerOK, TimerForError
  <2>2. CASE ~manual
    BY <2>2 DEF ImAccount, TimerOK, TimerForError
  <2>. QED BY <2>1, <2>2
<1>. HIDE DEF s
<1>2. PICK first \in First : first = IF s.first = "ok" THEN "ok" ELSE "pending"
  BY DEF First
<1>3. PICK p : p = [s EXCEPT !.state = "connecting", !.first = first,
                             !.socket = "opening", !.alive = TRUE]
  OBVIOUS
<1>4. p = PrplConnect(r)
  BY <1>2, <1>3 DEF PrplConnect, s
<1>5. p \in ImAccount
  BY <1>1, <1>3 DEF ImAccount
<1>6. p.state = "connecting" /\ p.socket = "opening" /\ p.quitTimer = s.quitTimer
  BY <1>1, <1>3 DEF ImAccount
<1>7. p.stray = s.stray /\ p.infoChanged = s.infoChanged /\ p.timer = s.timer
  BY <1>1, <1>3 DEF ImAccount
<1>8. p.observer = r.observer /\ p.autoLogin = r.autoLogin
  BY <1>1, <1>3 DEF ImAccount
<1>9. SocketOK(p)
  BY <1>6 DEF SocketOK
<1>10. TimerOK(r) /\ r.timer # "soon" => TimerOK(p)
  BY <1>1, <1>7 DEF TimerOK, TimerForError
<1>. QED BY <1>4, <1>5, <1>8, <1>9, <1>10

LEMMA ConnectKeeps ==
  ASSUME NEW r \in ImAccount, NEW on \in BOOLEAN
  PROVE  /\ Connect(r, on) \in ImAccount
         /\ SocketOK(r) => SocketOK(Connect(r, on))
         /\ TimerOK(r) /\ r.timer # "soon" => TimerOK(Connect(r, on))
         /\ Connect(r, on).autoLogin = r.autoLogin
<1>1. PICK s : s = [r EXCEPT !.observer = TRUE]
  OBVIOUS
<1>2. s \in ImAccount /\ s.timer = r.timer /\ s.autoLogin = r.autoLogin
  BY <1>1 DEF ImAccount
<1>3. /\ s.state = r.state /\ s.socket = r.socket /\ s.quitTimer = r.quitTimer
      /\ s.error = r.error /\ s.stray = r.stray /\ s.infoChanged = r.infoChanged
  BY <1>1 DEF ImAccount
<1>4. SocketOK(r) => SocketOK(s)
  BY <1>3 DEF SocketOK
<1>5. TimerOK(r) => TimerOK(s)
  BY <1>2, <1>3 DEF TimerOK, TimerForError
<1>6. Connect(r, on) = PrplConnect(s) \/ Connect(r, on) = s
  BY <1>1 DEF Connect
<1>7. PICK p : p = PrplConnect(s)
  OBVIOUS
<1>8. /\ p \in ImAccount /\ SocketOK(p) /\ p.autoLogin = r.autoLogin
      /\ TimerOK(s) /\ s.timer # "soon" => TimerOK(p)
  BY <1>2, <1>7, PrplConnectKeeps
<1>. QED BY <1>2, <1>4, <1>5, <1>6, <1>7, <1>8

LEMMA DisconnectingKeeps ==
  ASSUME NEW r \in ImAccount, NEW error \in {"none", "network", "fatal"},
         NEW settled \in BOOLEAN
  PROVE  /\ Disconnecting(r, error, settled) \in ImAccount
         /\ Disconnecting(r, error, settled).state = "disconnecting"
         /\ Disconnecting(r, error, settled).error = error
         /\ Disconnecting(r, error, settled).observer = r.observer
         /\ TimerOK(r) /\ r.timer = "none" => TimerForError(Disconnecting(r, error, settled))
         /\ error = "none" =>
              /\ Disconnecting(r, error, settled).timer = r.timer
              /\ Disconnecting(r, error, settled).socket = r.socket
<1>. DEFINE first == IF r.first \in {"ok", "crashed"} THEN r.first ELSE "unknown"
<1>1. first \in First
  BY DEF ImAccount, First
<1>. HIDE DEF first
<1>. DEFINE s == [r EXCEPT !.state = "disconnecting", !.autoLogin = FALSE,
                           !.first = first, !.error = error]
<1>2. s \in ImAccount
  BY <1>1 DEF ImAccount
<1>3. /\ s.state = "disconnecting" /\ s.error = error /\ s.observer = r.observer
      /\ s.infoChanged = r.infoChanged /\ s.stray = r.stray
      /\ s.timer = r.timer /\ s.socket = r.socket
  BY DEF ImAccount
<1>4. Disconnecting(r, error, settled) =
        IF error = "network" /\ online.network THEN StartReconnectTimer(s, settled) ELSE s
  BY DEF Disconnecting, first
<1>. HIDE DEF s
<1>5. TimerOK(r) /\ r.timer = "none" => TimerForError(Disconnecting(r, error, settled))
  BY <1>2, <1>3, <1>4, StartTimerKeeps DEF TimerOK, TimerForError
<1>. QED BY <1>2, <1>3, <1>4, <1>5, StartTimerKeeps

(* A timer that was just started is for an error, and then the observer does
   not connect at once.                                                    *)
LEMMA DisconnectedKeeps ==
  ASSUME NEW r \in ImAccount, NEW on \in BOOLEAN
  PROVE  /\ Disconnected(r, on) \in ImAccount
         /\ SocketOK(Disconnected(r, on))
         /\ TimerForError(r) => TimerOK(Disconnected(r, on))
         /\ ~r.observer /\ r.timer = "none" => AtRest(Disconnected(r, on))
<1>. DEFINE s == [r EXCEPT !.state = "disconnected", !.quitTimer = FALSE,
                           !.socket = "none", !.alive = FALSE,
                           !.ping = FALSE, !.pong = FALSE, !.strayPong = FALSE]
<1>1. s \in ImAccount /\ SocketOK(s)
  BY DEF ImAccount, SocketOK
<1>2. /\ s.state = "disconnected" /\ s.error = r.error /\ s.observer = r.observer
      /\ s.timer = r.timer /\ s.stray = r.stray /\ s.infoChanged = r.infoChanged
  BY DEF ImAccount
<1>3. Disconnected(r, on) =
        IF r.observer /\ r.error = "none" /\ on THEN Connect(s, on) ELSE s
  BY DEF Disconnected
<1>. HIDE DEF s
<1>4. CASE r.observer /\ r.error = "none" /\ on
  <2>1. /\ Disconnected(r, on) = Connect(s, on)
        /\ r.observer /\ r.error = "none"
    BY <1>3, <1>4
  <2>2. TimerForError(r) => TimerOK(s) /\ s.timer # "soon"
    BY <1>2, <2>1 DEF TimerOK, TimerForError
  <2>. QED BY <1>1, <2>1, <2>2, ConnectKeeps
<1>5. CASE ~(r.observer /\ r.error = "none" /\ on)
  <2>1. Disconnected(r, on) = s
    BY <1>3, <1>5
  <2>. QED BY <1>1, <1>2, <2>1 DEF TimerOK, TimerForError, AtRest
<1>. QED BY <1>4, <1>5

LEMMA GotDisconnectedKeeps ==
  ASSUME NEW r \in ImAccount, SocketOK(r), NEW error \in {"none", "network", "fatal"},
         NEW settled \in BOOLEAN, NEW on \in BOOLEAN
  PROVE  /\ GotDisconnected(r, error, settled, on) \in ImAccount
         /\ SocketOK(GotDisconnected(r, error, settled, on))
         /\ TimerOK(r) => TimerOK(GotDisconnected(r, error, settled, on))
         /\ AtRest(r) => AtRest(GotDisconnected(r, error, settled, on))
<1>1. CASE r.state = "disconnected"
  BY <1>1 DEF GotDisconnected
<1>2. CASE r.state = "disconnecting"
  <2>1. GotDisconnected(r, error, settled, on) = Disconnected(r, on)
    BY <1>2 DEF GotDisconnected
  <2>. QED BY <1>2, <2>1, DisconnectedKeeps DEF TimerOK, AtRest
<1>3. CASE r.state \notin {"disconnected", "disconnecting"}
  <2>. DEFINE s == Disconnecting(r, error, settled)
  <2>1. GotDisconnected(r, error, settled, on) = Disconnected(s, on)
    BY <1>3 DEF GotDisconnected
  <2>2. s \in ImAccount
    BY DisconnectingKeeps
  <2>3. TimerOK(r) => TimerForError(s)
    BY <1>3, DisconnectingKeeps DEF TimerOK
  <2>4. ~AtRest(r)
    BY <1>3 DEF AtRest
  <2>. QED BY <2>1, <2>2, <2>3, <2>4, DisconnectedKeeps
<1>. QED BY <1>1, <1>2, <1>3

LEMMA PrplDisconnectKeeps ==
  ASSUME NEW r \in ImAccount, SocketOK(r)
  PROVE  /\ PrplDisconnect(r) \in ImAccount
         /\ SocketOK(PrplDisconnect(r))
         /\ TimerOK(r) => TimerOK(PrplDisconnect(r))
         /\ PrplDisconnect(r).observer = r.observer
         /\ PrplDisconnect(r).timer = r.timer
         /\ PrplDisconnect(r).state \in {"disconnected", "disconnecting"}
<1>1. CASE r.state \in {"disconnected", "disconnecting"}
  BY <1>1 DEF PrplDisconnect
<1>2. CASE r.state \notin {"disconnected", "disconnecting"}
  <2>. DEFINE s == Disconnecting(r, "none", FALSE)
  <2>1. PrplDisconnect(r) = [s EXCEPT !.quitTimer = TRUE]
    BY <1>2 DEF PrplDisconnect
  <2>2. /\ s \in ImAccount /\ s.state = "disconnecting" /\ s.observer = r.observer
        /\ s.timer = r.timer /\ s.socket = r.socket
    BY DisconnectingKeeps
  <2>3. TimerOK(r) => r.timer = "none" /\ TimerForError(s)
    BY <1>2, DisconnectingKeeps DEF TimerOK
  <2>. HIDE DEF s
  <2>4. PrplDisconnect(r) \in ImAccount
    BY <2>1, <2>2 DEF ImAccount
  <2>5. SocketOK(PrplDisconnect(r))
    BY <1>2, <2>1, <2>2 DEF ImAccount, SocketOK
  <2>6. TimerOK(r) => TimerOK(PrplDisconnect(r))
    BY <2>1, <2>2, <2>3 DEF ImAccount, TimerOK, TimerForError
  <2>7. /\ PrplDisconnect(r).observer = r.observer
        /\ PrplDisconnect(r).timer = r.timer
        /\ PrplDisconnect(r).state = "disconnecting"
    BY <2>1, <2>2 DEF ImAccount
  <2>. QED BY <2>4, <2>5, <2>6, <2>7
<1>. QED BY <1>1, <1>2

(* What the user disconnects has no observer, and no timer if it was
   connecting or connected.                                                *)
LEMMA DisconnectKeeps ==
  ASSUME NEW r \in ImAccount, SocketOK(r)
  PROVE  /\ Disconnect(r) \in ImAccount
         /\ SocketOK(Disconnect(r))
         /\ TimerOK(r) => TimerOK(Disconnect(r))
         /\ TimerOK(r) /\ r.state # "disconnected" => AtRest(Disconnect(r))
         /\ AtRest(CancelReconnection(Disconnect(r)))
<1>. DEFINE s == [r EXCEPT !.observer = FALSE]
<1>1. /\ s \in ImAccount /\ SocketOK(s)
      /\ TimerOK(r) => TimerOK(s)
      /\ ~s.observer /\ s.timer = r.timer
  <2>1. s \in ImAccount /\ ~s.observer /\ s.timer = r.timer
    BY DEF ImAccount
  <2>2. /\ s.state = r.state /\ s.socket = r.socket /\ s.quitTimer = r.quitTimer
        /\ s.error = r.error /\ s.stray = r.stray /\ s.infoChanged = r.infoChanged
    BY DEF ImAccount
  <2>. HIDE DEF s
  <2>3. SocketOK(s)
    BY <2>2 DEF SocketOK
  <2>4. TimerOK(r) => TimerOK(s)
    BY <2>1, <2>2 DEF TimerOK, TimerForError
  <2>. QED BY <2>1, <2>3, <2>4
<1>2. Disconnect(r) = PrplDisconnect(s)
  BY DEF Disconnect
<1>3. TimerOK(r) /\ r.state # "disconnected" => r.timer = "none"
  BY DEF TimerOK
<1>. HIDE DEF s
<1>4. /\ Disconnect(r) \in ImAccount /\ SocketOK(Disconnect(r))
      /\ TimerOK(r) => TimerOK(Disconnect(r))
      /\ ~Disconnect(r).observer /\ Disconnect(r).timer = r.timer
      /\ Disconnect(r).state \in {"disconnected", "disconnecting"}
  BY <1>1, <1>2, PrplDisconnectKeeps
<1>. QED BY <1>3, <1>4, CancelKeeps DEF AtRest

LEMMA ObserveStatusKeeps ==
  ASSUME NEW r \in ImAccount, SocketOK(r), NEW on \in BOOLEAN
  PROVE  /\ ObserveStatus(r, on) \in ImAccount
         /\ SocketOK(ObserveStatus(r, on))
         /\ TimerOK(r) /\ (on /\ r.observer => r.timer # "soon")
              => TimerOK(ObserveStatus(r, on))
         /\ AtRest(r) => AtRest(ObserveStatus(r, on))
<1>1. CASE ~r.observer
  BY <1>1 DEF ObserveStatus
<1>2. CASE r.observer /\ ~on
  <2>1. ObserveStatus(r, on) = CancelReconnection(PrplDisconnect(r))
    BY <1>2 DEF ObserveStatus
  <2>2. ~AtRest(r)
    BY <1>2 DEF AtRest
  <2>. QED BY <2>1, <2>2, PrplDisconnectKeeps, CancelKeeps
<1>3. CASE r.observer /\ on
  <2>1. ObserveStatus(r, on) \in {r, PrplConnect(r)}
    BY <1>3 DEF ObserveStatus
  <2>2. ~AtRest(r)
    BY <1>3 DEF AtRest
  <2>. QED BY <1>3, <2>1, <2>2, PrplConnectKeeps
<1>. QED BY <1>1, <1>2, <1>3

(* An account that is logged in automatically is wanted.                   *)
LEMMA CheckAutoLoginKeeps ==
  ASSUME NEW r \in ImAccount, SocketOK(r), NEW on \in BOOLEAN
  PROVE  /\ CheckAutoLogin(r, on) \in ImAccount
         /\ SocketOK(CheckAutoLogin(r, on))
         /\ TimerOK(r) /\ r.timer # "soon" => TimerOK(CheckAutoLogin(r, on))
         /\ CheckAutoLogin(r, on) = r \/ CheckAutoLogin(r, on).autoLogin
<1>. DEFINE s == [r EXCEPT !.autoLogin = TRUE]
<1>1. /\ s \in ImAccount /\ SocketOK(s)
      /\ TimerOK(r) => TimerOK(s)
      /\ s.autoLogin /\ s.timer = r.timer
  BY DEF ImAccount, SocketOK, TimerOK, TimerForError
<1>2. CheckAutoLogin(r, on) \in {r, Connect(s, on)}
  BY DEF CheckAutoLogin
<1>. HIDE DEF s
<1>. QED BY <1>1, <1>2, ConnectKeeps

-----------------------------------------------------------------------------
(* What the steps have in common.                                          *)

(* Neither socket nor observer, timer and error differ.                    *)
SameStanding(s, r) ==
  /\ s.state = r.state /\ s.error = r.error
  /\ s.socket = "none" <=> r.socket = "none"
  /\ s.timer = "none" <=> r.timer = "none"
  /\ s.quitTimer <=> r.quitTimer
  /\ s.observer <=> r.observer
  /\ s.stray <=> r.stray
  /\ s.infoChanged <=> r.infoChanged

LEMMA SameStandingKeeps ==
  ASSUME NEW s, NEW r, SameStanding(s, r)
  PROVE  /\ SocketOK(r) => SocketOK(s)
         /\ TimerOK(r) => TimerOK(s)
         /\ AtRest(r) => AtRest(s)
BY DEF SameStanding, SocketOK, TimerOK, TimerForError, AtRest

LEMMA FreshKeeps ==
  ASSUME NEW first \in First
  PROVE  /\ Fresh(first) \in ImAccount /\ SocketOK(Fresh(first))
         /\ TimerOK(Fresh(first)) /\ AtRest(Fresh(first))
<1>1. Fresh(first) \in ImAccount
  BY AttemptsFit DEF Fresh, ImAccount
<1>. QED BY <1>1 DEF Fresh, SocketOK, TimerOK, TimerForError, AtRest

LEMMA GoneKeeps ==
  Gone \in ImAccount /\ SocketOK(Gone) /\ TimerOK(Gone) /\ AtRest(Gone)
<1>1. Fresh("ok") \in ImAccount
  BY FreshKeeps DEF First
<1>2. Gone \in ImAccount
  BY <1>1 DEF Gone, ImAccount
<1>. QED BY <1>2 DEF Gone, Fresh, SocketOK, TimerOK, TimerForError, AtRest

LEMMA OnIsBoolean == ASSUME Inv PROVE On \in BOOLEAN
BY DEF Inv, OthersOK, On

LEMMA MemoryType ==
  ASSUME NEW accounts \in [Account -> ImAccount]
  PROVE  Memory(accounts) \in [first : [Account -> First], auto : BOOLEAN]
<1>1. \A a \in Account : accounts[a].first \in First
  BY DEF ImAccount
<1>2. (\E a \in Account : accounts[a].autoLogin) \in BOOLEAN
  OBVIOUS
<1>. QED BY <1>1, <1>2 DEF Memory

LEMMA SavePrefsKeeps ==
  ASSUME DiskOK, acc' \in [Account -> ImAccount], SavePrefs
  PROVE  DiskOK'
<1>1. Memory(acc') \in [first : [Account -> First], auto : BOOLEAN]
  BY MemoryType
<1>2. disk' = disk \/ disk' = Memory(acc')
  BY DEF SavePrefs
<1>3. saveTimer' \in BOOLEAN
  BY DEF SavePrefs
<1>. QED BY <1>1, <1>2, <1>3 DEF DiskOK

(* A step of one account keeps the invariant if its record does.           *)
LEMMA StepKeeps ==
  ASSUME Inv, NEW a \in Account, NEW r \in ImAccount, SocketOK(r), Step(a, r),
         wanted' \in [Account -> {"on", "off"}],
         \A b \in Account \ {a} : wanted'[b] = wanted[b],
         Without(Excluded) => TimerOK(r) /\ (wanted'[a] = "off" => AtRest(r))
  PROVE  Inv'
<1>1. acc' = [acc EXCEPT ![a] = r] /\ acc \in [Account -> ImAccount]
  BY DEF Inv, AccountsOK, Step
<1>2. acc' \in [Account -> ImAccount] /\ acc'[a] = r
      /\ \A b \in Account \ {a} : acc'[b] = acc[b]
  BY <1>1
<1>3. AccountsOK'
  BY <1>2 DEF Inv, AccountsOK
<1>4. DiskOK'
  BY <1>2, SavePrefsKeeps DEF Inv, Step
<1>5. OthersOK'
  BY DEF Inv, OthersOK, Step, sessionVars
<1>6. FinalOK'
  <2>1. env' = env
    BY DEF Step
  <2>. SUFFICES ASSUME Without(Excluded), NEW b \in Account
                PROVE  TimerOK(acc'[b]) /\ (wanted'[b] = "off" => AtRest(acc'[b]))
    BY <2>1 DEF FinalOK, Without
  <2>2. CASE b = a
    BY <2>2, <1>2
  <2>3. CASE b # a
    BY <2>3, <1>2 DEF Inv, FinalOK
  <2>. QED BY <2>2, <2>3
<1>. QED BY <1>3, <1>4, <1>5, <1>6 DEF Inv

(* The same for a step that is not the user's.                             *)
LEMMA StepOnKeeps ==
  ASSUME Inv, NEW a \in Account, NEW r \in ImAccount, SocketOK(r), Step(a, r),
         UNCHANGED wanted,
         Without(Excluded) /\ TimerOK(acc[a]) => TimerOK(r),
         Without(Excluded) /\ TimerOK(acc[a]) /\ AtRest(acc[a]) => AtRest(r)
  PROVE  Inv'
BY StepKeeps DEF Inv, OthersOK, FinalOK

LEMMA PlainStepKeeps ==
  ASSUME Inv, NEW a \in Account, NEW r \in ImAccount, SameStanding(r, acc[a]),
         Step(a, r), UNCHANGED wanted
  PROVE  Inv'
BY StepOnKeeps, SameStandingKeeps DEF Inv, AccountsOK

LEMMA LoseKeeps ==
  ASSUME Inv, NEW a \in Account, NEW error \in {"none", "network", "fatal"},
         Lose(a, error)
  PROVE  Inv'
<1>1. PICK settled \in Settled(acc[a]) :
        Step(a, GotDisconnected(acc[a], error, settled, On)) /\ UNCHANGED wanted
  BY DEF Lose
<1>2. settled \in BOOLEAN /\ acc[a] \in ImAccount /\ SocketOK(acc[a]) /\ On \in BOOLEAN
  BY OnIsBoolean DEF Settled, Inv, AccountsOK
<1>. QED BY <1>1, <1>2, GotDisconnectedKeeps, StepOnKeeps

(* Nobody connects less than a second before a timer unless that is looked
   at.                                                                     *)
LEMMA NotInLastSecond ==
  ASSUME NEW accounts, LastSecondAllowed(accounts), Without(Excluded),
         NEW a \in accounts
  PROVE  acc[a].timer # "soon"
BY DEF LastSecondAllowed, Without, Excluded

-----------------------------------------------------------------------------
(* The steps.                                                              *)

LEMMA SendPingKeeps ==
  ASSUME Inv, NEW a \in Account, SendPing(a)
  PROVE  Inv'
<1>. DEFINE r == acc[a]
            lost == r.strayPong \/ r.pong
            s == [r EXCEPT !.ping = FALSE, !.pong = TRUE, !.strayPong = lost]
<1>1. lost \in BOOLEAN /\ r \in ImAccount
  BY DEF Inv, AccountsOK
<1>2. Step(a, s) /\ UNCHANGED wanted
  BY DEF SendPing
<1>. HIDE DEF lost
<1>3. s \in ImAccount
  BY <1>1 DEF ImAccount
<1>4. SameStanding(s, r)
  BY <1>1 DEF ImAccount, SameStanding
<1>. QED BY <1>2, <1>3, <1>4, PlainStepKeeps

LEMMA UserKeepsInv ==
  ASSUME Inv, NEW a \in Account, UserActs(a)
  PROVE  Inv'
<1>. DEFINE r == acc[a]
<1>1. r \in ImAccount /\ SocketOK(r) /\ (Without(Excluded) => TimerOK(r))
  BY DEF Inv, AccountsOK, FinalOK
<1>2. wanted \in [Account -> {"on", "off"}] /\ On \in BOOLEAN
  BY OnIsBoolean DEF Inv, OthersOK
<1>3. CASE UserConnects(a)
  <2>1. wanted' \in [Account -> {"on", "off"}] /\ wanted'[a] = "on"
        /\ \A b \in Account \ {a} : wanted'[b] = wanted[b]
    BY <1>2, <1>3 DEF UserConnects
  <2>2. Without(Excluded) => r.timer # "soon"
    BY <1>3, NotInLastSecond DEF UserConnects
  <2>3. Step(a, Connect(r, On))
    BY <1>3 DEF UserConnects
  <2>4. /\ Connect(r, On) \in ImAccount /\ SocketOK(Connect(r, On))
        /\ Without(Excluded) => TimerOK(Connect(r, On))
    BY <1>1, <1>2, <2>2, ConnectKeeps
  <2>. QED BY <2>1, <2>3, <2>4, StepKeeps
<1>4. CASE UserDisconnects(a)
  <2>1. wanted' \in [Account -> {"on", "off"}]
        /\ \A b \in Account \ {a} : wanted'[b] = wanted[b]
    BY <1>2, <1>4 DEF UserDisconnects
  <2>2. Step(a, Disconnect(r)) /\ r.state # "disconnected"
    BY <1>4 DEF UserDisconnects
  <2>3. /\ Disconnect(r) \in ImAccount /\ SocketOK(Disconnect(r))
        /\ Without(Excluded) => TimerOK(Disconnect(r)) /\ AtRest(Disconnect(r))
    BY <1>1, <2>2, DisconnectKeeps
  <2>. QED BY <2>1, <2>2, <2>3, StepKeeps
<1>5. CASE UserCancelsReconnection(a)
  <2>. DEFINE s == CancelReconnection(Disconnect(r))
  <2>1. wanted' \in [Account -> {"on", "off"}]
        /\ \A b \in Account \ {a} : wanted'[b] = wanted[b]
    BY <1>2, <1>5 DEF UserCancelsReconnection
  <2>2. Step(a, s)
    BY <1>5 DEF UserCancelsReconnection
  <2>3. s \in ImAccount /\ SocketOK(s) /\ AtRest(s) /\ (Without(Excluded) => TimerOK(s))
    BY <1>1, DisconnectKeeps, CancelKeeps
  <2>. QED BY <2>1, <2>2, <2>3, StepKeeps
<1>6. CASE ConnectionInfoChanged(a)
  <2>1. ~Without(Excluded) /\ env' = env
    BY <1>6 DEF ConnectionInfoChanged, Without, Excluded
  <2>2. PICK changed \in BOOLEAN :
          acc' = [acc EXCEPT ![a] = [[@ EXCEPT !.first = "unknown"] EXCEPT !.infoChanged = changed]]
    <3>. DEFINE ignored == \/ r.infoChanged \/ r.state = "connected"
                           \/ r.state = "disconnected" /\ ErrorReason(r) = "none"
                changed == ~ignored \/ r.infoChanged
    <3>1. acc' = [acc EXCEPT ![a].first = "unknown", ![a].infoChanged = changed]
      BY <1>6 DEF ConnectionInfoChanged, Inv, AccountsOK, ImAccount
    <3>2. changed \in BOOLEAN
      OBVIOUS
    <3>. HIDE DEF changed
    <3>. QED BY <3>1, <3>2 DEF Inv, AccountsOK
  <2>3. acc' = [acc EXCEPT ![a] = [r EXCEPT !.first = "unknown", !.infoChanged = changed]]
    BY <2>2 DEF Inv, AccountsOK
  <2>. DEFINE s == [r EXCEPT !.first = "unknown", !.infoChanged = changed]
  <2>4. s \in ImAccount /\ SocketOK(s)
    BY <1>1 DEF ImAccount, First, SocketOK
  <2>5. acc' = [acc EXCEPT ![a] = s]
    BY <2>3
  <2>. HIDE DEF s
  <2>6. AccountsOK'
    BY <2>4, <2>5 DEF Inv, AccountsOK
  <2>7. DiskOK'
    BY <1>6 DEF ConnectionInfoChanged, Inv, DiskOK
  <2>8. OthersOK'
    BY <1>6, <1>2 DEF ConnectionInfoChanged, Inv, OthersOK, sessionVars
  <2>. QED BY <2>1, <2>6, <2>7, <2>8 DEF Inv, FinalOK, Without
<1>7. CASE DeleteAccount(a)
  <2>1. wanted' \in [Account -> {"on", "off"}]
        /\ \A b \in Account \ {a} : wanted'[b] = wanted[b]
    BY <1>2, <1>7 DEF DeleteAccount
  <2>. QED BY <1>7, <2>1, GoneKeeps, StepKeeps DEF DeleteAccount
<1>. QED BY <1>3, <1>4, <1>5, <1>6, <1>7 DEF UserActs

LEMMA TimersKeepInv ==
  ASSUME Inv, NEW a \in Account, TimerFires(a)
  PROVE  Inv'
<1>. DEFINE r == acc[a]
<1>1. /\ r \in ImAccount /\ SocketOK(r)
      /\ Without(Excluded) => TimerOK(r) /\ (wanted[a] = "off" => AtRest(r))
  BY DEF Inv, AccountsOK, FinalOK
<1>2. On \in BOOLEAN
  BY OnIsBoolean
<1>3. CASE ReconnectTimerFires(a)
  <2>. DEFINE s == [r EXCEPT !.timer = "none"]
  <2>1. Step(a, Connect(s, On)) /\ UNCHANGED wanted /\ r.timer # "none"
    BY <1>3 DEF ReconnectTimerFires
  <2>2. /\ s \in ImAccount /\ SocketOK(s) /\ s.timer # "soon"
        /\ TimerOK(r) => TimerOK(s)
    BY <1>1 DEF ImAccount, SocketOK, TimerOK, TimerForError
  <2>3. ~AtRest(r)
    BY <2>1 DEF AtRest
  <2>. HIDE DEF s
  <2>. QED BY <1>2, <2>1, <2>2, <2>3, ConnectKeeps, StepOnKeeps
<1>4. CASE StrayTimerFires(a)
  <2>. DEFINE s == [r EXCEPT !.stray = FALSE]
  <2>1. Step(a, Connect(s, On)) /\ UNCHANGED wanted /\ r.stray
    BY <1>4 DEF StrayTimerFires
  <2>2. s \in ImAccount /\ SocketOK(s)
    BY <1>1 DEF ImAccount, SocketOK
  <2>3. ~TimerOK(r)
    BY <2>1 DEF TimerOK, TimerForError
  <2>. HIDE DEF s
  <2>. QED BY <1>2, <2>1, <2>2, <2>3, ConnectKeeps, StepOnKeeps
<1>5. CASE TimePasses(a)
  <2>. DEFINE s == [r EXCEPT !.timer = "soon"]
  <2>1. Step(a, s) /\ UNCHANGED wanted /\ r.timer = "later"
    BY <1>5 DEF TimePasses
  <2>2. s \in ImAccount /\ SameStanding(s, r)
    BY <1>1, <2>1 DEF ImAccount, SameStanding
  <2>. QED BY <2>1, <2>2, PlainStepKeeps
<1>6. CASE QuitTimerFires(a)
  BY <1>6, LoseKeeps DEF QuitTimerFires
<1>7. CASE PingTimerFires(a)
  BY <1>7, SendPingKeeps DEF PingTimerFires
<1>8. CASE DisconnectTimerFires(a)
  BY <1>8, LoseKeeps DEF DisconnectTimerFires
<1>. QED BY <1>3, <1>4, <1>5, <1>6, <1>7, <1>8 DEF TimerFires

LEMMA ServerKeepsInv ==
  ASSUME Inv, NEW a \in Account, ServerActs(a)
  PROVE  Inv'
<1>. DEFINE r == acc[a]
<1>1. r \in ImAccount /\ SocketOK(r)
  BY DEF Inv, AccountsOK
<1>2. CASE SocketOpens(a)
  <2>. DEFINE s == [r EXCEPT !.socket = "open"]
  <2>1. Step(a, s) /\ UNCHANGED wanted /\ r.socket = "opening"
    BY <1>2 DEF SocketOpens
  <2>2. s \in ImAccount /\ SameStanding(s, r)
    BY <1>1, <2>1 DEF ImAccount, SameStanding
  <2>. QED BY <2>1, <2>2, PlainStepKeeps
<1>3. CASE Welcome(a)
  <2>. DEFINE s == Connected(r)
  <2>1. /\ Step(a, s) /\ UNCHANGED wanted /\ r.socket = "open"
        /\ Without(Excluded) => r.state # "disconnecting"
    BY <1>3 DEF Welcome, Without, Excluded
  <2>2. s \in ImAccount
    BY <1>1 DEF Connected, ImAccount, First
  <2>3. SocketOK(s)
    BY <1>1 DEF Connected, ImAccount, SocketOK
  <2>4. TimerOK(r) => TimerOK(s)
    BY <1>1, <2>1 DEF Connected, ImAccount, SocketOK, TimerOK, TimerForError
  <2>5. Without(Excluded) => ~AtRest(r)
    BY <1>1, <2>1 DEF SocketOK, AtRest
  <2>. HIDE DEF s
  <2>. QED BY <2>1, <2>2, <2>3, <2>4, <2>5, StepOnKeeps
<1>4. CASE LoginFails(a)
  BY <1>4, LoseKeeps DEF LoginFails
<1>5. CASE ConnectionEnds(a)
  BY <1>5, LoseKeeps DEF ConnectionEnds
<1>6. CASE DataReceived(a)
  <2>1. PICK pong \in BOOLEAN : Step(a, [r EXCEPT !.ping = TRUE, !.pong = @ /\ ~pong])
    BY <1>6 DEF DataReceived
  <2>. DEFINE waits == r.pong /\ ~pong
              s == [r EXCEPT !.ping = TRUE, !.pong = waits]
  <2>2. waits \in BOOLEAN
    OBVIOUS
  <2>3. Step(a, s) /\ UNCHANGED wanted
    BY <1>6, <2>1 DEF DataReceived
  <2>. HIDE DEF waits
  <2>4. s \in ImAccount
    BY <1>1, <2>2 DEF ImAccount
  <2>5. SameStanding(s, r)
    BY <1>1 DEF ImAccount, SameStanding
  <2>. QED BY <2>3, <2>4, <2>5, PlainStepKeeps
<1>7. CASE ConnectionDies(a)
  <2>. DEFINE s == [r EXCEPT !.alive = FALSE]
  <2>1. Step(a, s) /\ UNCHANGED wanted
    BY <1>7 DEF ConnectionDies
  <2>2. s \in ImAccount
    BY <1>1 DEF ImAccount
  <2>3. SameStanding(s, r)
    BY <1>1 DEF ImAccount, SameStanding
  <2>. QED BY <2>1, <2>2, <2>3, PlainStepKeeps
<1>. QED BY <1>2, <1>3, <1>4, <1>5, <1>6, <1>7 DEF ServerActs

LEMMA InfoHandledKeepsInv ==
  ASSUME Inv, NEW a \in Account, ConnectionInfoHandled(a)
  PROVE  Inv'
<1>. DEFINE r == [acc[a] EXCEPT !.infoChanged = FALSE]
            s == CASE r.state = "connecting" -> Connect(Disconnect(r), On)
                   [] r.state = "disconnected" /\ ErrorReason(r) \in {"network", "fatal"}
                        -> Connect(r, On)
                   [] OTHER -> r
<1>1. r \in ImAccount /\ SocketOK(r)
  <2>1. acc[a] \in ImAccount /\ SocketOK(acc[a])
    BY DEF Inv, AccountsOK
  <2>2. r \in ImAccount
    BY <2>1 DEF ImAccount
  <2>3. SocketOK(r)
    BY <2>1 DEF ImAccount, SocketOK
  <2>. QED BY <2>2, <2>3
<1>2. Step(a, s) /\ UNCHANGED wanted /\ acc[a].infoChanged
  BY DEF ConnectionInfoHandled
<1>3. ~TimerOK(acc[a])
  BY <1>2 DEF TimerOK, TimerForError
<1>4. s \in {Connect(Disconnect(r), On), Connect(r, On), r}
  OBVIOUS
<1>. HIDE DEF r, s
<1>5. s \in ImAccount /\ SocketOK(s)
  BY <1>1, <1>4, OnIsBoolean, DisconnectKeeps, ConnectKeeps
<1>. QED BY <1>2, <1>3, <1>5, StepOnKeeps

LEMMA WakeUpKeepsInv ==
  ASSUME Inv, NEW a \in Account, WakeUp(a)
  PROVE  Inv'
BY LoseKeeps, SendPingKeeps DEF WakeUp

LEMMA StatusKeepsInv ==
  ASSUME Inv, NEW now \in [user : BOOLEAN, network : BOOLEAN], ChangeStatus(now)
  PROVE  Inv'
<1>. DEFINE on == now.user /\ now.network
<1>1. on \in BOOLEAN
  OBVIOUS
<1>2. /\ acc \in [Account -> ImAccount] /\ \A a \in Account : SocketOK(acc[a])
      /\ Without(Excluded) =>
           \A a \in Account : TimerOK(acc[a]) /\ (wanted[a] = "off" => AtRest(acc[a]))
  BY DEF Inv, AccountsOK, FinalOK
<1>3. OthersOK' /\ env' = env /\ wanted' = wanted
  BY DEF ChangeStatus, Inv, OthersOK, sessionVars
<1>4. on => LastSecondAllowed({a \in Account : acc[a].observer})
  BY DEF ChangeStatus
<1>5. CASE running
  <2>1. acc' = [a \in Account |-> ObserveStatus(acc[a], on)] /\ SavePrefs
    BY <1>5 DEF ChangeStatus
  <2>. HIDE DEF on
  <2>2. AccountsOK'
    BY <1>1, <1>2, <2>1, ObserveStatusKeeps DEF AccountsOK
  <2>3. DiskOK'
    BY <2>1, <2>2, SavePrefsKeeps DEF Inv, AccountsOK
  <2>4. ASSUME Without(Excluded), NEW a \in Account
        PROVE  TimerOK(acc'[a]) /\ (wanted'[a] = "off" => AtRest(acc'[a]))
    <3>1. on /\ acc[a].observer => acc[a].timer # "soon"
      BY <1>4, <2>4, NotInLastSecond
    <3>. QED BY <1>1, <1>2, <1>3, <2>1, <2>4, <3>1, ObserveStatusKeeps
  <2>. QED BY <1>3, <2>2, <2>3, <2>4 DEF Inv, FinalOK, Without
<1>6. CASE ~running
  <2>1. acc' = acc /\ disk' = disk /\ saveTimer' = saveTimer
    BY <1>6 DEF ChangeStatus, diskVars
  <2>. QED BY <1>3, <2>1 DEF Inv, AccountsOK, DiskOK, FinalOK, Without
<1>. QED BY <1>5, <1>6

LEMMA AutoLoginKeepsInv == ASSUME Inv, UserProcessesAutoLogin PROVE Inv'
<1>1. /\ acc \in [Account -> ImAccount] /\ \A a \in Account : SocketOK(acc[a])
      /\ Without(Excluded) =>
           \A a \in Account : TimerOK(acc[a]) /\ (wanted[a] = "off" => AtRest(acc[a]))
  BY DEF Inv, AccountsOK, FinalOK
<1>2. /\ acc' = [a \in Account |-> CheckAutoLogin(acc[a], On)]
      /\ wanted' = [a \in Account |-> IF acc'[a].autoLogin THEN "on" ELSE wanted[a]]
      /\ LastSecondAllowed(Account) /\ SavePrefs /\ env' = env
  BY DEF UserProcessesAutoLogin, ProcessAutoLogin
<1>3. AccountsOK'
  BY <1>1, <1>2, OnIsBoolean, CheckAutoLoginKeeps DEF AccountsOK
<1>4. DiskOK'
  BY <1>2, <1>3, SavePrefsKeeps DEF Inv, AccountsOK
<1>5. OthersOK'
  BY <1>2 DEF UserProcessesAutoLogin, Inv, OthersOK
<1>6. ASSUME Without(Excluded), NEW a \in Account
      PROVE  TimerOK(acc'[a]) /\ (wanted'[a] = "off" => AtRest(acc'[a]))
  <2>1. acc[a].timer # "soon"
    BY <1>2, <1>6, NotInLastSecond
  <2>2. TimerOK(acc'[a]) /\ (acc'[a] = acc[a] \/ acc'[a].autoLogin)
    BY <1>1, <1>2, <1>6, <2>1, OnIsBoolean, CheckAutoLoginKeeps
  <2>3. wanted'[a] = "off" => acc'[a] = acc[a] /\ wanted[a] = "off"
    BY <1>2, <2>2
  <2>. QED BY <1>1, <1>6, <2>2, <2>3
<1>. QED BY <1>2, <1>3, <1>4, <1>5, <1>6 DEF Inv, FinalOK, Without

(* At the start an account is wanted that is logged in automatically, and no
   other is connected.                                                     *)
LEMMA StartKeepsInv == ASSUME Inv, Start PROVE Inv'
<1>. DEFINE loaded == [a \in Account |->
                         IF acc[a].exists THEN Load(disk.first[a]) ELSE Gone]
<1>1. \A a \in Account : /\ loaded[a] \in ImAccount /\ SocketOK(loaded[a])
                         /\ TimerOK(loaded[a]) /\ AtRest(loaded[a])
  <2>. SUFFICES ASSUME NEW a \in Account
                PROVE  /\ loaded[a] \in ImAccount /\ SocketOK(loaded[a])
                       /\ TimerOK(loaded[a]) /\ AtRest(loaded[a])
    OBVIOUS
  <2>1. disk.first[a] \in First
    BY DEF Inv, DiskOK
  <2>2. /\ Load(disk.first[a]) \in ImAccount /\ SocketOK(Load(disk.first[a]))
        /\ TimerOK(Load(disk.first[a])) /\ AtRest(Load(disk.first[a]))
    <3>1. CASE disk.first[a] \in {"pending", "crashed"}
      <4>. DEFINE fresh == Fresh("crashed")
                  s == [fresh EXCEPT !.imError = "crashed"]
      <4>1. /\ fresh \in ImAccount /\ SocketOK(fresh)
            /\ TimerOK(fresh) /\ AtRest(fresh)
        BY FreshKeeps DEF First
      <4>2. Load(disk.first[a]) = s
        BY <3>1 DEF Load
      <4>. HIDE DEF fresh
      <4>3. s \in ImAccount /\ SameStanding(s, fresh)
        BY <4>1 DEF ImAccount, SameStanding
      <4>. HIDE DEF s
      <4>. QED BY <4>1, <4>2, <4>3, SameStandingKeeps
    <3>2. CASE disk.first[a] \notin {"pending", "crashed"}
      BY <2>1, <3>2, FreshKeeps DEF Load
    <3>. QED BY <3>1, <3>2
  <2>. QED BY <2>2, GoneKeeps
<1>2. online'.network \in BOOLEAN /\ online' \in [user : BOOLEAN, network : BOOLEAN]
  BY DEF Start, Inv, OthersOK
<1>. DEFINE on == online'.network
<1>3. /\ \/ acc' = loaded
         \/ acc' = [a \in Account |-> CheckAutoLogin(loaded[a], on)]
      /\ wanted' = [a \in Account |-> IF acc'[a].autoLogin THEN "on" ELSE "off"]
      /\ env' = env /\ running' = TRUE
      /\ autoLoginStatus' \in {"enabled", "crash"}
  BY DEF Start, ProcessAutoLogin
<1>4. /\ disk' = disk \/ disk' = Memory(acc')
      /\ saveTimer' \in BOOLEAN
  BY DEF Start
<1>5. loaded = [a \in Account |-> loaded[a]]
  OBVIOUS
<1>. HIDE DEF loaded, on
<1>6. \A a \in Account :
        /\ acc'[a] \in ImAccount /\ SocketOK(acc'[a]) /\ TimerOK(acc'[a])
        /\ acc'[a].autoLogin \/ AtRest(acc'[a])
  <2>1. CASE acc' = loaded
    BY <2>1, <1>1
  <2>2. CASE acc' = [a \in Account |-> CheckAutoLogin(loaded[a], on)]
    <3>. SUFFICES ASSUME NEW a \in Account
                  PROVE  /\ acc'[a] \in ImAccount /\ SocketOK(acc'[a]) /\ TimerOK(acc'[a])
                         /\ acc'[a].autoLogin \/ AtRest(acc'[a])
      OBVIOUS
    <3>1. acc'[a] = CheckAutoLogin(loaded[a], on) /\ loaded[a].timer # "soon"
      BY <2>2, <1>1 DEF AtRest
    <3>. QED BY <3>1, <1>1, <1>2, CheckAutoLoginKeeps DEF on
  <2>. QED BY <1>3, <2>1, <2>2
<1>7. acc' \in [Account -> ImAccount]
  BY <1>3, <1>5, <1>6
<1>8. DiskOK'
  BY <1>4, <1>7, MemoryType DEF Inv, DiskOK
<1>9. AccountsOK' /\ OthersOK'
  BY <1>2, <1>3, <1>6, <1>7 DEF Inv, OthersOK, AccountsOK
<1>10. FinalOK'
  BY <1>3, <1>6 DEF FinalOK
<1>. QED BY <1>8, <1>9, <1>10 DEF Inv

LEMMA EndKeepsInv == ASSUME Inv, Crash \/ Quit PROVE Inv'
<1>1. /\ Ended /\ env' = env /\ wanted' = wanted /\ running' = FALSE
      /\ saveTimer' = FALSE /\ online' = online /\ autoLoginStatus' = autoLoginStatus
  BY DEF Crash, Quit
<1>2. /\ acc' \in [Account -> ImAccount]
      /\ \A a \in Account : SocketOK(acc'[a]) /\ TimerOK(acc'[a]) /\ AtRest(acc'[a])
  BY <1>1, FreshKeeps, GoneKeeps DEF Ended, First
<1>3. DiskOK'
  <2>1. CASE Crash
    BY <2>1, <1>1 DEF Crash, Inv, DiskOK
  <2>2. CASE Quit
    <3>1. \A a \in Account : UnInit(acc[a]) \in First
      BY DEF Inv, AccountsOK, ImAccount, First, UnInit
    <3>2. disk' = [first |-> [a \in Account |-> UnInit(acc[a])], auto |-> FALSE]
      BY <2>2 DEF Quit
    <3>. QED BY <1>1, <3>1, <3>2 DEF DiskOK
  <2>. QED BY <2>1, <2>2
<1>. QED BY <1>1, <1>2, <1>3 DEF Inv, AccountsOK, OthersOK, FinalOK

LEMMA InitInv == Init => Inv
<1>. SUFFICES ASSUME Init PROVE Inv
  OBVIOUS
<1>1. PICK case \in Cases :
        /\ env = case.env
        /\ acc = [a \in Account |-> IF a \in case.accounts THEN Fresh("ok") ELSE Gone]
  BY DEF Init
<1>2. env \subseteq Circumstances
  BY <1>1, ChatAssumption DEF ChatAssumption
<1>3. \A a \in Account : /\ acc[a] \in ImAccount /\ SocketOK(acc[a])
                         /\ TimerOK(acc[a]) /\ AtRest(acc[a])
  BY <1>1, FreshKeeps, GoneKeeps DEF First
<1>4. acc \in [Account -> ImAccount]
  BY <1>1, <1>3
<1>5. DiskOK
  BY DEF Init, DiskOK, First
<1>6. OthersOK
  BY <1>2 DEF Init, OthersOK
<1>. QED BY <1>3, <1>4, <1>5, <1>6 DEF Inv, AccountsOK, FinalOK

LEMMA NextInv == Inv /\ [Next]_vars => Inv'
<1>. SUFFICES ASSUME Inv, [Next]_vars PROVE Inv'
  OBVIOUS
<1>1. CASE SaveTimerFires
  BY <1>1, MemoryType
  DEF SaveTimerFires, Inv, AccountsOK, DiskOK, OthersOK, FinalOK, Without,
      accountVars, sessionVars
<1>2. CASE UNCHANGED vars
  BY <1>2
  DEF vars, Inv, AccountsOK, DiskOK, OthersOK, FinalOK, Without,
      accountVars, diskVars, sessionVars
<1>3. ASSUME NEW user \in BOOLEAN, NEW network \in BOOLEAN,
             ChangeStatus([user |-> user, network |-> network])
      PROVE  Inv'
  BY <1>3, StatusKeepsInv
<1>. QED
  BY <1>1, <1>2, <1>3, TimersKeepInv, ServerKeepsInv, UserKeepsInv,
     InfoHandledKeepsInv, WakeUpKeepsInv, StartKeepsInv, AutoLoginKeepsInv,
     EndKeepsInv
  DEF Next

LEMMA InvAlways == Spec => []Inv
BY InitInv, NextInv, PTL DEF Spec

-----------------------------------------------------------------------------
(* Every variable keeps its type, for any accounts and in every circumstance,
   and an account has a socket exactly while it is not disconnected, so that
   an account which is disconnecting always has what ends that: the two
   seconds ircAccount.disconnect gives to QUIT (irc.js).                   *)
THEOREM TypeCorrect == Spec => []TypeOK
<1>1. Inv => TypeOK
  BY DEF Inv, AccountsOK, DiskOK, OthersOK, TypeOK, ImAccount, First, SocketOK
<1>. QED BY <1>1, InvAlways, PTL

(* The user's last word is final, through any number of sessions and
   accounts, unless one of the three circumstances is met: of all that may
   happen only these connect again what the user has disconnected
   (imAccount.disconnect and _startReconnectTimer, imAccounts.js).         *)
THEOREM UserDisconnectIsFinalAlways == Spec => []UserDisconnectIsFinal
<1>1. Inv => UserDisconnectIsFinal
  BY DEF Inv, FinalOK, UserDisconnectIsFinal, AtRest, Excluded
<1>. QED BY <1>1, InvAlways, PTL

-----------------------------------------------------------------------------
(* What is wanted is not forgotten.                                        *)

(* An account whose changed settings are still to be tried.                *)
ToBeTried(r) == r.infoChanged /\ r.state = "disconnected" /\ r.error # "none"

(* The status connects it, and it is connected, or has a timer, while the
   status allows it.                                                       *)
Pursued(r, on) ==
  r.imError = "none" =>
    /\ r.observer \/ ToBeTried(r)
    /\ on /\ r.state = "disconnected" /\ r.timer = "none" /\ r.error # "fatal" =>
         ToBeTried(r)

(* An account that is disconnecting has met with no error, so that its
   observer connects it in the end.                                        *)
EndsWell(r) == r.state = "disconnecting" => r.error = "none"

WantedInv ==
  /\ \A a \in Account : EndsWell(acc[a])
  /\ running =>
       /\ \A a \in Account : wanted[a] = "on" => Pursued(acc[a], On)
       /\ autoLoginStatus # "enabled" => \A a \in Account : ~acc[a].autoLogin

(* Whatever becomes of an account, the session's crash stays with it, and
   nothing but the automatic login begins one.                             *)
Continues(s, r) ==
  /\ s.imError = r.imError
  /\ s.autoLogin => r.autoLogin
  /\ EndsWell(r) => EndsWell(s)

LEMMA CancelContinues ==
  ASSUME NEW r \in ImAccount
  PROVE  /\ Continues(CancelReconnection(r), r)
         /\ CancelReconnection(r).observer = r.observer
<1>1. /\ CancelReconnection(r).imError = r.imError
      /\ CancelReconnection(r).autoLogin = r.autoLogin
      /\ CancelReconnection(r).state = r.state
      /\ CancelReconnection(r).error = r.error
      /\ CancelReconnection(r).observer = r.observer
  BY DEF CancelReconnection, ImAccount
<1>. QED BY <1>1 DEF Continues, EndsWell

LEMMA StartTimerContinues ==
  ASSUME NEW r \in ImAccount, NEW settled
  PROVE  /\ StartReconnectTimer(r, settled).imError = r.imError
         /\ StartReconnectTimer(r, settled).autoLogin = r.autoLogin
         /\ StartReconnectTimer(r, settled).observer = r.observer
         /\ StartReconnectTimer(r, settled).state = r.state
         /\ StartReconnectTimer(r, settled).error = r.error
         /\ StartReconnectTimer(r, settled).timer # "none"
<1>1. PICK attempt : attempt = IF settled THEN 0 ELSE r.attempt
  OBVIOUS
<1>2. PICK next : next = IF attempt < MaxAttempt THEN attempt + 1 ELSE attempt
  OBVIOUS
<1>3. PICK delay : delay = IF attempt = 0 THEN "soon" ELSE "later"
  OBVIOUS
<1>4. PICK stray : stray = (r.stray \/ r.timer # "none")
  OBVIOUS
<1>5. PICK since : since = (r.settled /\ ~settled)
  OBVIOUS
<1>6. StartReconnectTimer(r, settled) =
        [r EXCEPT !.stray = stray, !.timer = delay, !.attempt = next,
                  !.settled = since]
  BY <1>1, <1>2, <1>3, <1>4, <1>5 DEF StartReconnectTimer
<1>7. delay # "none"
  BY <1>3
<1>8. PICK s : s = StartReconnectTimer(r, settled)
  OBVIOUS
<1>9. /\ s.imError = r.imError /\ s.autoLogin = r.autoLogin /\ s.observer = r.observer
      /\ s.state = r.state /\ s.error = r.error /\ s.timer = delay
  BY <1>6, <1>8 DEF ImAccount
<1>. QED BY <1>7, <1>8, <1>9

LEMMA PrplConnectContinues ==
  ASSUME NEW r \in ImAccount
  PROVE  /\ Continues(PrplConnect(r), r)
         /\ PrplConnect(r).state = "connecting"
         /\ PrplConnect(r).observer = r.observer
<1>1. PICK s : s = IF r.error # "none" /\ r.timer = "later"
                     THEN [CancelReconnection(r) EXCEPT !.settled = FALSE] ELSE r
  OBVIOUS
<1>2. /\ s \in ImAccount /\ s.imError = r.imError
      /\ s.autoLogin = r.autoLogin /\ s.observer = r.observer
  <2>1. CancelReconnection(r) \in ImAccount
    BY CancelKeeps
  <2>2. /\ CancelReconnection(r).imError = r.imError
        /\ CancelReconnection(r).autoLogin = r.autoLogin
        /\ CancelReconnection(r).observer = r.observer
    BY DEF CancelReconnection, ImAccount
  <2>3. PICK t : t = CancelReconnection(r)
    OBVIOUS
  <2>. QED BY <1>1, <2>1, <2>2, <2>3 DEF ImAccount
<1>3. PICK first : first = IF s.first = "ok" THEN "ok" ELSE "pending"
  OBVIOUS
<1>4. PICK t : t = PrplConnect(r)
  OBVIOUS
<1>5. t = [s EXCEPT !.state = "connecting", !.first = first,
                    !.socket = "opening", !.alive = TRUE]
  BY <1>1, <1>3, <1>4 DEF PrplConnect
<1>6. /\ t.imError = r.imError /\ t.autoLogin = r.autoLogin
      /\ t.observer = r.observer /\ t.state = "connecting"
  BY <1>2, <1>5 DEF ImAccount
<1>. QED BY <1>4, <1>6 DEF Continues, EndsWell

LEMMA ConnectContinues ==
  ASSUME NEW r \in ImAccount, NEW on \in BOOLEAN
  PROVE  /\ Continues(Connect(r, on), r)
         /\ Pursued(Connect(r, on), on)
<1>1. PICK s : s = [r EXCEPT !.observer = TRUE]
  OBVIOUS
<1>2. /\ s \in ImAccount /\ Continues(s, r) /\ s.observer /\ s.state = r.state
  BY <1>1 DEF ImAccount, Continues, EndsWell
<1>3. Connect(r, on) = IF on /\ s.state = "disconnected" THEN PrplConnect(s) ELSE s
  BY <1>1 DEF Connect
<1>4. CASE on /\ s.state = "disconnected"
  BY <1>2, <1>3, <1>4, PrplConnectContinues DEF Continues, Pursued
<1>5. CASE ~(on /\ s.state = "disconnected")
  BY <1>2, <1>3, <1>5 DEF Pursued
<1>. QED BY <1>4, <1>5

LEMMA DisconnectingContinues ==
  ASSUME NEW r \in ImAccount, NEW error \in {"none", "network", "fatal"},
         NEW settled \in BOOLEAN
  PROVE  /\ Disconnecting(r, error, settled).imError = r.imError
         /\ ~Disconnecting(r, error, settled).autoLogin
         /\ Disconnecting(r, error, settled).observer = r.observer
         /\ Disconnecting(r, error, settled).state = "disconnecting"
         /\ Disconnecting(r, error, settled).error = error
         /\ error = "network" /\ online.network =>
              Disconnecting(r, error, settled).timer # "none"
<1>1. PICK first : first = IF r.first \in {"ok", "crashed"} THEN r.first ELSE "unknown"
  OBVIOUS
<1>2. PICK s : s = [r EXCEPT !.state = "disconnecting", !.autoLogin = FALSE,
                             !.first = first, !.error = error]
  OBVIOUS
<1>3. first \in First
  BY <1>1 DEF ImAccount, First
<1>4. /\ s \in ImAccount /\ s.imError = r.imError /\ ~s.autoLogin
      /\ s.observer = r.observer /\ s.state = "disconnecting" /\ s.error = error
  BY <1>2, <1>3 DEF ImAccount
<1>5. Disconnecting(r, error, settled) =
        IF error = "network" /\ online.network THEN StartReconnectTimer(s, settled) ELSE s
  BY <1>1, <1>2 DEF Disconnecting
<1>. QED BY <1>4, <1>5, StartTimerContinues

(* Its observer connects the account again, unless there was an error.     *)
LEMMA DisconnectedContinues ==
  ASSUME NEW r \in ImAccount, NEW on \in BOOLEAN
  PROVE  /\ Disconnected(r, on).imError = r.imError
         /\ Disconnected(r, on).autoLogin => r.autoLogin
         /\ EndsWell(Disconnected(r, on))
         /\ r.observer /\ (on /\ r.error = "network" => r.timer # "none") =>
              Pursued(Disconnected(r, on), on)
<1>1. PICK s : s = [r EXCEPT !.state = "disconnected", !.quitTimer = FALSE,
                             !.socket = "none", !.alive = FALSE,
                             !.ping = FALSE, !.pong = FALSE, !.strayPong = FALSE]
  OBVIOUS
<1>2. /\ s \in ImAccount /\ s.imError = r.imError /\ s.autoLogin = r.autoLogin
      /\ s.state = "disconnected" /\ s.error = r.error
      /\ s.observer = r.observer /\ s.timer = r.timer
  <2>1. s \in ImAccount
    BY <1>1 DEF ImAccount
  <2>2. s.imError = r.imError /\ s.autoLogin = r.autoLogin
    BY <1>1 DEF ImAccount
  <2>3. s.state = "disconnected" /\ s.error = r.error
    BY <1>1 DEF ImAccount
  <2>4. s.observer = r.observer /\ s.timer = r.timer
    BY <1>1 DEF ImAccount
  <2>. QED BY <2>1, <2>2, <2>3, <2>4
<1>3. Disconnected(r, on) =
        IF r.observer /\ r.error = "none" /\ on THEN Connect(s, on) ELSE s
  BY <1>1 DEF Disconnected
<1>4. EndsWell(s)
  BY <1>2 DEF EndsWell
<1>5. CASE r.observer /\ r.error = "none" /\ on
  <2>1. Disconnected(r, on) = Connect(s, on)
    BY <1>3, <1>5
  <2>2. Continues(Connect(s, on), s) /\ Pursued(Connect(s, on), on)
    BY <1>2, ConnectContinues
  <2>. QED BY <1>2, <1>4, <2>1, <2>2 DEF Continues
<1>6. CASE ~(r.observer /\ r.error = "none" /\ on)
  <2>1. Disconnected(r, on) = s
    BY <1>3, <1>6
  <2>2. s.error \in {"none", "network", "fatal"}
    BY <1>2 DEF ImAccount
  <2>. QED BY <1>2, <1>4, <1>6, <2>1, <2>2 DEF Pursued
<1>. QED BY <1>5, <1>6

LEMMA GotDisconnectedContinues ==
  ASSUME NEW r \in ImAccount, NEW error \in {"none", "network", "fatal"},
         NEW settled \in BOOLEAN, NEW on \in BOOLEAN, on => online.network
  PROVE  /\ Continues(GotDisconnected(r, error, settled, on), r)
         /\ EndsWell(r) /\ Pursued(r, on) =>
              Pursued(GotDisconnected(r, error, settled, on), on)
<1>1. PICK d : d = GotDisconnected(r, error, settled, on)
  OBVIOUS
<1>2. CASE r.state = "disconnected"
  BY <1>2 DEF GotDisconnected, Continues
<1>3. CASE r.state = "disconnecting"
  <2>1. d = Disconnected(r, on)
    BY <1>1, <1>3 DEF GotDisconnected
  <2>2. EndsWell(r) => r.error = "none"
    BY <1>3 DEF EndsWell
  <2>3. Pursued(r, on) => r.observer \/ r.imError # "none"
    BY <1>3 DEF Pursued, ToBeTried
  <2>4. /\ d.imError = r.imError /\ (d.autoLogin => r.autoLogin) /\ EndsWell(d)
        /\ EndsWell(r) /\ r.observer => Pursued(d, on)
    BY <2>1, <2>2, DisconnectedContinues
  <2>. QED BY <1>1, <2>3, <2>4 DEF Continues, Pursued
<1>4. CASE r.state \notin {"disconnected", "disconnecting"}
  <2>1. PICK s : s = Disconnecting(r, error, settled)
    OBVIOUS
  <2>2. d = Disconnected(s, on)
    BY <1>1, <1>4, <2>1 DEF GotDisconnected
  <2>3. /\ s.imError = r.imError /\ ~s.autoLogin
        /\ s.observer = r.observer /\ s.error = error
        /\ error = "network" /\ online.network => s.timer # "none"
    BY <2>1, DisconnectingContinues
  <2>6. s \in ImAccount
    BY <2>1, DisconnectingKeeps
  <2>4. Pursued(r, on) => r.observer \/ r.imError # "none"
    BY <1>4 DEF Pursued, ToBeTried
  <2>5. /\ d.imError = r.imError /\ ~d.autoLogin /\ EndsWell(d)
        /\ s.observer => Pursued(d, on)
    BY <2>2, <2>3, <2>6, DisconnectedContinues
  <2>. QED BY <1>1, <2>3, <2>4, <2>5 DEF Continues, Pursued
<1>. QED BY <1>2, <1>3, <1>4

LEMMA PrplDisconnectContinues ==
  ASSUME NEW r \in ImAccount
  PROVE  /\ Continues(PrplDisconnect(r), r)
         /\ PrplDisconnect(r).observer = r.observer
<1>1. CASE r.state \in {"disconnected", "disconnecting"}
  BY <1>1 DEF PrplDisconnect, Continues
<1>2. CASE r.state \notin {"disconnected", "disconnecting"}
  <2>1. PICK s : s = Disconnecting(r, "none", FALSE)
    OBVIOUS
  <2>2. /\ s \in ImAccount /\ s.imError = r.imError /\ ~s.autoLogin
        /\ s.observer = r.observer /\ s.state = "disconnecting" /\ s.error = "none"
    BY <2>1, DisconnectingKeeps, DisconnectingContinues
  <2>3. PICK d : d = PrplDisconnect(r)
    OBVIOUS
  <2>4. d = [s EXCEPT !.quitTimer = TRUE]
    BY <1>2, <2>1, <2>3 DEF PrplDisconnect
  <2>5. /\ d.imError = r.imError /\ ~d.autoLogin /\ d.observer = r.observer
        /\ d.error = "none"
    BY <2>2, <2>4 DEF ImAccount
  <2>. QED BY <2>3, <2>5 DEF Continues, EndsWell
<1>. QED BY <1>1, <1>2

LEMMA DisconnectContinues ==
  ASSUME NEW r \in ImAccount
  PROVE  Continues(Disconnect(r), r)
<1>1. PICK s : s = [r EXCEPT !.observer = FALSE]
  OBVIOUS
<1>2. s \in ImAccount /\ Continues(s, r)
  BY <1>1 DEF ImAccount, Continues, EndsWell
<1>3. Disconnect(r) = PrplDisconnect(s)
  BY <1>1 DEF Disconnect
<1>. QED BY <1>2, <1>3, PrplDisconnectContinues DEF Continues

(* The status connects what it disconnected, and what it found without a
   network.                                                                *)
LEMMA ObserveStatusContinues ==
  ASSUME NEW r \in ImAccount, SocketOK(r), NEW on \in BOOLEAN, NEW was \in BOOLEAN
  PROVE  /\ Continues(ObserveStatus(r, on), r)
         /\ Pursued(r, was) => Pursued(ObserveStatus(r, on), on)
<1>1. CASE ~r.observer
  BY <1>1 DEF ObserveStatus, Continues, Pursued
<1>2. CASE r.observer /\ ~on
  <2>1. PICK d : d = PrplDisconnect(r)
    OBVIOUS
  <2>2. d \in ImAccount
    BY <2>1, PrplDisconnectKeeps
  <2>3. Continues(d, r) /\ d.observer = r.observer
    BY <2>1, PrplDisconnectContinues
  <2>4. PICK c : c = CancelReconnection(d)
    OBVIOUS
  <2>5. ObserveStatus(r, on) = c
    BY <1>2, <2>1, <2>4 DEF ObserveStatus
  <2>6. Continues(c, d) /\ c.observer = d.observer
    BY <2>2, <2>4, CancelContinues
  <2>7. Continues(c, r)
    BY <2>3, <2>6 DEF Continues
  <2>8. Pursued(c, on)
    BY <1>2, <2>3, <2>6 DEF Pursued
  <2>. QED BY <2>5, <2>7, <2>8
<1>3. CASE r.observer /\ on
  <2>1. CASE r.state = "disconnected" /\ ErrorReason(r) \in {"none", "network"}
    <3>1. ObserveStatus(r, on) = PrplConnect(r)
      BY <1>3, <2>1 DEF ObserveStatus
    <3>. QED BY <1>3, <3>1, PrplConnectContinues DEF Pursued
  <2>2. CASE ~(r.state = "disconnected" /\ ErrorReason(r) \in {"none", "network"})
    <3>1. ObserveStatus(r, on) = r
      BY <1>3, <2>2 DEF ObserveStatus
    <3>2. Pursued(r, on)
      BY <1>3, <2>2 DEF Pursued, ErrorReason, ImAccount
    <3>. QED BY <3>1, <3>2 DEF Continues
  <2>. QED BY <2>1, <2>2
<1>. QED BY <1>1, <1>2, <1>3

LEMMA CheckAutoLoginContinues ==
  ASSUME NEW r \in ImAccount, NEW on \in BOOLEAN
  PROVE  /\ EndsWell(r) => EndsWell(CheckAutoLogin(r, on))
         /\ CheckAutoLogin(r, on) = r \/ Pursued(CheckAutoLogin(r, on), on)
<1>1. PICK s : s = [r EXCEPT !.autoLogin = TRUE]
  OBVIOUS
<1>2. s \in ImAccount /\ (EndsWell(r) => EndsWell(s))
  BY <1>1 DEF ImAccount, EndsWell
<1>3. CheckAutoLogin(r, on) \in {r, Connect(s, on)}
  BY <1>1 DEF CheckAutoLogin
<1>. QED BY <1>2, <1>3, ConnectContinues DEF Continues

-----------------------------------------------------------------------------
(* A change of one account leaves what is wanted pursued if it pursues it. *)
LEMMA ChangePursues ==
  ASSUME Inv, WantedInv, running, NEW a \in Account, NEW r,
         acc' = [acc EXCEPT ![a] = r], online' = online, running' = running,
         autoLoginStatus' = autoLoginStatus,
         EndsWell(acc[a]) => EndsWell(r),
         r.autoLogin => acc[a].autoLogin,
         \A b \in Account \ {a} : wanted'[b] = wanted[b],
         wanted'[a] = "on" => Pursued(r, On)
  PROVE  WantedInv'
<1>1. /\ acc'[a] = r /\ \A b \in Account \ {a} : acc'[b] = acc[b]
  BY DEF Inv, AccountsOK
<1>2. On' = On
  BY DEF On
<1>3. ASSUME NEW b \in Account
      PROVE  /\ EndsWell(acc'[b])
             /\ wanted'[b] = "on" => Pursued(acc'[b], On)
             /\ autoLoginStatus # "enabled" => ~acc'[b].autoLogin
  <2>1. CASE b = a
    BY <1>1, <2>1 DEF WantedInv
  <2>2. CASE b # a
    BY <1>1, <2>2 DEF WantedInv
  <2>. QED BY <2>1, <2>2
<1>4. ASSUME NEW b \in Account PROVE EndsWell(acc[b])'
  BY <1>3 DEF EndsWell
<1>5. ASSUME NEW b \in Account, wanted'[b] = "on" PROVE Pursued(acc[b], On)'
  BY <1>2, <1>3, <1>5 DEF Pursued, ToBeTried
<1>. QED BY <1>2, <1>3, <1>4, <1>5 DEF WantedInv

LEMMA StepPursues ==
  ASSUME Inv, WantedInv, running, NEW a \in Account, NEW r, Step(a, r),
         EndsWell(acc[a]) => EndsWell(r),
         r.autoLogin => acc[a].autoLogin,
         \A b \in Account \ {a} : wanted'[b] = wanted[b],
         wanted'[a] = "on" => Pursued(r, On)
  PROVE  WantedInv'
BY ChangePursues DEF Step, sessionVars

(* One that ends in a call of Connect does.                                *)
LEMMA ConnectStepPursues ==
  ASSUME Inv, WantedInv, running, NEW a \in Account, NEW s \in ImAccount,
         Continues(s, acc[a]), Step(a, Connect(s, On)),
         \A b \in Account \ {a} : wanted'[b] = wanted[b]
  PROVE  WantedInv'
<1>1. Continues(Connect(s, On), s) /\ Pursued(Connect(s, On), On)
  BY ConnectContinues, OnIsBoolean
<1>. QED BY <1>1, StepPursues DEF Continues

(* So does one that leaves the account's standing as it is.                *)
LEMMA PlainStepPursues ==
  ASSUME Inv, WantedInv, running, NEW a \in Account, NEW r,
         SameStanding(r, acc[a]), Continues(r, acc[a]),
         Step(a, r), UNCHANGED wanted
  PROVE  WantedInv'
<1>1. wanted[a] = "on" => Pursued(acc[a], On)
  BY DEF WantedInv
<1>2. wanted[a] = "on" => Pursued(r, On)
  BY <1>1 DEF Pursued, ToBeTried, SameStanding, Continues
<1>. QED BY <1>2, StepPursues DEF Continues

LEMMA LosePursues ==
  ASSUME Inv, WantedInv, running, NEW a \in Account,
         NEW error \in {"none", "network", "fatal"}, Lose(a, error)
  PROVE  WantedInv'
<1>1. PICK settled \in Settled(acc[a]) :
        Step(a, GotDisconnected(acc[a], error, settled, On)) /\ UNCHANGED wanted
  BY DEF Lose
<1>2. settled \in BOOLEAN /\ acc[a] \in ImAccount
  BY DEF Settled, Inv, AccountsOK
<1>3. On \in BOOLEAN /\ (On => online.network)
  BY OnIsBoolean DEF On
<1>4. PICK on \in BOOLEAN : on = On
  BY <1>3
<1>5. PICK r : r = GotDisconnected(acc[a], error, settled, on)
  OBVIOUS
<1>6. /\ Continues(r, acc[a])
      /\ EndsWell(acc[a]) /\ Pursued(acc[a], on) => Pursued(r, on)
  BY <1>2, <1>3, <1>4, <1>5, GotDisconnectedContinues
<1>7. EndsWell(acc[a]) /\ (wanted[a] = "on" => Pursued(acc[a], On))
  BY DEF WantedInv
<1>. QED BY <1>1, <1>4, <1>5, <1>6, <1>7, StepPursues DEF Continues

LEMMA SendPingPursues ==
  ASSUME Inv, WantedInv, running, NEW a \in Account, SendPing(a)
  PROVE  WantedInv'
<1>1. PICK lost : lost = (acc[a].strayPong \/ acc[a].pong)
  OBVIOUS
<1>2. PICK s : s = [acc[a] EXCEPT !.ping = FALSE, !.pong = TRUE, !.strayPong = lost]
  OBVIOUS
<1>3. Step(a, s) /\ UNCHANGED wanted
  BY <1>1, <1>2 DEF SendPing
<1>4. acc[a] \in ImAccount
  BY DEF Inv, AccountsOK
<1>5. SameStanding(s, acc[a]) /\ Continues(s, acc[a])
  BY <1>2, <1>4 DEF ImAccount, SameStanding, Continues, EndsWell
<1>. QED BY <1>3, <1>5, PlainStepPursues

LEMMA UserPursues ==
  ASSUME Inv, WantedInv, NEW a \in Account, UserActs(a)
  PROVE  WantedInv'
<1>1. acc[a] \in ImAccount
  BY DEF Inv, AccountsOK
<1>2. CASE UserConnects(a)
  <2>1. running /\ Step(a, Connect(acc[a], On)) /\ wanted' = [wanted EXCEPT ![a] = "on"]
    BY <1>2 DEF UserConnects
  <2>2. Continues(acc[a], acc[a]) /\ \A b \in Account \ {a} : wanted'[b] = wanted[b]
    BY <2>1 DEF Continues, Inv, OthersOK
  <2>. QED BY <1>1, <2>1, <2>2, ConnectStepPursues
<1>3. CASE UserDisconnects(a)
  <2>1. running /\ Step(a, Disconnect(acc[a])) /\ wanted' = [wanted EXCEPT ![a] = "off"]
    BY <1>3 DEF UserDisconnects
  <2>2. wanted'[a] = "off" /\ \A b \in Account \ {a} : wanted'[b] = wanted[b]
    BY <2>1 DEF Inv, OthersOK
  <2>3. Continues(Disconnect(acc[a]), acc[a])
    BY <1>1, DisconnectContinues
  <2>. QED BY <2>1, <2>2, <2>3, StepPursues DEF Continues
<1>4. CASE UserCancelsReconnection(a)
  <2>1. PICK s : s = CancelReconnection(Disconnect(acc[a]))
    OBVIOUS
  <2>2. running /\ Step(a, s) /\ wanted' = [wanted EXCEPT ![a] = "off"]
    BY <1>4, <2>1 DEF UserCancelsReconnection
  <2>3. wanted'[a] = "off" /\ \A b \in Account \ {a} : wanted'[b] = wanted[b]
    BY <2>2 DEF Inv, OthersOK
  <2>4. PICK d \in ImAccount : d = Disconnect(acc[a]) /\ Continues(d, acc[a])
    <3>1. SocketOK(acc[a])
      BY DEF Inv, AccountsOK
    <3>. QED BY <1>1, <3>1, DisconnectKeeps, DisconnectContinues
  <2>5. Continues(s, acc[a])
    BY <2>1, <2>4, CancelContinues DEF Continues
  <2>. QED BY <2>2, <2>3, <2>5, StepPursues DEF Continues
<1>5. CASE ConnectionInfoChanged(a)
  <2>1. PICK ignored \in BOOLEAN :
          ignored = (\/ acc[a].infoChanged \/ acc[a].state = "connected"
                     \/ acc[a].state = "disconnected" /\ ErrorReason(acc[a]) = "none")
    OBVIOUS
  <2>2. PICK changed \in BOOLEAN : changed = (~ignored \/ acc[a].infoChanged)
    OBVIOUS
  <2>3. PICK s : s = [acc[a] EXCEPT !.first = "unknown", !.infoChanged = changed]
    OBVIOUS
  <2>4. /\ running /\ running' = running /\ online' = online
        /\ autoLoginStatus' = autoLoginStatus
        /\ acc' = [acc EXCEPT ![a].first = "unknown",
                              ![a].infoChanged = ~ignored \/ acc[a].infoChanged]
        /\ wanted' = IF acc[a].state = "disconnected"
                          /\ ErrorReason(acc[a]) \in {"network", "fatal"}
                       THEN [wanted EXCEPT ![a] = "on"] ELSE wanted
    BY <1>1, <1>5, <2>1 DEF ConnectionInfoChanged, sessionVars, Inv, AccountsOK, ImAccount
  <2>5. acc' = [acc EXCEPT ![a] = s]
    BY <2>2, <2>3, <2>4 DEF Inv, AccountsOK
  <2>6. /\ s.state = acc[a].state /\ s.error = acc[a].error
        /\ s.imError = acc[a].imError /\ s.autoLogin = acc[a].autoLogin
        /\ s.observer = acc[a].observer /\ s.timer = acc[a].timer
        /\ s.infoChanged = changed
    BY <1>1, <2>3 DEF ImAccount
  <2>7. acc[a].infoChanged => changed
    BY <2>2
  <2>8. ASSUME wanted'[a] = "on", acc[a].imError = "none" PROVE Pursued(s, On)
    <3>1. CASE acc[a].state = "disconnected" /\ acc[a].error # "none"
      <4>1. changed
        BY <2>1, <2>2, <2>8, <3>1 DEF ErrorReason
      <4>. QED BY <2>6, <3>1, <4>1 DEF Pursued, ToBeTried
    <3>2. CASE ~(acc[a].state = "disconnected" /\ acc[a].error # "none")
      <4>1. wanted[a] = "on"
        BY <2>4, <2>8, <3>2 DEF ErrorReason
      <4>2. Pursued(acc[a], On)
        BY <2>4, <4>1 DEF WantedInv
      <4>. QED BY <2>6, <2>8, <3>2, <4>2 DEF Pursued, ToBeTried
    <3>. QED BY <3>1, <3>2
  <2>9. wanted'[a] = "on" => Pursued(s, On)
    BY <2>6, <2>8 DEF Pursued
  <2>10. EndsWell(acc[a]) => EndsWell(s)
    BY <2>6 DEF EndsWell
  <2>11. \A b \in Account \ {a} : wanted'[b] = wanted[b]
    BY <2>4 DEF Inv, OthersOK
  <2>. QED BY <2>4, <2>5, <2>6, <2>9, <2>10, <2>11, ChangePursues
<1>6. CASE DeleteAccount(a)
  <2>1. running /\ Step(a, Gone) /\ wanted' = [wanted EXCEPT ![a] = "off"]
    BY <1>6 DEF DeleteAccount
  <2>2. wanted'[a] = "off" /\ \A b \in Account \ {a} : wanted'[b] = wanted[b]
    BY <2>1 DEF Inv, OthersOK
  <2>3. EndsWell(Gone) /\ ~Gone.autoLogin
    BY DEF EndsWell, Gone, Fresh
  <2>. QED BY <2>1, <2>2, <2>3, StepPursues
<1>. QED BY <1>2, <1>3, <1>4, <1>5, <1>6 DEF UserActs

LEMMA TimersPursue ==
  ASSUME Inv, WantedInv, NEW a \in Account, TimerFires(a)
  PROVE  WantedInv'
<1>1. acc[a] \in ImAccount
  BY DEF Inv, AccountsOK
<1>2. CASE ReconnectTimerFires(a)
  <2>1. PICK s : s = [acc[a] EXCEPT !.timer = "none"]
    OBVIOUS
  <2>2. running /\ Step(a, Connect(s, On)) /\ UNCHANGED wanted
    BY <1>2, <2>1 DEF ReconnectTimerFires
  <2>3. s \in ImAccount /\ Continues(s, acc[a])
    BY <1>1, <2>1 DEF ImAccount, Continues, EndsWell
  <2>. QED BY <2>2, <2>3, ConnectStepPursues
<1>3. CASE StrayTimerFires(a)
  <2>1. PICK s : s = [acc[a] EXCEPT !.stray = FALSE]
    OBVIOUS
  <2>2. running /\ Step(a, Connect(s, On)) /\ UNCHANGED wanted
    BY <1>3, <2>1 DEF StrayTimerFires
  <2>3. s \in ImAccount /\ Continues(s, acc[a])
    BY <1>1, <2>1 DEF ImAccount, Continues, EndsWell
  <2>. QED BY <2>2, <2>3, ConnectStepPursues
<1>4. CASE TimePasses(a)
  <2>1. PICK s : s = [acc[a] EXCEPT !.timer = "soon"]
    OBVIOUS
  <2>2. running /\ Step(a, s) /\ UNCHANGED wanted /\ acc[a].timer = "later"
    BY <1>4, <2>1 DEF TimePasses
  <2>3. SameStanding(s, acc[a]) /\ Continues(s, acc[a])
    BY <1>1, <2>1, <2>2 DEF ImAccount, SameStanding, Continues, EndsWell
  <2>. QED BY <2>2, <2>3, PlainStepPursues
<1>5. CASE QuitTimerFires(a)
  BY <1>5, LosePursues DEF QuitTimerFires
<1>6. CASE PingTimerFires(a)
  BY <1>6, SendPingPursues DEF PingTimerFires
<1>7. CASE DisconnectTimerFires(a)
  BY <1>7, LosePursues DEF DisconnectTimerFires
<1>. QED BY <1>2, <1>3, <1>4, <1>5, <1>6, <1>7 DEF TimerFires

LEMMA ServerPursues ==
  ASSUME Inv, WantedInv, NEW a \in Account, ServerActs(a)
  PROVE  WantedInv'
<1>1. acc[a] \in ImAccount /\ SocketOK(acc[a])
  BY DEF Inv, AccountsOK
<1>2. CASE SocketOpens(a)
  <2>1. PICK s : s = [acc[a] EXCEPT !.socket = "open"]
    OBVIOUS
  <2>2. running /\ Step(a, s) /\ UNCHANGED wanted /\ acc[a].socket = "opening"
    BY <1>2, <2>1 DEF SocketOpens, Alive
  <2>3. SameStanding(s, acc[a]) /\ Continues(s, acc[a])
    BY <1>1, <2>1, <2>2 DEF ImAccount, SameStanding, Continues, EndsWell
  <2>. QED BY <2>2, <2>3, PlainStepPursues
<1>3. CASE Welcome(a)
  <2>1. PICK s : s = Connected(acc[a])
    OBVIOUS
  <2>2. running /\ Step(a, s) /\ UNCHANGED wanted /\ acc[a].socket = "open"
    BY <1>3, <2>1 DEF Welcome, Alive
  <2>3. /\ s.state = "connected" /\ ~s.autoLogin
        /\ s.imError = acc[a].imError /\ s.observer = acc[a].observer
    BY <1>1, <2>1 DEF ImAccount, Connected
  <2>4. acc[a].state # "disconnected"
    BY <1>1, <2>2 DEF SocketOK
  <2>5. wanted[a] = "on" => Pursued(acc[a], On)
    BY <2>2 DEF WantedInv
  <2>6. wanted[a] = "on" => Pursued(s, On)
    BY <2>3, <2>4, <2>5 DEF Pursued, ToBeTried
  <2>. QED BY <2>2, <2>3, <2>6, StepPursues DEF EndsWell
<1>4. CASE LoginFails(a)
  BY <1>4, LosePursues DEF LoginFails, Alive
<1>5. CASE ConnectionEnds(a)
  BY <1>5, LosePursues DEF ConnectionEnds, Alive
<1>6. CASE DataReceived(a)
  <2>1. PICK pong \in BOOLEAN :
          Step(a, [acc[a] EXCEPT !.ping = TRUE, !.pong = @ /\ ~pong])
    BY <1>6 DEF DataReceived
  <2>2. PICK waits : waits = (acc[a].pong /\ ~pong)
    OBVIOUS
  <2>3. PICK s : s = [acc[a] EXCEPT !.ping = TRUE, !.pong = waits]
    OBVIOUS
  <2>4. running /\ Step(a, s) /\ UNCHANGED wanted
    BY <1>6, <2>1, <2>2, <2>3 DEF DataReceived, Alive
  <2>5. SameStanding(s, acc[a]) /\ Continues(s, acc[a])
    BY <1>1, <2>3 DEF ImAccount, SameStanding, Continues, EndsWell
  <2>. QED BY <2>4, <2>5, PlainStepPursues
<1>7. CASE ConnectionDies(a)
  <2>1. PICK s : s = [acc[a] EXCEPT !.alive = FALSE]
    OBVIOUS
  <2>2. running /\ Step(a, s) /\ UNCHANGED wanted
    BY <1>7, <2>1 DEF ConnectionDies, Alive
  <2>3. SameStanding(s, acc[a]) /\ Continues(s, acc[a])
    BY <1>1, <2>1 DEF ImAccount, SameStanding, Continues, EndsWell
  <2>. QED BY <2>2, <2>3, PlainStepPursues
<1>. QED BY <1>2, <1>3, <1>4, <1>5, <1>6, <1>7 DEF ServerActs

(* Changed settings are tried whenever there was an error.                 *)
LEMMA InfoHandledPursues ==
  ASSUME Inv, WantedInv, NEW a \in Account, ConnectionInfoHandled(a)
  PROVE  WantedInv'
<1>1. acc[a] \in ImAccount /\ SocketOK(acc[a])
  BY DEF Inv, AccountsOK
<1>2. PICK r : r = [acc[a] EXCEPT !.infoChanged = FALSE]
  OBVIOUS
<1>3. /\ r \in ImAccount /\ SocketOK(r) /\ Continues(r, acc[a])
      /\ r.state = acc[a].state /\ r.error = acc[a].error
      /\ r.imError = acc[a].imError /\ r.observer = acc[a].observer
      /\ r.timer = acc[a].timer
  <2>1. r \in ImAccount
    BY <1>1, <1>2 DEF ImAccount
  <2>2. /\ r.state = acc[a].state /\ r.error = acc[a].error
        /\ r.imError = acc[a].imError /\ r.observer = acc[a].observer
        /\ r.timer = acc[a].timer /\ r.autoLogin = acc[a].autoLogin
        /\ r.socket = acc[a].socket /\ r.quitTimer = acc[a].quitTimer
    BY <1>1, <1>2 DEF ImAccount
  <2>. QED BY <1>1, <2>1, <2>2 DEF SocketOK, Continues, EndsWell
<1>4. PICK s : s = CASE r.state = "connecting" -> Connect(Disconnect(r), On)
                     [] r.state = "disconnected" /\ ErrorReason(r) \in {"network", "fatal"}
                          -> Connect(r, On)
                     [] OTHER -> r
  OBVIOUS
<1>5. running /\ Step(a, s) /\ UNCHANGED wanted
  BY <1>2, <1>4 DEF ConnectionInfoHandled
<1>6. CASE r.state = "connecting"
  <2>1. PICK d \in ImAccount : d = Disconnect(r) /\ Continues(d, r)
    BY <1>3, DisconnectKeeps, DisconnectContinues
  <2>2. s = Connect(d, On)
    BY <1>4, <1>6, <2>1
  <2>3. Continues(d, acc[a])
    BY <1>3, <2>1 DEF Continues
  <2>. QED BY <1>5, <2>2, <2>3, ConnectStepPursues
<1>7. CASE r.state = "disconnected" /\ ErrorReason(r) \in {"network", "fatal"}
  <2>1. s = Connect(r, On)
    BY <1>4, <1>7
  <2>. QED BY <1>3, <1>5, <2>1, ConnectStepPursues
<1>8. CASE /\ r.state # "connecting"
           /\ ~(r.state = "disconnected" /\ ErrorReason(r) \in {"network", "fatal"})
  <2>1. s = r
    BY <1>4, <1>8
  <2>2. wanted[a] = "on" => Pursued(acc[a], On)
    BY <1>5 DEF WantedInv
  <2>3. r.imError = "none" => ~ToBeTried(acc[a])
    BY <1>3, <1>8 DEF ToBeTried, ErrorReason, ImAccount
  <2>4. wanted[a] = "on" => Pursued(r, On)
    BY <1>3, <2>2, <2>3 DEF Pursued
  <2>. QED BY <1>3, <1>5, <2>1, <2>4, StepPursues DEF Continues
<1>. QED BY <1>6, <1>7, <1>8

LEMMA WakeUpPursues ==
  ASSUME Inv, WantedInv, NEW a \in Account, WakeUp(a)
  PROVE  WantedInv'
BY LosePursues, SendPingPursues DEF WakeUp

LEMMA StatusPursues ==
  ASSUME Inv, WantedInv, NEW now \in [user : BOOLEAN, network : BOOLEAN],
         ChangeStatus(now)
  PROVE  WantedInv'
<1>1. /\ acc \in [Account -> ImAccount] /\ \A a \in Account : SocketOK(acc[a])
      /\ On \in BOOLEAN
  BY OnIsBoolean DEF Inv, AccountsOK
<1>2. PICK on \in BOOLEAN : on = (now.user /\ now.network)
  OBVIOUS
<1>3. /\ wanted' = wanted /\ running' = running /\ autoLoginStatus' = autoLoginStatus
      /\ On' = on
  BY <1>2 DEF ChangeStatus, sessionVars, On
<1>4. CASE running
  <2>1. acc' = [a \in Account |-> ObserveStatus(acc[a], on)]
    BY <1>2, <1>4 DEF ChangeStatus
  <2>2. ASSUME NEW a \in Account
        PROVE  /\ Continues(acc'[a], acc[a])
               /\ Pursued(acc[a], On) => Pursued(acc'[a], on)
    <3>1. acc'[a] = ObserveStatus(acc[a], on)
      BY <2>1
    <3>2. PICK was \in BOOLEAN : was = On
      BY <1>1
    <3>. QED BY <1>1, <3>1, <3>2, ObserveStatusContinues
  <2>3. ASSUME NEW a \in Account PROVE EndsWell(acc[a])'
    BY <2>2 DEF WantedInv, Continues, EndsWell
  <2>4. ASSUME NEW a \in Account, wanted'[a] = "on" PROVE Pursued(acc[a], On)'
    <3>1. Pursued(acc[a], On)
      BY <1>3, <1>4, <2>4 DEF WantedInv
    <3>2. Pursued(acc'[a], on)
      BY <2>2, <3>1
    <3>. QED BY <1>3, <3>2 DEF Pursued, ToBeTried
  <2>5. ASSUME NEW a \in Account, autoLoginStatus' # "enabled" PROVE ~acc'[a].autoLogin
    BY <1>3, <1>4, <2>2, <2>5 DEF WantedInv, Continues
  <2>. QED BY <2>3, <2>4, <2>5 DEF WantedInv
<1>5. CASE ~running
  <2>1. acc' = acc
    BY <1>5 DEF ChangeStatus
  <2>. QED BY <1>3, <1>5, <2>1 DEF WantedInv, EndsWell
<1>. QED BY <1>4, <1>5

LEMMA AutoLoginPursues ==
  ASSUME Inv, WantedInv, UserProcessesAutoLogin
  PROVE  WantedInv'
<1>1. acc \in [Account -> ImAccount] /\ On \in BOOLEAN
  BY OnIsBoolean DEF Inv, AccountsOK
<1>2. /\ acc' = [a \in Account |-> CheckAutoLogin(acc[a], On)]
      /\ wanted' = [a \in Account |-> IF acc'[a].autoLogin THEN "on" ELSE wanted[a]]
      /\ running /\ running' = running /\ autoLoginStatus # "enabled"
      /\ autoLoginStatus' = "enabled" /\ online' = online
  BY DEF UserProcessesAutoLogin, ProcessAutoLogin
<1>3. On' = On
  BY <1>2 DEF On
<1>4. ASSUME NEW a \in Account
      PROVE  /\ EndsWell(acc'[a])
             /\ acc'[a] = acc[a] \/ Pursued(acc'[a], On)
  <2>1. acc'[a] = CheckAutoLogin(acc[a], On) /\ EndsWell(acc[a])
    BY <1>2 DEF WantedInv
  <2>. QED BY <1>1, <2>1, CheckAutoLoginContinues
<1>5. ASSUME NEW a \in Account PROVE EndsWell(acc[a])'
  BY <1>4 DEF EndsWell
<1>6. ASSUME NEW a \in Account, wanted'[a] = "on" PROVE Pursued(acc[a], On)'
  <2>1. Pursued(acc'[a], On)
    <3>1. CASE acc'[a] = acc[a]
      <4>1. wanted[a] = "on"
        BY <1>2, <1>6, <3>1 DEF WantedInv
      <4>. QED BY <1>2, <3>1, <4>1 DEF WantedInv
    <3>. QED BY <1>4, <3>1
  <2>. QED BY <1>3, <2>1 DEF Pursued, ToBeTried
<1>. QED BY <1>2, <1>5, <1>6 DEF WantedInv

LEMMA LoadedIsFresh ==
  ASSUME NEW first \in First
  PROVE  /\ Load(first) \in ImAccount /\ EndsWell(Load(first))
         /\ ~Load(first).autoLogin
<1>1. \A f \in First : /\ Fresh(f) \in ImAccount /\ Fresh(f).state = "disconnected"
                       /\ ~Fresh(f).autoLogin
  BY FreshKeeps DEF Fresh
<1>2. PICK crashed \in ImAccount :
        crashed = Fresh("crashed") /\ crashed.state = "disconnected" /\ ~crashed.autoLogin
  BY <1>1 DEF First
<1>3. PICK failed : failed = [crashed EXCEPT !.imError = "crashed"]
  OBVIOUS
<1>4. failed \in ImAccount /\ failed.state = "disconnected" /\ ~failed.autoLogin
  BY <1>2, <1>3 DEF ImAccount
<1>5. Load(first) \in {failed, Fresh(first)}
  BY <1>2, <1>3 DEF Load
<1>. QED BY <1>1, <1>4, <1>5 DEF EndsWell

LEMMA GoneIsFresh == Gone \in ImAccount /\ EndsWell(Gone) /\ ~Gone.autoLogin
<1>1. Gone \in ImAccount
  BY GoneKeeps
<1>2. Gone.state = "disconnected" /\ ~Gone.autoLogin
  BY DEF Gone, Fresh
<1>. QED BY <1>1, <1>2 DEF EndsWell

LEMMA StartPursues == ASSUME Inv, Start PROVE WantedInv'
<1>1. disk.first \in [Account -> First] /\ online \in [user : BOOLEAN, network : BOOLEAN]
  BY DEF Inv, DiskOK, OthersOK
<1>2. PICK loaded : loaded = [a \in Account |->
                       IF acc[a].exists THEN Load(disk.first[a]) ELSE Gone]
  OBVIOUS
<1>3. PICK network \in BOOLEAN : network = online.network
  BY <1>1
<1>4. online' = [online EXCEPT !.user = TRUE]
  BY DEF Start
<1>5. online'.network = network /\ On' = network
  BY <1>1, <1>3, <1>4 DEF On
<1>6. acc' = IF autoLoginStatus' = "enabled"
               THEN [a \in Account |-> CheckAutoLogin(loaded[a], network)] ELSE loaded
  BY <1>2, <1>5 DEF Start, ProcessAutoLogin
<1>7. wanted' = [a \in Account |-> IF acc'[a].autoLogin THEN "on" ELSE "off"]
  BY DEF Start
<1>8. ASSUME NEW a \in Account
      PROVE  loaded[a] \in ImAccount /\ EndsWell(loaded[a]) /\ ~loaded[a].autoLogin
  <2>1. loaded[a] \in {Load(disk.first[a]), Gone} /\ disk.first[a] \in First
    BY <1>1, <1>2
  <2>. QED BY <2>1, LoadedIsFresh, GoneIsFresh
<1>9. ASSUME NEW a \in Account
      PROVE  /\ EndsWell(acc'[a])
             /\ acc'[a] = loaded[a] \/ Pursued(acc'[a], network)
             /\ autoLoginStatus' # "enabled" => ~acc'[a].autoLogin
  <2>1. acc'[a] = IF autoLoginStatus' = "enabled"
                    THEN CheckAutoLogin(loaded[a], network) ELSE loaded[a]
    BY <1>2, <1>6
  <2>. QED BY <1>8, <2>1, CheckAutoLoginContinues
<1>10. ASSUME NEW a \in Account PROVE EndsWell(acc[a])'
  BY <1>9 DEF EndsWell
<1>11. ASSUME NEW a \in Account, wanted'[a] = "on" PROVE Pursued(acc[a], On)'
  <2>1. acc'[a] # loaded[a]
    BY <1>7, <1>8, <1>11
  <2>2. Pursued(acc'[a], network)
    BY <1>9, <2>1
  <2>. QED BY <1>5, <2>2 DEF Pursued, ToBeTried
<1>. QED BY <1>9, <1>10, <1>11 DEF WantedInv

LEMMA EndPursues == ASSUME Inv, Crash \/ Quit PROVE WantedInv'
<1>1. ~running' /\ acc' = [a \in Account |-> IF acc[a].exists THEN Fresh("ok") ELSE Gone]
  BY DEF Crash, Quit, Ended
<1>2. Fresh("ok").state = "disconnected" /\ Gone.state = "disconnected"
  BY DEF Fresh, Gone
<1>. QED BY <1>1, <1>2 DEF WantedInv, EndsWell

LEMMA NextPursues == Inv /\ WantedInv /\ [Next]_vars => WantedInv'
<1>. SUFFICES ASSUME Inv, WantedInv, [Next]_vars
              PROVE  WantedInv'
  OBVIOUS
<1>1. ASSUME NEW a \in Account,
             \/ TimerFires(a) \/ ServerActs(a) \/ UserActs(a)
             \/ ConnectionInfoHandled(a) \/ WakeUp(a)
      PROVE  WantedInv'
  BY <1>1, TimersPursue, ServerPursues, UserPursues, InfoHandledPursues, WakeUpPursues
<1>2. ASSUME NEW user \in BOOLEAN, NEW network \in BOOLEAN,
             ChangeStatus([user |-> user, network |-> network])
      PROVE  WantedInv'
  <2>1. [user |-> user, network |-> network] \in [user : BOOLEAN, network : BOOLEAN]
    OBVIOUS
  <2>. QED BY <1>2, <2>1, StatusPursues
<1>3. CASE SaveTimerFires \/ UNCHANGED vars
  <2>1. UNCHANGED <<acc, wanted, running, online, autoLoginStatus>>
    BY <1>3 DEF SaveTimerFires, vars, accountVars, sessionVars
  <2>. QED BY <2>1 DEF WantedInv, EndsWell, Pursued, ToBeTried, On
<1>4. CASE Start \/ UserProcessesAutoLogin \/ Crash \/ Quit
  BY <1>4, StartPursues, AutoLoginPursues, EndPursues
<1>. QED BY <1>1, <1>2, <1>3, <1>4 DEF Next

(* No account that is to be connected is forgotten, in any circumstances:
   its observer, its timer or its changed settings connect it.             *)
THEOREM WantedIsNotForgottenAlways == Spec => []WantedIsNotForgotten
<1>1. Init => WantedInv
  <2>. SUFFICES ASSUME Init PROVE WantedInv
    OBVIOUS
  <2>1. ~running /\ \A a \in Account : acc[a] \in {Fresh("ok"), Gone}
    BY DEF Init
  <2>2. Fresh("ok").state = "disconnected" /\ Gone.state = "disconnected"
    BY DEF Fresh, Gone
  <2>. QED BY <2>1, <2>2 DEF WantedInv, EndsWell
<1>2. WantedInv => WantedIsNotForgotten
  BY DEF WantedInv, Pursued, ToBeTried, WantedIsNotForgotten, Existing
<1>. QED BY <1>1, <1>2, NextPursues, InvAlways, PTL DEF Spec

-----------------------------------------------------------------------------
(* What a crash interrupts is remembered.                                  *)

(* The two seconds of a QUIT never end a connection that is being made.    *)
QuitOK(r) == r.quitTimer => r.state # "connecting"

(* What the preferences must hold while the account connects.              *)
FirstTime(r) == r.state = "connecting" /\ r.first = "pending"

(* A change of r to s that begins no first connection unless it begins to
   connect.                                                                *)
Remembers(s, r) ==
  QuitOK(s) /\ (FirstTime(s) /\ r.state = "connecting" => FirstTime(r))

AllIsSaved ==
  /\ \A a \in Account : FirstTime(acc[a]) => disk.first[a] = "pending"
  /\ Memory(acc).auto => disk.auto

EndIsSaved ==
  /\ lastEnd.connecting \subseteq Account
  /\ \A a \in lastEnd.connecting : disk.first[a] = "pending"
  /\ lastEnd.auto => disk.auto
  /\ lastEnd.how = "clean" => ~disk.auto
  /\ \A a \in Account : acc[a].state = "disconnected" /\ ~acc[a].autoLogin

CrashInv ==
  /\ \A a \in Account : QuitOK(acc[a])
  /\ IF running THEN AllIsSaved ELSE EndIsSaved

LEMMA SameRemembers ==
  ASSUME NEW r, NEW s, QuitOK(r), s.state = r.state, s.first = r.first,
         s.quitTimer => r.quitTimer
  PROVE  Remembers(s, r)
BY DEF Remembers, QuitOK, FirstTime

LEMMA NotConnectingRemembers ==
  ASSUME NEW r, NEW s, s.state # "connecting"
  PROVE  Remembers(s, r)
BY DEF Remembers, QuitOK, FirstTime

LEMMA PrplConnectRemembers ==
  ASSUME NEW r \in ImAccount, SocketOK(r), r.state = "disconnected"
  PROVE  ~PrplConnect(r).quitTimer
<1>. DEFINE manual == r.error # "none" /\ r.timer = "later"
            s == IF manual THEN [CancelReconnection(r) EXCEPT !.settled = FALSE] ELSE r
            first == IF s.first = "ok" THEN "ok" ELSE "pending"
<1>1. s \in ImAccount /\ s.quitTimer = r.quitTimer
  <2>1. CASE manual
    BY <2>1, AttemptsFit DEF CancelReconnection, ImAccount
  <2>2. CASE ~manual
    BY <2>2 DEF ImAccount
  <2>. QED BY <2>1, <2>2
<1>2. PrplConnect(r) = [s EXCEPT !.state = "connecting", !.first = first,
                                 !.socket = "opening", !.alive = TRUE]
  BY DEF PrplConnect
<1>. HIDE DEF s, first
<1>3. PrplConnect(r).quitTimer = s.quitTimer
  BY <1>1, <1>2 DEF ImAccount
<1>4. ~r.quitTimer
  BY DEF SocketOK
<1>. QED BY <1>1, <1>3, <1>4

LEMMA ConnectRemembers ==
  ASSUME NEW r \in ImAccount, SocketOK(r), QuitOK(r), NEW on \in BOOLEAN
  PROVE  /\ Remembers(Connect(r, on), r)
         /\ r.state = "disconnecting" => Connect(r, on).state = "disconnecting"
<1>1. PICK s : s = [r EXCEPT !.observer = TRUE]
  OBVIOUS
<1>2. s \in ImAccount
  BY <1>1 DEF ImAccount
<1>3. /\ s.state = r.state /\ s.first = r.first /\ s.quitTimer = r.quitTimer
      /\ s.socket = r.socket
  BY <1>1 DEF ImAccount
<1>4. SocketOK(s)
  BY <1>3 DEF SocketOK
<1>5. CASE on /\ s.state = "disconnected"
  <2>1. Connect(r, on) = PrplConnect(s)
    BY <1>1, <1>5 DEF Connect
  <2>2. ~PrplConnect(s).quitTimer
    BY <1>2, <1>4, <1>5, PrplConnectRemembers
  <2>. QED BY <1>3, <1>5, <2>1, <2>2 DEF Remembers, QuitOK
<1>6. CASE ~(on /\ s.state = "disconnected")
  <2>1. Connect(r, on) = s
    BY <1>1, <1>6 DEF Connect
  <2>. QED BY <1>3, <2>1, SameRemembers
<1>. QED BY <1>5, <1>6

(* What ends without an error ends with the two seconds of a QUIT.         *)
LEMMA DisconnectedRemembers ==
  ASSUME NEW r \in ImAccount, NEW on \in BOOLEAN
  PROVE  /\ ~Disconnected(r, on).quitTimer
         /\ r.error # "none" => Disconnected(r, on).state = "disconnected"
<1>1. PICK s : s = [r EXCEPT !.state = "disconnected", !.quitTimer = FALSE,
                             !.socket = "none", !.alive = FALSE,
                             !.ping = FALSE, !.pong = FALSE, !.strayPong = FALSE]
  OBVIOUS
<1>2. s \in ImAccount
  BY <1>1 DEF ImAccount
<1>3. s.state = "disconnected" /\ ~s.quitTimer /\ s.socket = "none"
  BY <1>1 DEF ImAccount
<1>4. SocketOK(s) /\ QuitOK(s)
  BY <1>3 DEF SocketOK, QuitOK
<1>5. Disconnected(r, on) =
        IF r.observer /\ r.error = "none" /\ on THEN Connect(s, on) ELSE s
  BY <1>1 DEF Disconnected
<1>6. PICK t : t = [s EXCEPT !.observer = TRUE]
  OBVIOUS
<1>7. t \in ImAccount /\ t.state = "disconnected" /\ ~t.quitTimer
  BY <1>2, <1>3, <1>6 DEF ImAccount
<1>8. SocketOK(t)
  <2>1. t.socket = "none"
    BY <1>2, <1>3, <1>6 DEF ImAccount
  <2>. QED BY <1>7, <2>1 DEF SocketOK
<1>9. Connect(s, on) \in {t, PrplConnect(t)}
  BY <1>6 DEF Connect
<1>10. ~Connect(s, on).quitTimer
  BY <1>7, <1>8, <1>9, PrplConnectRemembers
<1>. QED BY <1>3, <1>5, <1>10

LEMMA GotDisconnectedRemembers ==
  ASSUME NEW r \in ImAccount, QuitOK(r), NEW error \in {"none", "network", "fatal"},
         error = "none" => r.quitTimer,
         NEW settled \in BOOLEAN, NEW on \in BOOLEAN
  PROVE  Remembers(GotDisconnected(r, error, settled, on), r)
<1>1. CASE r.state = "disconnected"
  <2>1. GotDisconnected(r, error, settled, on) = r
    BY <1>1 DEF GotDisconnected
  <2>. QED BY <1>1, <2>1 DEF Remembers
<1>2. CASE r.state = "disconnecting"
  <2>1. GotDisconnected(r, error, settled, on) = Disconnected(r, on)
    BY <1>2 DEF GotDisconnected
  <2>2. ~Disconnected(r, on).quitTimer
    BY DisconnectedRemembers
  <2>. QED BY <1>2, <2>1, <2>2 DEF Remembers, QuitOK
<1>3. CASE r.state \notin {"disconnected", "disconnecting"}
  <2>1. PICK s : s = Disconnecting(r, error, settled)
    OBVIOUS
  <2>2. GotDisconnected(r, error, settled, on) = Disconnected(s, on)
    BY <1>3, <2>1 DEF GotDisconnected
  <2>3. s \in ImAccount /\ s.error = error
    <3>1. s \in ImAccount
      BY <2>1, DisconnectingKeeps
    <3>2. s.error = error
      BY <2>1, DisconnectingContinues
    <3>. QED BY <3>1, <3>2
  <2>4. /\ ~Disconnected(s, on).quitTimer
        /\ error # "none" => Disconnected(s, on).state = "disconnected"
    BY <2>3, DisconnectedRemembers
  <2>. QED BY <2>2, <2>4 DEF Remembers, QuitOK, FirstTime
<1>. QED BY <1>1, <1>2, <1>3

LEMMA ObserveStatusRemembers ==
  ASSUME NEW r \in ImAccount, SocketOK(r), QuitOK(r), NEW on \in BOOLEAN
  PROVE  Remembers(ObserveStatus(r, on), r)
<1>1. CASE r.observer /\ ~on
  <2>1. PICK s \in ImAccount : s = PrplDisconnect(r) /\ s.state \in {"disconnected", "disconnecting"}
    BY PrplDisconnectKeeps
  <2>2. ObserveStatus(r, on) = CancelReconnection(s)
    BY <1>1, <2>1 DEF ObserveStatus
  <2>3. CancelReconnection(s).state = s.state
    BY CancelKeeps
  <2>. QED BY <2>1, <2>2, <2>3, NotConnectingRemembers
<1>2. CASE /\ r.observer /\ on
           /\ r.state = "disconnected" /\ ErrorReason(r) \in {"none", "network"}
  <2>1. ObserveStatus(r, on) = PrplConnect(r)
    BY <1>2 DEF ObserveStatus
  <2>2. ~PrplConnect(r).quitTimer
    BY <1>2, PrplConnectRemembers
  <2>. QED BY <1>2, <2>1, <2>2 DEF Remembers, QuitOK
<1>3. CASE /\ ~(r.observer /\ ~on)
           /\ ~(r.observer /\ on /\ r.state = "disconnected"
                  /\ ErrorReason(r) \in {"none", "network"})
  <2>1. ObserveStatus(r, on) = r
    BY <1>3 DEF ObserveStatus
  <2>. QED BY <2>1, SameRemembers
<1>. QED BY <1>1, <1>2, <1>3

LEMMA CheckAutoLoginRemembers ==
  ASSUME NEW r \in ImAccount, SocketOK(r), QuitOK(r), NEW on \in BOOLEAN
  PROVE  Remembers(CheckAutoLogin(r, on), r)
<1>1. PICK s : s = [r EXCEPT !.autoLogin = TRUE]
  OBVIOUS
<1>2. s \in ImAccount
  BY <1>1 DEF ImAccount
<1>3. /\ s.state = r.state /\ s.first = r.first /\ s.quitTimer = r.quitTimer
      /\ s.socket = r.socket
  BY <1>1 DEF ImAccount
<1>4. SocketOK(s) /\ QuitOK(s)
  BY <1>3 DEF SocketOK, QuitOK
<1>5. CheckAutoLogin(r, on) \in {r, Connect(s, on)}
  BY <1>1 DEF CheckAutoLogin
<1>6. Remembers(Connect(s, on), s)
  BY <1>2, <1>4, ConnectRemembers
<1>7. Remembers(Connect(s, on), r)
  BY <1>3, <1>6 DEF Remembers, FirstTime
<1>8. Remembers(r, r)
  BY SameRemembers
<1>. QED BY <1>5, <1>7, <1>8

LEMMA DisconnectRests ==
  ASSUME NEW r \in ImAccount, SocketOK(r)
  PROVE  Disconnect(r).state \in {"disconnected", "disconnecting"}
<1>1. PICK s : s = [r EXCEPT !.observer = FALSE]
  OBVIOUS
<1>2. s \in ImAccount
  BY <1>1 DEF ImAccount
<1>3. s.state = r.state /\ s.socket = r.socket /\ s.quitTimer = r.quitTimer
  BY <1>1 DEF ImAccount
<1>4. SocketOK(s)
  BY <1>3 DEF SocketOK
<1>5. Disconnect(r) = PrplDisconnect(s)
  BY <1>1 DEF Disconnect
<1>. QED BY <1>2, <1>4, <1>5, PrplDisconnectKeeps

LEMMA DisconnectEndsConnecting ==
  ASSUME NEW r \in ImAccount, r.state = "connecting"
  PROVE  Disconnect(r).state = "disconnecting"
<1>1. PICK s : s = [r EXCEPT !.observer = FALSE]
  OBVIOUS
<1>2. s \in ImAccount /\ s.state = "connecting"
  BY <1>1 DEF ImAccount
<1>3. PICK d : d = Disconnecting(s, "none", FALSE)
  OBVIOUS
<1>4. d \in ImAccount /\ d.state = "disconnecting"
  <2>1. /\ Disconnecting(s, "none", FALSE) \in ImAccount
        /\ Disconnecting(s, "none", FALSE).state = "disconnecting"
    BY <1>2, DisconnectingKeeps
  <2>. QED BY <1>3, <2>1
<1>5. Disconnect(r) = [d EXCEPT !.quitTimer = TRUE]
  BY <1>1, <1>2, <1>3 DEF Disconnect, PrplDisconnect
<1>. QED BY <1>4, <1>5 DEF ImAccount

(* Preferences that are saved with what must not be lost hold it.          *)
LEMMA ChangeRemembers ==
  ASSUME Inv, CrashInv, running, running' = running, SavePrefs,
         \A a \in Account : Remembers(acc'[a], acc[a]),
         NEW accounts \in [Account -> ImAccount], accounts = acc'
  PROVE  CrashInv'
<1>1. \A a \in Account : QuitOK(acc'[a])
  BY DEF Remembers
<1>2. PICK memory : memory = Memory(acc')
  OBVIOUS
<1>3. \A a \in Account : memory.first[a] = acc'[a].first
  BY <1>2 DEF Memory
<1>4. ASSUME NEW a \in Account, FirstTime(acc'[a]) PROVE disk'.first[a] = "pending"
  <2>1. CASE SavedNow
    BY <1>2, <1>3, <1>4, <2>1 DEF SavePrefs, FirstTime
  <2>2. CASE ~SavedNow
    <3>1. acc[a].state = "connecting" /\ disk' = disk
      BY <1>4, <2>2 DEF SavedNow, SavePrefs, FirstTime
    <3>. QED BY <1>4, <3>1 DEF CrashInv, AllIsSaved, Remembers
  <2>. QED BY <2>1, <2>2
<1>5. ASSUME Memory(acc').auto PROVE disk'.auto
  <2>1. CASE SavedNow
    BY <1>5, <2>1 DEF SavePrefs
  <2>2. CASE ~SavedNow
    BY <1>5, <2>2 DEF SavedNow, SavePrefs, CrashInv, AllIsSaved
  <2>. QED BY <2>1, <2>2
<1>6. ASSUME NEW a \in Account PROVE QuitOK(acc[a])'
  BY <1>1 DEF QuitOK
<1>7. ASSUME NEW a \in Account, FirstTime(acc[a])' PROVE disk'.first[a] = "pending"
  BY <1>4, <1>7 DEF FirstTime
<1>8. Memory(acc)' = Memory(acc')
  BY DEF Memory
<1>. QED BY <1>5, <1>6, <1>7, <1>8 DEF CrashInv, AllIsSaved

LEMMA StepRemembers ==
  ASSUME Inv, Inv', CrashInv, running, NEW a \in Account, NEW r, Step(a, r),
         Remembers(r, acc[a])
  PROVE  CrashInv'
<1>1. acc \in [Account -> ImAccount] /\ acc' \in [Account -> ImAccount]
  BY DEF Inv, AccountsOK
<1>2. acc' = [acc EXCEPT ![a] = r] /\ SavePrefs /\ running' = running
  BY DEF Step, sessionVars
<1>3. ASSUME NEW b \in Account PROVE Remembers(acc'[b], acc[b])
  <2>1. CASE b = a
    BY <1>1, <1>2, <2>1
  <2>2. CASE b # a
    <3>1. acc'[b] = acc[b] /\ QuitOK(acc[b])
      BY <1>1, <1>2, <2>2 DEF CrashInv
    <3>. QED BY <3>1, SameRemembers
  <2>. QED BY <2>1, <2>2
<1>. QED BY <1>1, <1>2, <1>3, ChangeRemembers

LEMMA LoseRemembers ==
  ASSUME Inv, Inv', CrashInv, running, NEW a \in Account,
         NEW error \in {"none", "network", "fatal"}, Lose(a, error),
         error = "none" => acc[a].quitTimer
  PROVE  CrashInv'
<1>1. PICK settled \in Settled(acc[a]) :
        Step(a, GotDisconnected(acc[a], error, settled, On))
  BY DEF Lose
<1>2. settled \in BOOLEAN /\ acc[a] \in ImAccount /\ QuitOK(acc[a]) /\ On \in BOOLEAN
  BY OnIsBoolean DEF Settled, Inv, AccountsOK, CrashInv
<1>3. Remembers(GotDisconnected(acc[a], error, settled, On), acc[a])
  BY <1>2, GotDisconnectedRemembers
<1>. QED BY <1>1, <1>3, StepRemembers

LEMMA SendPingRemembers ==
  ASSUME Inv, Inv', CrashInv, running, NEW a \in Account, SendPing(a)
  PROVE  CrashInv'
<1>1. PICK lost : lost = (acc[a].strayPong \/ acc[a].pong)
  OBVIOUS
<1>2. PICK s : s = [acc[a] EXCEPT !.ping = FALSE, !.pong = TRUE, !.strayPong = lost]
  OBVIOUS
<1>3. Step(a, s)
  BY <1>1, <1>2 DEF SendPing
<1>4. acc[a] \in ImAccount /\ QuitOK(acc[a])
  BY DEF Inv, AccountsOK, CrashInv
<1>5. s.state = acc[a].state /\ s.first = acc[a].first /\ s.quitTimer = acc[a].quitTimer
  BY <1>2, <1>4 DEF ImAccount
<1>. QED BY <1>3, <1>4, <1>5, SameRemembers, StepRemembers

LEMMA UserRemembers ==
  ASSUME Inv, Inv', CrashInv, NEW a \in Account, UserActs(a)
  PROVE  CrashInv'
<1>1. /\ acc[a] \in ImAccount /\ SocketOK(acc[a]) /\ QuitOK(acc[a])
      /\ On \in BOOLEAN
  BY OnIsBoolean DEF Inv, AccountsOK, CrashInv
<1>2. CASE UserConnects(a)
  <2>1. running /\ Step(a, Connect(acc[a], On))
    BY <1>2 DEF UserConnects
  <2>2. Remembers(Connect(acc[a], On), acc[a])
    BY <1>1, ConnectRemembers
  <2>. QED BY <2>1, <2>2, StepRemembers
<1>3. CASE UserDisconnects(a)
  <2>1. running /\ Step(a, Disconnect(acc[a]))
    BY <1>3 DEF UserDisconnects
  <2>2. Disconnect(acc[a]).state # "connecting"
    BY <1>1, DisconnectRests
  <2>. QED BY <2>1, <2>2, NotConnectingRemembers, StepRemembers
<1>4. CASE UserCancelsReconnection(a)
  <2>1. PICK d : d = Disconnect(acc[a])
    OBVIOUS
  <2>2. PICK s : s = CancelReconnection(d)
    OBVIOUS
  <2>3. running /\ Step(a, s)
    BY <1>4, <2>1, <2>2 DEF UserCancelsReconnection
  <2>4. d \in ImAccount /\ d.state # "connecting"
    BY <1>1, <2>1, DisconnectKeeps, DisconnectRests
  <2>5. s.state = d.state
    BY <2>2, <2>4, CancelKeeps
  <2>. QED BY <2>3, <2>4, <2>5, NotConnectingRemembers, StepRemembers
<1>5. CASE ConnectionInfoChanged(a)
  <2>1. PICK changed :
          acc' = [acc EXCEPT ![a].first = "unknown", ![a].infoChanged = changed]
    BY <1>5 DEF ConnectionInfoChanged
  <2>2. PICK s : s = [acc[a] EXCEPT !.first = "unknown", !.infoChanged = changed]
    OBVIOUS
  <2>3. acc' = [acc EXCEPT ![a] = s] /\ acc \in [Account -> ImAccount]
    BY <2>1, <2>2 DEF Inv, AccountsOK
  <2>4. /\ s.state = acc[a].state /\ s.quitTimer = acc[a].quitTimer
        /\ s.autoLogin = acc[a].autoLogin /\ s.first = "unknown"
    BY <1>1, <2>2 DEF ImAccount
  <2>5. running /\ running' = running /\ disk' = disk
    BY <1>5 DEF ConnectionInfoChanged, sessionVars
  <2>6. ASSUME NEW b \in Account
        PROVE  /\ QuitOK(acc'[b]) /\ acc'[b].autoLogin = acc[b].autoLogin
               /\ FirstTime(acc'[b]) => FirstTime(acc[b])
    <3>1. CASE b = a
      <4>1. acc'[b] = s
        BY <2>3, <3>1
      <4>. QED BY <1>1, <2>4, <3>1, <4>1 DEF QuitOK, FirstTime
    <3>2. CASE b # a
      <4>1. acc'[b] = acc[b]
        BY <2>3, <3>2
      <4>. QED BY <4>1 DEF CrashInv
    <3>. QED BY <3>1, <3>2
  <2>7. ASSUME NEW b \in Account PROVE QuitOK(acc[b])'
    BY <2>6 DEF QuitOK
  <2>8. ASSUME NEW b \in Account, FirstTime(acc[b])' PROVE disk'.first[b] = "pending"
    <3>1. FirstTime(acc'[b])
      BY <2>8 DEF FirstTime
    <3>. QED BY <2>5, <2>6, <3>1 DEF CrashInv, AllIsSaved
  <2>9. Memory(acc)'.auto => disk'.auto
    <3>1. Memory(acc)'.auto => Memory(acc).auto
      BY <2>6 DEF Memory
    <3>. QED BY <2>5, <3>1 DEF CrashInv, AllIsSaved
  <2>. QED BY <2>5, <2>7, <2>8, <2>9 DEF CrashInv, AllIsSaved
<1>6. CASE DeleteAccount(a)
  <2>1. running /\ Step(a, Gone)
    BY <1>6 DEF DeleteAccount
  <2>2. Gone.state = "disconnected"
    BY DEF Gone, Fresh
  <2>. QED BY <2>1, <2>2, NotConnectingRemembers, StepRemembers
<1>. QED BY <1>2, <1>3, <1>4, <1>5, <1>6 DEF UserActs

LEMMA TimersRemember ==
  ASSUME Inv, Inv', CrashInv, NEW a \in Account, TimerFires(a)
  PROVE  CrashInv'
<1>1. /\ acc[a] \in ImAccount /\ SocketOK(acc[a]) /\ QuitOK(acc[a])
      /\ On \in BOOLEAN
  BY OnIsBoolean DEF Inv, AccountsOK, CrashInv
<1>2. ASSUME NEW s \in ImAccount, s.state = acc[a].state, s.first = acc[a].first,
             s.quitTimer = acc[a].quitTimer, s.socket = acc[a].socket,
             running, Step(a, Connect(s, On))
      PROVE  CrashInv'
  <2>1. SocketOK(s) /\ QuitOK(s)
    BY <1>1, <1>2 DEF SocketOK, QuitOK
  <2>2. Remembers(Connect(s, On), s)
    BY <1>1, <2>1, ConnectRemembers
  <2>3. Remembers(Connect(s, On), acc[a])
    BY <1>2, <2>2 DEF Remembers, FirstTime
  <2>. QED BY <1>2, <2>3, StepRemembers
<1>3. CASE ReconnectTimerFires(a)
  <2>1. PICK s : s = [acc[a] EXCEPT !.timer = "none"]
    OBVIOUS
  <2>2. running /\ Step(a, Connect(s, On))
    BY <1>3, <2>1 DEF ReconnectTimerFires
  <2>3. /\ s \in ImAccount /\ s.state = acc[a].state /\ s.first = acc[a].first
        /\ s.quitTimer = acc[a].quitTimer /\ s.socket = acc[a].socket
    BY <1>1, <2>1 DEF ImAccount
  <2>. QED BY <1>2, <2>2, <2>3
<1>4. CASE StrayTimerFires(a)
  <2>1. PICK s : s = [acc[a] EXCEPT !.stray = FALSE]
    OBVIOUS
  <2>2. running /\ Step(a, Connect(s, On))
    BY <1>4, <2>1 DEF StrayTimerFires
  <2>3. /\ s \in ImAccount /\ s.state = acc[a].state /\ s.first = acc[a].first
        /\ s.quitTimer = acc[a].quitTimer /\ s.socket = acc[a].socket
    BY <1>1, <2>1 DEF ImAccount
  <2>. QED BY <1>2, <2>2, <2>3
<1>5. CASE TimePasses(a)
  <2>1. PICK s : s = [acc[a] EXCEPT !.timer = "soon"]
    OBVIOUS
  <2>2. running /\ Step(a, s)
    BY <1>5, <2>1 DEF TimePasses
  <2>3. s.state = acc[a].state /\ s.first = acc[a].first /\ s.quitTimer = acc[a].quitTimer
    BY <1>1, <2>1 DEF ImAccount
  <2>. QED BY <1>1, <2>2, <2>3, SameRemembers, StepRemembers
<1>6. CASE QuitTimerFires(a)
  BY <1>6, LoseRemembers DEF QuitTimerFires
<1>7. CASE PingTimerFires(a)
  BY <1>7, SendPingRemembers DEF PingTimerFires
<1>8. CASE DisconnectTimerFires(a)
  BY <1>8, LoseRemembers DEF DisconnectTimerFires
<1>. QED BY <1>3, <1>4, <1>5, <1>6, <1>7, <1>8 DEF TimerFires

LEMMA ServerRemembers ==
  ASSUME Inv, Inv', CrashInv, NEW a \in Account, ServerActs(a)
  PROVE  CrashInv'
<1>1. acc[a] \in ImAccount /\ QuitOK(acc[a])
  BY DEF Inv, AccountsOK, CrashInv
<1>2. ASSUME NEW s, s.state = acc[a].state, s.first = acc[a].first,
             s.quitTimer = acc[a].quitTimer, running, Step(a, s)
      PROVE  CrashInv'
  BY <1>1, <1>2, SameRemembers, StepRemembers
<1>3. CASE SocketOpens(a)
  <2>1. PICK s : s = [acc[a] EXCEPT !.socket = "open"]
    OBVIOUS
  <2>2. running /\ Step(a, s)
    BY <1>3, <2>1 DEF SocketOpens, Alive
  <2>3. s.state = acc[a].state /\ s.first = acc[a].first /\ s.quitTimer = acc[a].quitTimer
    BY <1>1, <2>1 DEF ImAccount
  <2>. QED BY <1>2, <2>2, <2>3
<1>4. CASE Welcome(a)
  <2>1. running /\ Step(a, Connected(acc[a]))
    BY <1>4 DEF Welcome, Alive
  <2>2. Connected(acc[a]).state = "connected"
    BY <1>1 DEF Connected, ImAccount
  <2>. QED BY <2>1, <2>2, NotConnectingRemembers, StepRemembers
<1>5. CASE LoginFails(a)
  BY <1>5, LoseRemembers DEF LoginFails, Alive
<1>6. CASE ConnectionEnds(a)
  BY <1>6, LoseRemembers DEF ConnectionEnds, Alive
<1>7. CASE DataReceived(a)
  <2>1. PICK pong \in BOOLEAN :
          Step(a, [acc[a] EXCEPT !.ping = TRUE, !.pong = @ /\ ~pong])
    BY <1>7 DEF DataReceived
  <2>2. PICK waits : waits = (acc[a].pong /\ ~pong)
    OBVIOUS
  <2>3. PICK s : s = [acc[a] EXCEPT !.ping = TRUE, !.pong = waits]
    OBVIOUS
  <2>4. running /\ Step(a, s)
    BY <1>7, <2>1, <2>2, <2>3 DEF DataReceived, Alive
  <2>5. s.state = acc[a].state /\ s.first = acc[a].first /\ s.quitTimer = acc[a].quitTimer
    BY <1>1, <2>3 DEF ImAccount
  <2>. QED BY <1>2, <2>4, <2>5
<1>8. CASE ConnectionDies(a)
  <2>1. PICK s : s = [acc[a] EXCEPT !.alive = FALSE]
    OBVIOUS
  <2>2. running /\ Step(a, s)
    BY <1>8, <2>1 DEF ConnectionDies, Alive
  <2>3. s.state = acc[a].state /\ s.first = acc[a].first /\ s.quitTimer = acc[a].quitTimer
    BY <1>1, <2>1 DEF ImAccount
  <2>. QED BY <1>2, <2>2, <2>3
<1>. QED BY <1>3, <1>4, <1>5, <1>6, <1>7, <1>8 DEF ServerActs

LEMMA InfoHandledRemembers ==
  ASSUME Inv, Inv', CrashInv, NEW a \in Account, ConnectionInfoHandled(a)
  PROVE  CrashInv'
<1>1. /\ acc[a] \in ImAccount /\ SocketOK(acc[a]) /\ QuitOK(acc[a])
      /\ On \in BOOLEAN
  BY OnIsBoolean DEF Inv, AccountsOK, CrashInv
<1>2. PICK r : r = [acc[a] EXCEPT !.infoChanged = FALSE]
  OBVIOUS
<1>3. r \in ImAccount
  BY <1>1, <1>2 DEF ImAccount
<1>4. /\ r.state = acc[a].state /\ r.first = acc[a].first
      /\ r.quitTimer = acc[a].quitTimer /\ r.socket = acc[a].socket
  BY <1>1, <1>2 DEF ImAccount
<1>5. SocketOK(r) /\ QuitOK(r)
  BY <1>1, <1>4 DEF SocketOK, QuitOK
<1>6. PICK s : s = CASE r.state = "connecting" -> Connect(Disconnect(r), On)
                     [] r.state = "disconnected" /\ ErrorReason(r) \in {"network", "fatal"}
                          -> Connect(r, On)
                     [] OTHER -> r
  OBVIOUS
<1>7. running /\ Step(a, s)
  BY <1>2, <1>6 DEF ConnectionInfoHandled
<1>8. Remembers(s, r)
  <2>1. CASE r.state = "connecting"
    <3>1. PICK d : d = Disconnect(r)
      OBVIOUS
    <3>2. d \in ImAccount /\ SocketOK(d) /\ d.state = "disconnecting"
      BY <1>3, <1>5, <2>1, <3>1, DisconnectKeeps, DisconnectEndsConnecting
    <3>3. QuitOK(d)
      BY <3>2 DEF QuitOK
    <3>4. Connect(d, On).state = "disconnecting"
      BY <1>1, <3>2, <3>3, ConnectRemembers
    <3>5. s = Connect(d, On)
      BY <1>6, <2>1, <3>1
    <3>. QED BY <3>4, <3>5, NotConnectingRemembers
  <2>2. CASE r.state = "disconnected" /\ ErrorReason(r) \in {"network", "fatal"}
    <3>1. s = Connect(r, On)
      BY <1>6, <2>2
    <3>2. Remembers(Connect(r, On), r)
      BY <1>1, <1>3, <1>5, ConnectRemembers
    <3>. QED BY <3>1, <3>2
  <2>3. CASE /\ r.state # "connecting"
             /\ ~(r.state = "disconnected" /\ ErrorReason(r) \in {"network", "fatal"})
    <3>1. s = r
      BY <1>6, <2>3
    <3>. QED BY <1>5, <3>1, SameRemembers
  <2>. QED BY <2>1, <2>2, <2>3
<1>9. Remembers(s, acc[a])
  BY <1>4, <1>8 DEF Remembers, FirstTime
<1>. QED BY <1>7, <1>9, StepRemembers

LEMMA WakeUpRemembers ==
  ASSUME Inv, Inv', CrashInv, NEW a \in Account, WakeUp(a)
  PROVE  CrashInv'
BY LoseRemembers, SendPingRemembers DEF WakeUp

LEMMA StatusRemembers ==
  ASSUME Inv, Inv', CrashInv, NEW now \in [user : BOOLEAN, network : BOOLEAN],
         ChangeStatus(now)
  PROVE  CrashInv'
<1>1. PICK on \in BOOLEAN : on = (now.user /\ now.network)
  OBVIOUS
<1>2. running' = running /\ lastEnd' = lastEnd
  BY DEF ChangeStatus, sessionVars
<1>3. CASE running
  <2>1. acc' = [a \in Account |-> ObserveStatus(acc[a], on)] /\ SavePrefs
    BY <1>1, <1>3 DEF ChangeStatus
  <2>2. ASSUME NEW a \in Account PROVE Remembers(acc'[a], acc[a])
    <3>1. acc[a] \in ImAccount /\ SocketOK(acc[a]) /\ QuitOK(acc[a])
      BY DEF Inv, AccountsOK, CrashInv
    <3>2. acc'[a] = ObserveStatus(acc[a], on)
      BY <2>1
    <3>. QED BY <3>1, <3>2, ObserveStatusRemembers
  <2>3. acc' \in [Account -> ImAccount]
    BY DEF Inv, AccountsOK
  <2>. QED BY <1>2, <1>3, <2>1, <2>2, <2>3, ChangeRemembers
<1>4. CASE ~running
  <2>1. acc' = acc /\ disk' = disk
    BY <1>4 DEF ChangeStatus, diskVars
  <2>. QED BY <1>2, <1>4, <2>1 DEF CrashInv, EndIsSaved, QuitOK
<1>. QED BY <1>3, <1>4

LEMMA AutoLoginRemembers ==
  ASSUME Inv, Inv', CrashInv, UserProcessesAutoLogin
  PROVE  CrashInv'
<1>1. acc' \in [Account -> ImAccount] /\ On \in BOOLEAN
  BY OnIsBoolean DEF Inv, AccountsOK
<1>2. /\ acc' = [a \in Account |-> CheckAutoLogin(acc[a], On)]
      /\ running /\ running' = running /\ SavePrefs
  BY DEF UserProcessesAutoLogin, ProcessAutoLogin
<1>3. ASSUME NEW a \in Account PROVE Remembers(acc'[a], acc[a])
  <2>1. acc[a] \in ImAccount /\ SocketOK(acc[a]) /\ QuitOK(acc[a])
    BY DEF Inv, AccountsOK, CrashInv
  <2>2. acc'[a] = CheckAutoLogin(acc[a], On)
    BY <1>2
  <2>. QED BY <1>1, <2>1, <2>2, CheckAutoLoginRemembers
<1>. QED BY <1>1, <1>2, <1>3, ChangeRemembers

(* A first connection that was being made is not made again on its own.    *)
LEMMA LoadRemembers ==
  ASSUME NEW first \in First
  PROVE  /\ Load(first) \in ImAccount /\ SocketOK(Load(first))
         /\ Load(first).state = "disconnected" /\ ~Load(first).quitTimer
         /\ first = "pending" => Load(first).imError = "crashed"
<1>1. \A f \in First : /\ Fresh(f) \in ImAccount /\ Fresh(f).state = "disconnected"
                       /\ ~Fresh(f).quitTimer /\ Fresh(f).socket = "none"
  BY FreshKeeps DEF Fresh
<1>2. PICK crashed : crashed = Fresh("crashed")
  OBVIOUS
<1>3. /\ crashed \in ImAccount /\ crashed.state = "disconnected"
      /\ ~crashed.quitTimer /\ crashed.socket = "none"
  BY <1>1, <1>2 DEF First
<1>4. PICK failed : failed = [crashed EXCEPT !.imError = "crashed"]
  OBVIOUS
<1>5. failed \in ImAccount
  BY <1>3, <1>4 DEF ImAccount
<1>6. /\ failed.state = "disconnected" /\ ~failed.quitTimer
      /\ failed.socket = "none" /\ failed.imError = "crashed"
  BY <1>3, <1>4 DEF ImAccount
<1>7. Load(first) = IF first \in {"pending", "crashed"} THEN failed ELSE Fresh(first)
  BY <1>2, <1>4 DEF Load
<1>8. ASSUME NEW r, r.state = "disconnected", ~r.quitTimer, r.socket = "none"
      PROVE  SocketOK(r)
  BY <1>8 DEF SocketOK
<1>9. SocketOK(failed) /\ SocketOK(Fresh(first))
  BY <1>1, <1>6, <1>8
<1>. QED BY <1>1, <1>5, <1>6, <1>7, <1>9

LEMMA GoneRemembers ==
  /\ Gone \in ImAccount /\ SocketOK(Gone) /\ ~Gone.exists
  /\ Gone.state = "disconnected" /\ ~Gone.quitTimer
<1>1. Gone.state = "disconnected" /\ ~Gone.quitTimer /\ ~Gone.exists
  BY DEF Gone, Fresh
<1>. QED BY <1>1, GoneKeeps

(* What Start makes of the accounts and of what the last session left.     *)
LEMMA StartRemembers ==
  ASSUME Inv, Inv', CrashInv, Start
  PROVE  /\ CrashInv'
         /\ \A a \in lastEnd.connecting : acc'[a].state = "disconnected"
         /\ lastEnd.how = "clean" => autoLoginStatus' = "enabled"
         /\ lastEnd.auto /\ Without({"noReport"}) => autoLoginStatus' = "crash"
<1>1. ~running /\ running' /\ disk.first \in [Account -> First]
  BY DEF Start, Inv, DiskOK
<1>2. EndIsSaved
  BY <1>1 DEF CrashInv
<1>3. PICK loaded : loaded = [a \in Account |->
                       IF acc[a].exists THEN Load(disk.first[a]) ELSE Gone]
  OBVIOUS
<1>4. PICK network \in BOOLEAN : network = online.network /\ online'.network = network
  BY DEF Start, Inv, OthersOK
<1>5. acc' = IF autoLoginStatus' = "enabled"
               THEN [a \in Account |-> CheckAutoLogin(loaded[a], network)] ELSE loaded
  BY <1>3, <1>4 DEF Start, ProcessAutoLogin
<1>6. ASSUME NEW a \in Account
      PROVE  /\ QuitOK(acc'[a])
             /\ disk.first[a] = "pending" => acc'[a].state = "disconnected"
  <2>1. disk.first[a] \in First
    BY <1>1
  <2>2. /\ loaded[a] \in ImAccount /\ SocketOK(loaded[a])
        /\ loaded[a].state = "disconnected" /\ ~loaded[a].quitTimer
        /\ disk.first[a] = "pending" =>
             ~loaded[a].exists \/ loaded[a].imError = "crashed"
    <3>1. CASE acc[a].exists
      <4>1. loaded[a] = Load(disk.first[a])
        BY <1>3, <3>1
      <4>. QED BY <2>1, <4>1, LoadRemembers
    <3>2. CASE ~acc[a].exists
      <4>1. loaded[a] = Gone
        BY <1>3, <3>2
      <4>. QED BY <4>1, GoneRemembers
    <3>. QED BY <3>1, <3>2
  <2>3. acc'[a] = IF autoLoginStatus' = "enabled"
                    THEN CheckAutoLogin(loaded[a], network) ELSE loaded[a]
    BY <1>3, <1>5
  <2>4. QuitOK(loaded[a])
    BY <2>2 DEF QuitOK
  <2>5. Remembers(CheckAutoLogin(loaded[a], network), loaded[a])
    BY <1>4, <2>2, <2>4, CheckAutoLoginRemembers
  <2>6. disk.first[a] = "pending" => CheckAutoLogin(loaded[a], network) = loaded[a]
    BY <2>2 DEF CheckAutoLogin
  <2>. QED BY <2>2, <2>3, <2>4, <2>5, <2>6 DEF Remembers
<1>7. disk' = IF SavedNow THEN Memory(acc') ELSE disk
  BY DEF Start
<1>8. PICK memory : memory = Memory(acc')
  OBVIOUS
<1>9. ASSUME NEW a \in Account, FirstTime(acc'[a]) PROVE disk'.first[a] = "pending"
  <2>1. SavedNow
    BY <1>2, <1>9 DEF SavedNow, EndIsSaved, FirstTime
  <2>2. disk' = memory /\ memory.first[a] = acc'[a].first
    BY <1>7, <1>8, <2>1 DEF Memory
  <2>. QED BY <1>9, <2>2 DEF FirstTime
<1>10. ASSUME Memory(acc').auto PROVE disk'.auto
  <2>1. ~Memory(acc).auto
    BY <1>2 DEF EndIsSaved, Memory
  <2>2. SavedNow
    BY <1>10, <2>1 DEF SavedNow
  <2>. QED BY <1>7, <1>10, <2>2
<1>11. ASSUME NEW a \in Account PROVE QuitOK(acc[a])'
  BY <1>6 DEF QuitOK
<1>12. ASSUME NEW a \in Account, FirstTime(acc[a])' PROVE disk'.first[a] = "pending"
  BY <1>9, <1>12 DEF FirstTime
<1>13. Memory(acc)' = Memory(acc')
  BY DEF Memory
<1>14. CrashInv'
  BY <1>1, <1>10, <1>11, <1>12, <1>13 DEF CrashInv, AllIsSaved
<1>15. \A a \in lastEnd.connecting : acc'[a].state = "disconnected"
  BY <1>2, <1>6 DEF EndIsSaved
<1>16. /\ ~disk.auto => autoLoginStatus' = "enabled"
       /\ disk.auto /\ Without({"noReport"}) => autoLoginStatus' = "crash"
  BY DEF Start, Without
<1>. QED BY <1>2, <1>14, <1>15, <1>16 DEF EndIsSaved

LEMMA EndRemembers ==
  ASSUME Inv, CrashInv, Crash \/ Quit
  PROVE  CrashInv'
<1>1. /\ running /\ ~running'
      /\ acc' = [a \in Account |-> IF acc[a].exists THEN Fresh("ok") ELSE Gone]
  BY DEF Crash, Quit, Ended
<1>2. ASSUME NEW a \in Account
      PROVE  acc'[a].state = "disconnected" /\ ~acc'[a].autoLogin
  <2>1. acc'[a] \in {Fresh("ok"), Gone}
    BY <1>1
  <2>. QED BY <2>1 DEF Fresh, Gone
<1>3. ASSUME NEW a \in Account PROVE QuitOK(acc[a])'
  BY <1>2 DEF QuitOK
<1>4. AllIsSaved
  BY <1>1 DEF CrashInv
<1>5. CASE Crash
  <2>1. /\ disk' = disk
        /\ lastEnd' = [ how |-> "crash", auto |-> Memory(acc).auto,
                        connecting |-> {a \in Account : FirstTime(acc[a])} ]
    BY <1>5 DEF Crash, FirstTime
  <2>2. /\ lastEnd'.how = "crash" /\ (lastEnd'.auto => Memory(acc).auto)
        /\ lastEnd'.connecting = {a \in Account : FirstTime(acc[a])}
    BY <2>1
  <2>3. EndIsSaved'
    BY <1>2, <1>4, <2>1, <2>2 DEF AllIsSaved, EndIsSaved
  <2>. QED BY <1>1, <1>3, <2>3 DEF CrashInv
<1>6. CASE Quit
  <2>1. /\ ~disk'.auto /\ lastEnd'.how = "clean" /\ ~lastEnd'.auto
        /\ lastEnd'.connecting = {}
    BY <1>6 DEF Quit, Clean
  <2>2. EndIsSaved'
    BY <1>2, <2>1 DEF EndIsSaved
  <2>. QED BY <1>1, <1>3, <2>2 DEF CrashInv
<1>. QED BY <1>5, <1>6

LEMMA InitRemembers == Init => CrashInv
<1>. SUFFICES ASSUME Init PROVE CrashInv
  OBVIOUS
<1>1. PICK case \in Cases :
        acc = [a \in Account |-> IF a \in case.accounts THEN Fresh("ok") ELSE Gone]
  BY DEF Init
<1>2. ASSUME NEW a \in Account
      PROVE  acc[a].state = "disconnected" /\ ~acc[a].autoLogin
  <2>1. acc[a] \in {Fresh("ok"), Gone}
    BY <1>1
  <2>. QED BY <2>1 DEF Fresh, Gone
<1>3. /\ ~running /\ ~disk.auto /\ lastEnd.connecting = {} /\ ~lastEnd.auto
  BY DEF Init, Clean
<1>. QED BY <1>2, <1>3 DEF CrashInv, EndIsSaved, QuitOK

LEMMA NextRemembers == Inv /\ Inv' /\ CrashInv /\ [Next]_vars => CrashInv'
<1>. SUFFICES ASSUME Inv, Inv', CrashInv, [Next]_vars
              PROVE  CrashInv'
  OBVIOUS
<1>1. ASSUME NEW a \in Account,
             \/ TimerFires(a) \/ ServerActs(a) \/ UserActs(a)
             \/ ConnectionInfoHandled(a) \/ WakeUp(a)
      PROVE  CrashInv'
  BY <1>1, TimersRemember, ServerRemembers, UserRemembers, InfoHandledRemembers,
     WakeUpRemembers
<1>2. ASSUME NEW user \in BOOLEAN, NEW network \in BOOLEAN,
             ChangeStatus([user |-> user, network |-> network])
      PROVE  CrashInv'
  <2>1. [user |-> user, network |-> network] \in [user : BOOLEAN, network : BOOLEAN]
    OBVIOUS
  <2>. QED BY <1>2, <2>1, StatusRemembers
<1>3. CASE SaveTimerFires
  <2>1. /\ running /\ running' = running /\ acc' = acc /\ disk' = Memory(acc)
    BY <1>3 DEF SaveTimerFires, accountVars, sessionVars
  <2>2. PICK memory : memory = Memory(acc)
    OBVIOUS
  <2>3. \A a \in Account : memory.first[a] = acc[a].first
    BY <2>2 DEF Memory
  <2>4. Memory(acc)' = Memory(acc)
    BY <2>1 DEF Memory
  <2>. QED BY <2>1, <2>2, <2>3, <2>4 DEF CrashInv, AllIsSaved, QuitOK, FirstTime
<1>4. CASE UNCHANGED vars
  <2>1. UNCHANGED <<acc, running, disk, lastEnd>>
    BY <1>4 DEF vars, accountVars, diskVars, sessionVars
  <2>2. Memory(acc)' = Memory(acc)
    BY <2>1 DEF Memory
  <2>. QED BY <2>1, <2>2
       DEF CrashInv, AllIsSaved, EndIsSaved, QuitOK, FirstTime
<1>5. CASE Start \/ UserProcessesAutoLogin \/ Crash \/ Quit
  BY <1>5, StartRemembers, AutoLoginRemembers, EndRemembers
<1>. QED BY <1>1, <1>2, <1>3, <1>4, <1>5 DEF Next

(* Only Start begins a session.                                            *)
LEMMA OnlyStartRuns ==
  ASSUME [Next]_vars, ~running, running'
  PROVE  Start
<1>1. ASSUME NEW user \in BOOLEAN, NEW network \in BOOLEAN,
             ChangeStatus([user |-> user, network |-> network])
      PROVE  FALSE
  BY <1>1 DEF ChangeStatus, sessionVars
<1>2. ASSUME NEW a \in Account PROVE ~(TimerFires(a) \/ WakeUp(a))
  BY DEF TimerFires, ReconnectTimerFires, StrayTimerFires, TimePasses,
         QuitTimerFires, PingTimerFires, DisconnectTimerFires, WakeUp
<1>3. ASSUME NEW a \in Account PROVE ~ServerActs(a)
  BY DEF ServerActs, SocketOpens, Welcome, LoginFails, ConnectionEnds,
         DataReceived, ConnectionDies, Alive
<1>4. ASSUME NEW a \in Account PROVE ~(UserActs(a) \/ ConnectionInfoHandled(a))
  BY DEF UserActs, UserConnects, UserDisconnects, UserCancelsReconnection,
         ConnectionInfoChanged, DeleteAccount, ConnectionInfoHandled
<1>5. ~(SaveTimerFires \/ UserProcessesAutoLogin \/ Crash \/ Quit)
  BY DEF SaveTimerFires, UserProcessesAutoLogin, Crash, Quit
<1>6. ~UNCHANGED vars
  BY DEF vars, sessionVars
<1>. QED BY <1>1, <1>2, <1>3, <1>4, <1>5, <1>6 DEF Next

(* Whatever accounts there are, what the crash interrupted is known on the
   next start: a first connection is in the saved preferences as long as it
   is being made, and so is the automatic login, and a session that the
   user ends leaves neither (the setter of firstConnectionState,
   AutoLoginCounter and processAutoLogin, imAccounts.js).                  *)
THEOREM CrashIsRememberedAlways == Spec => CrashIsRemembered
<1>1. Inv /\ Inv' /\ CrashInv /\ [Next]_vars =>
        [(~running /\ running') =>
           /\ \A a \in lastEnd.connecting : acc'[a].state = "disconnected"
           /\ lastEnd.how = "clean" => autoLoginStatus' = "enabled"
           /\ lastEnd.auto /\ Without({"noReport"}) => autoLoginStatus' = "crash"]_vars
  BY OnlyStartRuns, StartRemembers
<1>. QED
  BY <1>1, InitRemembers, NextRemembers, InvAlways, PTL DEF Spec, CrashIsRemembered
=============================================================================
