----------------------- MODULE PushNotificationService -----------------------
(***************************************************************************)
(* The application's side of pushes (PushNotificationService.m): when it   *)
(* listens to PushKit, and what it does with a VoIP push.  PushKit is      *)
(* listened to in the background only, through the delegate of the push    *)
(* registry; the delegate is set when the session's store is ready, for    *)
(* which an observer of the session state may have to wait.                *)
(*                                                                         *)
(* A VoIP push that is handled without reporting a call gets the           *)
(* application killed by iOS 13, so the event has to be in the store when  *)
(* the push arrives.  The extension that puts it there is another process. *)
(***************************************************************************)
EXTENDS PushNotificationStore

CONSTANT ObserverBound \* bound on the observers waiting (model only)

ASSUME ObserverAssumption == ObserverBound \in Nat \ {0}

VARIABLES
  app,              \* the UIApplication state
  account,          \* there is an active account
  loggingOut,       \* its logout is in flight
  session,          \* its session: "ready" from MXSessionStateStoreDataReady on
  registering,      \* a registration for remote notifications is in flight
  isPushRegistered,
  shouldReceiveVoIPPushes,
  delegate,         \* the push registry has a delegate
  observers,        \* how many observers of the session state there are, and
                    \* whether matrixSessionStateObserver is one of them
  handling,         \* the VoIP push being handled, and the invite found
  invited,          \* the events handed over by the extension
  stale,            \* history: those handed over before the last logout
  rings,            \* how often the call of each event was reported
  missed            \* history: the pushes whose event was not in the store

appVars == <<app, account, loggingOut, session>>
pushKitVars == <<shouldReceiveVoIPPushes, delegate, observers>>
registrationVars == <<registering, isPushRegistered>>
callVars == <<handling, invited, stale, rings, missed>>
serviceVars == <<appVars, pushKitVars, registrationVars, callVars>>

AppStates == {"killed", "inactive", "active", "background"}
NotHandling == [event |-> NoEvent, invite |-> NoEvent]
NoObservers == [count |-> 0, latest |-> FALSE]

ServiceTypeOK ==
  /\ StoreTypeOK
  /\ app \in AppStates
  /\ account \in BOOLEAN /\ loggingOut \in BOOLEAN
  /\ session \in {"none", "loading", "ready"}
  /\ registering \in BOOLEAN /\ isPushRegistered \in BOOLEAN
  /\ shouldReceiveVoIPPushes \in BOOLEAN /\ delegate \in BOOLEAN
  /\ observers \in [count : 0..ObserverBound, latest : BOOLEAN]
  /\ handling \in [event : Events, invite : Events \cup {NoEvent}]
                    \cup {NotHandling}
  /\ invited \subseteq Events /\ stale \subseteq invited
  /\ rings \in [Events -> Nat]
  /\ missed \subseteq Events

ServiceInit ==
  /\ app = "killed"
  /\ account = FALSE /\ loggingOut = FALSE /\ session = "none"
  /\ registering = FALSE /\ isPushRegistered = FALSE
  /\ shouldReceiveVoIPPushes = FALSE /\ delegate = FALSE
  /\ observers = NoObservers
  /\ handling = NotHandling
  /\ invited = {} /\ stale = {} /\ missed = {}
  /\ rings = [e \in Events |-> 0]
  /\ pushKitToken = FALSE /\ lastCallInvite = NoEvent /\ gateway = {}

(***************************************************************************)
(* Listening to PushKit.                                                   *)
(***************************************************************************)
Least(a, b) == IF a < b THEN a ELSE b

\* The observer held before is forgotten, not removed.
WithObserver(o) ==
  [count |-> Least(o.count + 1, ObserverBound), latest |-> TRUE]

\* Mutant of SetShouldReceiveVoIPPushes: nothing waits for the session.
SetShouldReceiveWithoutObserver(should) ==
  /\ shouldReceiveVoIPPushes' = should
  /\ delegate' = (should /\ pushKitToken /\ session = "ready")
  /\ UNCHANGED observers

SetShouldReceiveVoIPPushes(should) ==
  /\ shouldReceiveVoIPPushes' = should
  /\ IF should /\ pushKitToken
     THEN IF session = "ready"
          THEN delegate' = TRUE /\ UNCHANGED observers
          ELSE observers' = WithObserver(observers) /\ UNCHANGED delegate
     ELSE delegate' = FALSE /\ UNCHANGED observers

\* Mutant of ObserversFire: the flag is not looked at.
ObserversFireAnyway ==
  /\ delegate' = (delegate \/ observers.count > 0)
  /\ UNCHANGED <<shouldReceiveVoIPPushes, observers>>

\* The observers' block, when the session is ready: each of them configures
\* PushKit, and removes the latest.
ObserversFire ==
  IF observers.count > 0 /\ shouldReceiveVoIPPushes
  THEN /\ delegate' = TRUE
       /\ observers' = IF observers.latest
                       THEN [count |-> observers.count - 1, latest |-> FALSE]
                       ELSE observers
       /\ UNCHANGED shouldReceiveVoIPPushes
  ELSE UNCHANGED pushKitVars

IsIdle == app # "killed" /\ handling = NotHandling

\* The service is created before the sessions are; with an account, the
\* registration for remote notifications follows.
Launch ==
  /\ app = "killed"
  /\ app' \in {"inactive", "background"}
  /\ session' = IF account THEN "loading" ELSE "none"
  /\ shouldReceiveVoIPPushes' = TRUE
  /\ delegate' = FALSE
  /\ observers' = IF pushKitToken THEN WithObserver(NoObservers)
                  ELSE NoObservers
  /\ registering' = account
  /\ UNCHANGED <<account, loggingOut, isPushRegistered, callVars, storeVars>>

\* The session's store gets ready, or its state changes again after that.
SessionStateChanges ==
  /\ IsIdle
  /\ session # "none"
  /\ session' = "ready"
  /\ ObserversFire
  /\ UNCHANGED <<app, account, loggingOut, registrationVars, callVars,
                 storeVars>>

DidBecomeActive ==
  /\ IsIdle /\ app = "inactive"
  /\ app' = "active"
  /\ IF pushKitToken THEN SetShouldReceiveVoIPPushes(FALSE)
     ELSE UNCHANGED pushKitVars
  /\ UNCHANGED <<account, loggingOut, session, registrationVars, callVars,
                 storeVars>>

WillResignActive ==
  /\ IsIdle /\ app = "active"
  /\ app' = "inactive"
  /\ UNCHANGED <<account, loggingOut, session, pushKitVars, registrationVars,
                 callVars, storeVars>>

\* Mutant of DidEnterBackground: PushKit is left as it was.
DidEnterBackgroundUnheard ==
  /\ IsIdle /\ app = "inactive"
  /\ app' = "background"
  /\ UNCHANGED <<account, loggingOut, session, pushKitVars, registrationVars,
                 callVars, storeVars>>

DidEnterBackground ==
  /\ IsIdle /\ app = "inactive"
  /\ app' = "background"
  /\ IF pushKitToken THEN SetShouldReceiveVoIPPushes(TRUE)
     ELSE UNCHANGED pushKitVars
  /\ UNCHANGED <<account, loggingOut, session, registrationVars, callVars,
                 storeVars>>

WillEnterForeground ==
  /\ IsIdle /\ app = "background"
  /\ app' = "inactive"
  /\ UNCHANGED <<account, loggingOut, session, pushKitVars, registrationVars,
                 callVars, storeVars>>

\* The process ends, at any moment: also when a VoIP push was handled without
\* a report.
Kill ==
  /\ app # "killed"
  /\ app' = "killed"
  /\ loggingOut' = FALSE /\ session' = "none"
  /\ registering' = FALSE /\ isPushRegistered' = FALSE
  /\ shouldReceiveVoIPPushes' = FALSE /\ delegate' = FALSE
  /\ observers' = NoObservers
  /\ handling' = NotHandling
  /\ UNCHANGED <<account, invited, stale, rings, missed, storeVars>>

(***************************************************************************)
(* Registration, login and logout.                                         *)
(***************************************************************************)

\* The PushKit registry is only configured here while there is no token.
DidRegister ==
  /\ IsIdle /\ registering
  /\ registering' = FALSE /\ isPushRegistered' = TRUE
  /\ delegate' = (delegate \/ ~pushKitToken)
  /\ UNCHANGED <<appVars, shouldReceiveVoIPPushes, observers, callVars,
                 storeVars>>

\* Refused by the user, or failed.
DidFailToRegister ==
  /\ IsIdle /\ registering
  /\ registering' = FALSE
  /\ UNCHANGED <<appVars, isPushRegistered, pushKitVars, callVars, storeVars>>

\* PushKit may give the credentials whenever it has a delegate.
DidUpdatePushCredentials ==
  /\ IsIdle /\ delegate
  /\ pushKitToken' = TRUE
  /\ IF app = "active" THEN SetShouldReceiveVoIPPushes(FALSE)
     ELSE UNCHANGED pushKitVars
  /\ UNCHANGED <<appVars, registrationVars, callVars, lastCallInvite, gateway>>

Login ==
  /\ IsIdle /\ app = "active" /\ ~account
  /\ account' = TRUE
  /\ session' = "loading"
  /\ registering' = (registering \/ ~isPushRegistered)
  /\ UNCHANGED <<app, loggingOut, isPushRegistered, pushKitVars, callVars,
                 storeVars>>

\* The sessions are closed and made again, when the list of ignored users
\* changed or the data got corrupted.
ReloadSessions ==
  /\ IsIdle /\ session = "ready"
  /\ session' = "loading"
  /\ UNCHANGED <<app, account, loggingOut, registrationVars, pushKitVars,
                 callVars, storeVars>>

\* deregisterRemoteNotifications and the reset of the store.
Deregister ==
  /\ isPushRegistered' = FALSE
  /\ SetShouldReceiveVoIPPushes(FALSE)
  /\ Reset
  /\ stale' = invited

Logout ==
  /\ IsIdle /\ app = "active" /\ account /\ ~loggingOut
  /\ loggingOut' = TRUE
  /\ Deregister
  /\ UNCHANGED <<app, account, session, registering, handling, invited, rings,
                 missed>>

\* The request ended: the account is gone, and with the last one the
\* application logs out once more.
LogoutFinished ==
  /\ IsIdle /\ loggingOut
  /\ loggingOut' = FALSE /\ account' = FALSE /\ session' = "none"
  /\ Deregister
  /\ UNCHANGED <<app, registering, handling, invited, rings, missed>>

(***************************************************************************)
(* VoIP pushes.                                                            *)
(***************************************************************************)

\* The extension composes the notification of a call invite.
InviteArrives(e) ==
  /\ account /\ e \notin invited
  /\ invited' = invited \cup {e}
  /\ SendVoipPush(e)
  /\ UNCHANGED <<appVars, pushKitVars, registrationVars, handling, stale,
                 rings, missed>>

\* A push is delivered once, or once more.
Delivered(e) ==
  /\ IsIdle /\ delegate /\ e \in gateway
  /\ gateway' \in {gateway, gateway \ {e}}

\* didReceiveIncomingPush reads the entry first; the extension may write it
\* before it is cleared.
DidReceiveIncomingPush(e) ==
  /\ Delivered(e)
  /\ app = "background"
  /\ handling' = [event |-> e, invite |-> lastCallInvite]
  /\ UNCHANGED <<appVars, pushKitVars, registrationVars, invited, stale, rings,
                 missed, pushKitToken, lastCallInvite>>

\* Mutant of ReportIncomingCall: the entry is not cleared.
ReportIncomingCallKeepsInvite ==
  /\ handling # NotHandling
  /\ handling' = NotHandling
  /\ rings' = [e \in Events |-> IF handling = [event |-> e, invite |-> e]
                              THEN rings[e] + 1 ELSE rings[e]]
  /\ UNCHANGED <<appVars, pushKitVars, registrationVars, invited, stale,
                 missed, storeVars>>

\* Then it clears the entry and reports the call, if the event is the
\* push's and makes a call.
ReportIncomingCall ==
  LET e == handling.event IN
  /\ handling # NotHandling
  /\ handling' = NotHandling
  /\ lastCallInvite' = NoEvent
  /\ IF handling.invite = e
     THEN /\ \E isCall \in BOOLEAN :
               rings' = IF isCall THEN [rings EXCEPT ![e] = @ + 1] ELSE rings
          /\ UNCHANGED missed
     ELSE /\ missed' = missed \cup {e}
          /\ UNCHANGED rings
  /\ UNCHANGED <<appVars, pushKitVars, registrationVars, invited, stale,
                 pushKitToken, gateway>>

\* "application is not in bg": nothing is read, nothing is reported.
IncomingPushOutsideBackground(e) ==
  /\ Delivered(e)
  /\ app # "background"
  /\ UNCHANGED <<appVars, pushKitVars, registrationVars, handling, invited,
                 stale, rings, missed, pushKitToken, lastCallInvite>>

LifeCycle ==
  \/ Launch \/ Kill
  \/ DidBecomeActive \/ WillResignActive
  \/ DidEnterBackground \/ WillEnterForeground
  \/ SessionStateChanges \/ ReloadSessions

Registration ==
  \/ DidRegister \/ DidFailToRegister \/ DidUpdatePushCredentials
  \/ Login \/ Logout \/ LogoutFinished

VoipPushes ==
  \/ \E e \in Events : DidReceiveIncomingPush(e)
                       \/ IncomingPushOutsideBackground(e)
  \/ ReportIncomingCall

ServiceNext == LifeCycle \/ Registration \/ VoipPushes

vars == <<serviceVars, storeVars>>
Next == ServiceNext \/ \E e \in Events : InviteArrives(e)
Spec == ServiceInit /\ [][Next]_vars

(***************************************************************************)
(* Properties.                                                             *)
(***************************************************************************)

\* In the background, with a token and a session whose store is ready, a VoIP
\* push finds a delegate -- whether the application came there by a launch,
\* before or after its session got ready, or through reloads and logins.
PushKitIsHeardInBackground ==
  (app = "background" /\ pushKitToken /\ session = "ready") => delegate

\* Once it has a token, an active application does not listen to PushKit:
\* no observer left behind by an earlier stay in the background sets it up.
PushKitIsSilentWhenActive == app = "active" /\ pushKitToken => ~delegate

\* However often the push of a call is delivered, its call rings once.
RingsOnce == \A e \in Events : rings[e] <= 1

\* An invite handed over before a logout never rings after it.
LogoutForgetsInvites ==
  [][\A e \in Events : rings'[e] > rings[e] => e \notin stale]_vars

(***************************************************************************)
(* The inductive invariant behind them.                                    *)
(***************************************************************************)

\* In the background with a token, PushKit is listened to, or an observer
\* will set it up when the session gets ready.
ListensInBackground ==
  (app = "background" /\ pushKitToken) =>
    \/ delegate
    \/ shouldReceiveVoIPPushes /\ observers.count > 0 /\ session # "ready"

\* An active application with a token neither listens nor means to.
SilentWhenActive ==
  (app = "active" /\ pushKitToken) => ~delegate /\ ~shouldReceiveVoIPPushes

\* An invite in the store, or read from it, came since the last logout and
\* has not rung yet.
HeldInviteIsFresh ==
  \A e \in Events :
    /\ (lastCallInvite = e \/ handling.invite = e) =>
         e \in invited \ stale /\ rings[e] = 0
    /\ rings[e] > 0 => e \in invited

\* All of it: what every step of the service keeps.
ServiceInv ==
  /\ ServiceTypeOK
  /\ ListensInBackground
  /\ SilentWhenActive
  /\ HeldInviteIsFresh
  /\ RingsOnce

(***************************************************************************)
(* What a comment of the code calls impossible.                            *)
(***************************************************************************)

\* "It's a serious error ... we don't have the last callInvite event": the
\* event of a push is in the store, unless its call rang before.
HandOffMatches == \A e \in missed : rings[e] > 0

=============================================================================
