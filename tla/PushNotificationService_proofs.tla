-------------------- MODULE PushNotificationService_proofs --------------------
(***************************************************************************)
(* Proofs about PushNotificationService: what every step keeps, for any    *)
(* number of events and any bound on the observers.                        *)
(***************************************************************************)
EXTENDS PushNotificationService, TLAPS

\* The records of observers are what they are said to be.
LEMMA ObserversType ==
  /\ NoObservers \in [count : 0..ObserverBound, latest : BOOLEAN]
  /\ \A o \in [count : 0..ObserverBound, latest : BOOLEAN] :
       /\ WithObserver(o) \in [count : 0..ObserverBound, latest : BOOLEAN]
       /\ o.count > 0 =>
            [count |-> o.count - 1, latest |-> FALSE]
              \in [count : 0..ObserverBound, latest : BOOLEAN]
BY ObserverAssumption DEF ObserverAssumption, NoObservers, WithObserver, Least

\* Each of the lemmas below takes one step from a state in which ServiceInv
\* holds; the temporal theorems at the end put them together.

\* The life cycle of the application and of its session.
LEMMA LifeCycleKeepsInv ==
  ASSUME ServiceInv, LifeCycle
  PROVE  ServiceInv'
  <1> USE DEF ServiceInv, ServiceTypeOK, StoreTypeOK, ListensInBackground,
              SilentWhenActive, HeldInviteIsFresh, RingsOnce, IsIdle, AppStates,
              NotHandling, appVars, pushKitVars, registrationVars, callVars,
              storeVars, EventAssumption, ObserverAssumption
  <1>1. CASE Launch
    <2>1. ServiceTypeOK'
      BY <1>1, ObserversType
      DEF Launch
    <2>2. ListensInBackground'
      BY <1>1, ObserverAssumption
      DEF Launch, WithObserver, Least, NoObservers
    <2>3. SilentWhenActive'
      BY <1>1
      DEF Launch, NoObservers
    <2>4. HeldInviteIsFresh'
      BY <1>1, EventAssumption
      DEF Launch, NoObservers
    <2>5. RingsOnce'
      BY <1>1
      DEF Launch, NoObservers
    <2> QED  BY <2>1, <2>2, <2>3, <2>4, <2>5 DEF ServiceInv
  <1>2. CASE Kill
    <2>1. ServiceTypeOK'
      BY <1>2, ObserversType
      DEF Kill
    <2>2. ListensInBackground'
      BY <1>2
      DEF Kill, NoObservers
    <2>3. SilentWhenActive'
      BY <1>2
      DEF Kill, NoObservers
    <2>4. HeldInviteIsFresh'
      BY <1>2, EventAssumption
      DEF Kill, NoObservers
    <2>5. RingsOnce'
      BY <1>2
      DEF Kill, NoObservers
    <2> QED  BY <2>1, <2>2, <2>3, <2>4, <2>5 DEF ServiceInv
  <1>3. CASE DidBecomeActive
    <2>1. ServiceTypeOK'
      BY <1>3, ObserversType
      DEF DidBecomeActive, SetShouldReceiveVoIPPushes
    <2>2. ListensInBackground'
      BY <1>3
      DEF DidBecomeActive, SetShouldReceiveVoIPPushes, WithObserver, Least
    <2>3. SilentWhenActive'
      BY <1>3
      DEF DidBecomeActive, SetShouldReceiveVoIPPushes, WithObserver, Least
    <2>4. HeldInviteIsFresh'
      BY <1>3, EventAssumption
      DEF DidBecomeActive, SetShouldReceiveVoIPPushes, WithObserver, Least
    <2>5. RingsOnce'
      BY <1>3
      DEF DidBecomeActive, SetShouldReceiveVoIPPushes, WithObserver, Least
    <2> QED  BY <2>1, <2>2, <2>3, <2>4, <2>5 DEF ServiceInv
  <1>4. CASE WillResignActive
    <2>1. ServiceTypeOK'
      BY <1>4, ObserversType
      DEF WillResignActive
    <2>2. ListensInBackground'
      BY <1>4
      DEF WillResignActive
    <2>3. SilentWhenActive'
      BY <1>4
      DEF WillResignActive
    <2>4. HeldInviteIsFresh'
      BY <1>4, EventAssumption
      DEF WillResignActive
    <2>5. RingsOnce'
      BY <1>4
      DEF WillResignActive
    <2> QED  BY <2>1, <2>2, <2>3, <2>4, <2>5 DEF ServiceInv
  <1>5. CASE DidEnterBackground
    <2>1. ServiceTypeOK'
      BY <1>5, ObserversType
      DEF DidEnterBackground, SetShouldReceiveVoIPPushes
    <2>2. ListensInBackground'
      BY <1>5, ObserverAssumption
      DEF DidEnterBackground, SetShouldReceiveVoIPPushes, WithObserver, Least
    <2>3. SilentWhenActive'
      BY <1>5
      DEF DidEnterBackground, SetShouldReceiveVoIPPushes, WithObserver, Least
    <2>4. HeldInviteIsFresh'
      BY <1>5, EventAssumption
      DEF DidEnterBackground, SetShouldReceiveVoIPPushes, WithObserver, Least
    <2>5. RingsOnce'
      BY <1>5
      DEF DidEnterBackground, SetShouldReceiveVoIPPushes, WithObserver, Least
    <2> QED  BY <2>1, <2>2, <2>3, <2>4, <2>5 DEF ServiceInv
  <1>6. CASE WillEnterForeground
    <2>1. ServiceTypeOK'
      BY <1>6, ObserversType
      DEF WillEnterForeground
    <2>2. ListensInBackground'
      BY <1>6
      DEF WillEnterForeground
    <2>3. SilentWhenActive'
      BY <1>6
      DEF WillEnterForeground
    <2>4. HeldInviteIsFresh'
      BY <1>6, EventAssumption
      DEF WillEnterForeground
    <2>5. RingsOnce'
      BY <1>6
      DEF WillEnterForeground
    <2> QED  BY <2>1, <2>2, <2>3, <2>4, <2>5 DEF ServiceInv
  <1>7. CASE SessionStateChanges
    <2>1. ServiceTypeOK'
      BY <1>7, ObserversType
      DEF SessionStateChanges, ObserversFire
    <2>2. ListensInBackground'
      BY <1>7
      DEF SessionStateChanges, ObserversFire
    <2>3. SilentWhenActive'
      BY <1>7
      DEF SessionStateChanges, ObserversFire
    <2>4. HeldInviteIsFresh'
      BY <1>7, EventAssumption
      DEF SessionStateChanges, ObserversFire
    <2>5. RingsOnce'
      BY <1>7
      DEF SessionStateChanges, ObserversFire
    <2> QED  BY <2>1, <2>2, <2>3, <2>4, <2>5 DEF ServiceInv
  <1>8. CASE ReloadSessions
    <2>1. ServiceTypeOK'
      BY <1>8, ObserversType
      DEF ReloadSessions
    <2>2. ListensInBackground'
      BY <1>8
      DEF ReloadSessions
    <2>3. SilentWhenActive'
      BY <1>8
      DEF ReloadSessions
    <2>4. HeldInviteIsFresh'
      BY <1>8, EventAssumption
      DEF ReloadSessions
    <2>5. RingsOnce'
      BY <1>8
      DEF ReloadSessions
    <2> QED  BY <2>1, <2>2, <2>3, <2>4, <2>5 DEF ServiceInv
  <1> QED  BY <1>1, <1>2, <1>3, <1>4, <1>5, <1>6, <1>7, <1>8 DEF LifeCycle

\* Registration, login and logout.
LEMMA RegistrationKeepsInv ==
  ASSUME ServiceInv, Registration
  PROVE  ServiceInv'
  <1> USE DEF ServiceInv, ServiceTypeOK, StoreTypeOK, ListensInBackground,
              SilentWhenActive, HeldInviteIsFresh, RingsOnce, IsIdle, AppStates,
              NotHandling, appVars, pushKitVars, registrationVars, callVars,
              storeVars, EventAssumption, ObserverAssumption
  <1>1. CASE DidRegister
    <2>1. ServiceTypeOK'
      BY <1>1, ObserversType
      DEF DidRegister
    <2>2. ListensInBackground'
      BY <1>1
      DEF DidRegister
    <2>3. SilentWhenActive'
      BY <1>1
      DEF DidRegister
    <2>4. HeldInviteIsFresh'
      BY <1>1, EventAssumption
      DEF DidRegister
    <2>5. RingsOnce'
      BY <1>1
      DEF DidRegister
    <2> QED  BY <2>1, <2>2, <2>3, <2>4, <2>5 DEF ServiceInv
  <1>2. CASE DidFailToRegister
    <2>1. ServiceTypeOK'
      BY <1>2, ObserversType
      DEF DidFailToRegister
    <2>2. ListensInBackground'
      BY <1>2
      DEF DidFailToRegister
    <2>3. SilentWhenActive'
      BY <1>2
      DEF DidFailToRegister
    <2>4. HeldInviteIsFresh'
      BY <1>2, EventAssumption
      DEF DidFailToRegister
    <2>5. RingsOnce'
      BY <1>2
      DEF DidFailToRegister
    <2> QED  BY <2>1, <2>2, <2>3, <2>4, <2>5 DEF ServiceInv
  <1>3. CASE DidUpdatePushCredentials
    <2>1. ServiceTypeOK'
      BY <1>3, ObserversType
      DEF DidUpdatePushCredentials, SetShouldReceiveVoIPPushes
    <2>2. ListensInBackground'
      BY <1>3
      DEF DidUpdatePushCredentials, SetShouldReceiveVoIPPushes, WithObserver, Least
    <2>3. SilentWhenActive'
      BY <1>3
      DEF DidUpdatePushCredentials, SetShouldReceiveVoIPPushes, WithObserver, Least
    <2>4. HeldInviteIsFresh'
      BY <1>3, EventAssumption
      DEF DidUpdatePushCredentials, SetShouldReceiveVoIPPushes, WithObserver, Least
    <2>5. RingsOnce'
      BY <1>3
      DEF DidUpdatePushCredentials, SetShouldReceiveVoIPPushes, WithObserver, Least
    <2> QED  BY <2>1, <2>2, <2>3, <2>4, <2>5 DEF ServiceInv
  <1>4. CASE Login
    <2>1. ServiceTypeOK'
      BY <1>4, ObserversType
      DEF Login
    <2>2. ListensInBackground'
      BY <1>4
      DEF Login
    <2>3. SilentWhenActive'
      BY <1>4
      DEF Login
    <2>4. HeldInviteIsFresh'
      BY <1>4, EventAssumption
      DEF Login
    <2>5. RingsOnce'
      BY <1>4
      DEF Login
    <2> QED  BY <2>1, <2>2, <2>3, <2>4, <2>5 DEF ServiceInv
  <1>5. CASE Logout
    <2>1. ServiceTypeOK'
      BY <1>5, ObserversType
      DEF Logout, Deregister, Reset, SetShouldReceiveVoIPPushes
    <2>2. ListensInBackground'
      BY <1>5
      DEF Logout, Deregister, Reset, SetShouldReceiveVoIPPushes
    <2>3. SilentWhenActive'
      BY <1>5
      DEF Logout, Deregister, Reset, SetShouldReceiveVoIPPushes
    <2>4. HeldInviteIsFresh'
      BY <1>5, EventAssumption
      DEF Logout, Deregister, Reset, SetShouldReceiveVoIPPushes
    <2>5. RingsOnce'
      BY <1>5
      DEF Logout, Deregister, Reset, SetShouldReceiveVoIPPushes
    <2> QED  BY <2>1, <2>2, <2>3, <2>4, <2>5 DEF ServiceInv
  <1>6. CASE LogoutFinished
    <2>1. ServiceTypeOK'
      BY <1>6, ObserversType
      DEF LogoutFinished, Deregister, Reset, SetShouldReceiveVoIPPushes
    <2>2. ListensInBackground'
      BY <1>6
      DEF LogoutFinished, Deregister, Reset, SetShouldReceiveVoIPPushes
    <2>3. SilentWhenActive'
      BY <1>6
      DEF LogoutFinished, Deregister, Reset, SetShouldReceiveVoIPPushes
    <2>4. HeldInviteIsFresh'
      BY <1>6, EventAssumption
      DEF LogoutFinished, Deregister, Reset, SetShouldReceiveVoIPPushes
    <2>5. RingsOnce'
      BY <1>6
      DEF LogoutFinished, Deregister, Reset, SetShouldReceiveVoIPPushes
    <2> QED  BY <2>1, <2>2, <2>3, <2>4, <2>5 DEF ServiceInv
  <1> QED  BY <1>1, <1>2, <1>3, <1>4, <1>5, <1>6 DEF Registration

\* The pushes themselves.
LEMMA VoipPushesKeepInv ==
  ASSUME ServiceInv, VoipPushes
  PROVE  ServiceInv'
  <1> USE DEF ServiceInv, ServiceTypeOK, StoreTypeOK, ListensInBackground,
              SilentWhenActive, HeldInviteIsFresh, RingsOnce, IsIdle, AppStates,
              NotHandling, appVars, pushKitVars, registrationVars, callVars,
              storeVars, EventAssumption, ObserverAssumption
  <1>1. ASSUME NEW e \in Events, DidReceiveIncomingPush(e)  PROVE ServiceInv'
    <2>1. ServiceTypeOK'
      BY <1>1, ObserversType
      DEF DidReceiveIncomingPush, Delivered
    <2>2. ListensInBackground'
      BY <1>1
      DEF DidReceiveIncomingPush, Delivered
    <2>3. SilentWhenActive'
      BY <1>1
      DEF DidReceiveIncomingPush, Delivered
    <2>4. HeldInviteIsFresh'
      BY <1>1, EventAssumption
      DEF DidReceiveIncomingPush, Delivered
    <2>5. RingsOnce'
      BY <1>1
      DEF DidReceiveIncomingPush, Delivered
    <2> QED  BY <2>1, <2>2, <2>3, <2>4, <2>5 DEF ServiceInv
  <1>2. ASSUME NEW e \in Events, IncomingPushOutsideBackground(e)  PROVE ServiceInv'
    <2>1. ServiceTypeOK'
      BY <1>2, ObserversType
      DEF IncomingPushOutsideBackground, Delivered
    <2>2. ListensInBackground'
      BY <1>2
      DEF IncomingPushOutsideBackground, Delivered
    <2>3. SilentWhenActive'
      BY <1>2
      DEF IncomingPushOutsideBackground, Delivered
    <2>4. HeldInviteIsFresh'
      BY <1>2, EventAssumption
      DEF IncomingPushOutsideBackground, Delivered
    <2>5. RingsOnce'
      BY <1>2
      DEF IncomingPushOutsideBackground, Delivered
    <2> QED  BY <2>1, <2>2, <2>3, <2>4, <2>5 DEF ServiceInv
  <1>3. CASE ReportIncomingCall
    <2>1. ServiceTypeOK'
      BY <1>3, ObserversType
      DEF ReportIncomingCall
    <2>2. ListensInBackground'
      BY <1>3
      DEF ReportIncomingCall
    <2>3. SilentWhenActive'
      BY <1>3
      DEF ReportIncomingCall
    <2>4. HeldInviteIsFresh'
      BY <1>3, EventAssumption
      DEF ReportIncomingCall
    <2>5. RingsOnce'
      BY <1>3
      DEF ReportIncomingCall
    <2> QED  BY <2>1, <2>2, <2>3, <2>4, <2>5 DEF ServiceInv
  <1> QED  BY <1>1, <1>2, <1>3 DEF VoipPushes

\* The extension's part: an invite handed over.
LEMMA InviteKeepsInv ==
  ASSUME ServiceInv, NEW e \in Events, InviteArrives(e)
  PROVE  ServiceInv'
  <1> USE DEF ServiceInv, ServiceTypeOK, StoreTypeOK, ListensInBackground,
              SilentWhenActive, HeldInviteIsFresh, RingsOnce, IsIdle, AppStates,
              NotHandling, appVars, pushKitVars, registrationVars, callVars,
              storeVars, EventAssumption, ObserverAssumption
  <1>1. ServiceTypeOK'
    BY EventAssumption, ObserversType
    DEF InviteArrives, SendVoipPush
  <1>2. ListensInBackground'
    BY EventAssumption DEF InviteArrives, SendVoipPush
  <1>3. SilentWhenActive'
    BY EventAssumption DEF InviteArrives, SendVoipPush
  <1>4. HeldInviteIsFresh'
    BY EventAssumption DEF InviteArrives, SendVoipPush
  <1>5. RingsOnce'
    BY EventAssumption DEF InviteArrives, SendVoipPush
  <1> QED  BY <1>1, <1>2, <1>3, <1>4, <1>5

\* Every reachable state satisfies the inductive invariant: from the launch,
\* through logins, logouts, reloads, kills and any delivery of pushes.
THEOREM ServiceInvariance == Spec => []ServiceInv
<1>1. ServiceInit => ServiceInv
  <2> SUFFICES ASSUME ServiceInit  PROVE ServiceInv
    OBVIOUS
  <2> USE DEF ServiceInit
  <2>1. ServiceTypeOK
    <3>1. observers \in [count : 0..ObserverBound, latest : BOOLEAN]
      BY ObserversType
    <3>2. rings \in [Events -> Nat]
      OBVIOUS
    <3> QED  BY <3>1, <3>2 DEF ServiceTypeOK, StoreTypeOK, AppStates
  <2>2. ListensInBackground /\ SilentWhenActive
    BY DEF ListensInBackground, SilentWhenActive
  <2>3. HeldInviteIsFresh /\ RingsOnce
    BY EventAssumption
    DEF HeldInviteIsFresh, RingsOnce, NotHandling, EventAssumption
  <2> QED  BY <2>1, <2>2, <2>3 DEF ServiceInv
<1>2. ServiceInv /\ [Next]_vars => ServiceInv'
  <2> SUFFICES ASSUME ServiceInv, [Next]_vars  PROVE ServiceInv'
    OBVIOUS
  <2>1. CASE LifeCycle  BY <2>1, LifeCycleKeepsInv
  <2>2. CASE Registration  BY <2>2, RegistrationKeepsInv
  <2>3. CASE VoipPushes  BY <2>3, VoipPushesKeepInv
  <2>4. ASSUME NEW e \in Events, InviteArrives(e)  PROVE ServiceInv'
    BY <2>4, InviteKeepsInv
  <2>5. CASE UNCHANGED vars
    BY <2>5 DEF vars, serviceVars, appVars, pushKitVars, registrationVars,
      callVars, storeVars, ServiceInv, ServiceTypeOK, StoreTypeOK,
      ListensInBackground, SilentWhenActive, HeldInviteIsFresh, RingsOnce
  <2> QED  BY <2>1, <2>2, <2>3, <2>4, <2>5 DEF Next, ServiceNext
<1> QED  BY <1>1, <1>2, PTL DEF Spec

\* In the background, with a token and a ready session, a VoIP push always
\* finds a delegate.
THEOREM HeardInBackground == Spec => []PushKitIsHeardInBackground
<1>1. ServiceInv => PushKitIsHeardInBackground
  BY DEF ServiceInv, ListensInBackground, PushKitIsHeardInBackground
<1> QED  BY <1>1, ServiceInvariance, PTL

\* Once it has a token, an active application never listens to PushKit.
THEOREM SilentInForeground == Spec => []PushKitIsSilentWhenActive
<1>1. ServiceInv => PushKitIsSilentWhenActive
  BY DEF ServiceInv, SilentWhenActive, PushKitIsSilentWhenActive
<1> QED  BY <1>1, ServiceInvariance, PTL

\* However often its push is delivered, a call rings once.
THEOREM CallRingsOnce == Spec => []RingsOnce
<1>1. ServiceInv => RingsOnce
  BY DEF ServiceInv
<1> QED  BY <1>1, ServiceInvariance, PTL

\* Only a report rings, and it rings the invite that was read from the entry.
LEMMA OnlyReportsRing ==
  ASSUME ServiceInv, [Next]_vars, NEW e \in Events, rings'[e] > rings[e]
  PROVE  handling.invite = e
<1>1. CASE ReportIncomingCall
  BY <1>1 DEF ReportIncomingCall, ServiceInv, ServiceTypeOK, NotHandling
<1>2. CASE rings' = rings
  BY <1>2 DEF ServiceInv, ServiceTypeOK
<1>3. ReportIncomingCall \/ rings' = rings
  BY DEF Next, ServiceNext, LifeCycle, Registration, VoipPushes, Launch, Kill,
     DidBecomeActive, WillResignActive, DidEnterBackground,
     WillEnterForeground, SessionStateChanges, ReloadSessions, DidRegister,
     DidFailToRegister, DidUpdatePushCredentials, Login, Logout,
     LogoutFinished, DidReceiveIncomingPush, IncomingPushOutsideBackground,
     InviteArrives, callVars, vars, serviceVars
<1> QED  BY <1>1, <1>2, <1>3

\* An invite handed over before a logout never rings after it.
THEOREM LogoutForgets == Spec => LogoutForgetsInvites
<1>1. ServiceInv /\ [Next]_vars =>
        [\A e \in Events : rings'[e] > rings[e] => e \notin stale]_vars
  <2> SUFFICES ASSUME ServiceInv, [Next]_vars, NEW e \in Events,
                      rings'[e] > rings[e]
               PROVE  e \notin stale
    OBVIOUS
  <2> QED  BY OnlyReportsRing DEF ServiceInv, HeldInviteIsFresh
<1> QED  BY <1>1, ServiceInvariance, PTL DEF Spec, LogoutForgetsInvites

=============================================================================
