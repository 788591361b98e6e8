--------------------------- MODULE AppLock_proofs ---------------------------
(***************************************************************************)
(* Theorems about AppLock for every set of PINs and every build setting.   *)
(*                                                                         *)
(* The inductive invariant IInv of AppLock is TypeOK with facts that       *)
(* relate what is pending to what was accepted or chosen before.  One      *)
(* lemma per part shows that every step keeps it; the theorems are at the  *)
(* end of the module.                                                      *)
(***************************************************************************)
EXTENDS AppLock, TLAPS

(***************************************************************************)
(* What the helpers return.                                                *)
(***************************************************************************)
Roots == {"pin", "biometrics"}

\* A new screen, a closed flow and a re-rooted flow are flows.
LEMMA ScreenType ==
  ASSUME NEW mode \in Modes \cup {"none"}, NEW root \in Roots
  PROVE  /\ Screen(mode, root) \in Flows
         /\ \A f \in Flows : Rerooted(f, mode, root) \in Flows
BY DEF Screen, Rerooted, Flows, Roots, Alerts

\* A closed flow is a flow, in no mode.
LEMMA ClosedType == Closed \in Flows /\ Closed.mode = "none"
BY DEF Closed, Screen, Flows, Roots, Alerts

\* The root of a mode is one of the two screens.
LEMMA RootType ==
  ASSUME NEW mode, NEW p PROVE RootFor(mode, p) \in Roots
BY DEF RootFor, Roots

\* Every write to the keychain leaves preferences.
LEMMA PreferencesType ==
  /\ EmptyPreferences \in Preferences
  /\ \A p \in Preferences : /\ AfterSuccess(p) \in Preferences
                            /\ AfterWrongPin(p) \in Preferences
                            /\ AfterBiometricsFailure(p) \in Preferences
                            /\ WithoutBiometrics(p) \in Preferences
<1>1. EmptyPreferences \in Preferences
  BY DEF EmptyPreferences, Preferences
<1>2. ASSUME NEW p \in Preferences PROVE AfterSuccess(p) \in Preferences
  BY DEF Preferences, AfterSuccess
<1>3. ASSUME NEW p \in Preferences PROVE AfterWrongPin(p) \in Preferences
  BY DEF Preferences, AfterWrongPin
<1>4. ASSUME NEW p \in Preferences
      PROVE AfterBiometricsFailure(p) \in Preferences
  BY DEF Preferences, AfterBiometricsFailure
<1>5. ASSUME NEW p \in Preferences PROVE WithoutBiometrics(p) \in Preferences
  BY DEF Preferences, WithoutBiometrics
<1> QED BY <1>1, <1>2, <1>3, <1>4, <1>5

\* Dismissing a sheet, whoever owns it, leaves a flow.
LEMMA CloseSheetType ==
  ASSUME NEW f \in Flows PROVE CloseSheet(f) \in Flows
<1>1. [f EXCEPT !.shown = FALSE, !.alert = "none"] \in Flows
  BY DEF Flows, Alerts
<1> QED BY <1>1, ClosedType DEF CloseSheet

\* Changing the fields an action changes leaves a flow.
LEMMA FlowFieldType ==
  ASSUME NEW f \in Flows
  PROVE  /\ \A e \in {"partial", "full"} : [f EXCEPT !.entry = e] \in Flows
         /\ \A e \in {"partial", "full"}, b \in BOOLEAN :
              [f EXCEPT !.entry = e, !.blocked = b] \in Flows
         /\ \A pin \in Pins, b \in BOOLEAN :
              [f EXCEPT !.firstPin = pin, !.blocked = b] \in Flows
         /\ \A e \in {"partial", "full"}, a \in Alerts :
              [f EXCEPT !.entry = e, !.alert = a] \in Flows
         /\ \A a \in Alerts : [f EXCEPT !.alert = a] \in Flows
         /\ \A e \in {"partial", "full"} :
              [f EXCEPT !.entry = e, !.failures = f.failures + 1] \in Flows
<1>1. \A g \in Flows, e \in {"partial", "full"} : [g EXCEPT !.entry = e] \in Flows
  BY DEF Flows
<1>2. \A g \in Flows, e \in {"partial", "full"}, b \in BOOLEAN :
        [g EXCEPT !.entry = e, !.blocked = b] \in Flows
  BY DEF Flows
<1>3. \A g \in Flows, pin \in Pins, b \in BOOLEAN :
        [g EXCEPT !.firstPin = pin, !.blocked = b] \in Flows
  BY DEF Flows
<1>4. \A g \in Flows, e \in {"partial", "full"}, a \in Alerts :
        [g EXCEPT !.entry = e, !.alert = a] \in Flows
  BY DEF Flows
<1>5. \A g \in Flows, a \in Alerts : [g EXCEPT !.alert = a] \in Flows
  BY DEF Flows
<1>6. \A g \in Flows, e \in {"partial", "full"}, n \in Nat :
        [g EXCEPT !.entry = e, !.failures = n] \in Flows
  BY DEF Flows
<1>7. f.failures + 1 \in Nat
  BY DEF Flows
<1> QED BY <1>1, <1>2, <1>3, <1>4, <1>5, <1>6, <1>7

\* The same for the two actions that change three fields.
LEMMA FlowFieldsType ==
  ASSUME NEW f \in Flows
  PROVE  /\ [f EXCEPT !.alert = "none", !.firstPin = NoPin,
                      !.entry = "partial"] \in Flows
         /\ [f EXCEPT !.entry = "partial", !.failures = 0,
                      !.alert = "tooManyTimes"] \in Flows
<1>1. \A g \in Flows : [g EXCEPT !.alert = "none", !.firstPin = NoPin,
                                 !.entry = "partial"] \in Flows
  BY DEF Flows, Alerts
<1>2. \A g \in Flows : [g EXCEPT !.entry = "partial", !.failures = 0,
                                 !.alert = "tooManyTimes"] \in Flows
  BY DEF Flows, Alerts
<1> QED BY <1>1, <1>2

(***************************************************************************)
(* Type correctness.                                                       *)
(***************************************************************************)

\* A step that gives presenter o another flow and leaves the other alone.
LEMMA SetType ==
  ASSUME TypeOK, NEW o \in Owners, NEW f \in Flows, Set(o, f)
  PROVE  flow' \in [Owners -> Flows]
BY DEF Set, TypeOK

\* Choosing a PIN keeps the types.
LEMMA ChoosePinType ==
  ASSUME TypeOK, NEW o \in Owners, ChoosePin(o) PROVE TypeOK'
<1> USE DEF lifecycleVars, accountVars
<1>1. flow[o] \in Flows
  BY DEF TypeOK
<1>2. ASSUME NEW pin \in Pins, NotAllowedPinTyped(o, pin) PROVE TypeOK'
  <2>1. flow' \in [Owners -> Flows]
    BY <1>1, <1>2, SetType, FlowFieldType DEF NotAllowedPinTyped
  <2> QED BY <1>2, <2>1 DEF NotAllowedPinTyped, OnlyFlow, TypeOK
<1>3. ASSUME NEW pin \in Pins, FirstPinTyped(o, pin) PROVE TypeOK'
  <2>1. flow' \in [Owners -> Flows]
    BY <1>1, <1>3, SetType, FlowFieldType DEF FirstPinTyped
  <2> QED BY <1>3, <2>1 DEF FirstPinTyped, OnlyFlow, TypeOK
<1>4. ASSUME NEW pin \in Pins, SecondPinMatches(o, pin) PROVE TypeOK'
  <2>1. flow' \in [Owners -> Flows]
    BY <1>1, <1>4, SetType, FlowFieldType DEF SecondPinMatches
  <2>2. late' \subseteq Owners \X Callbacks
    BY <1>4 DEF SecondPinMatches, TypeOK, Callbacks
  <2> QED BY <1>4, <2>1, <2>2 DEF SecondPinMatches, TypeOK
<1>5. ASSUME NEW pin \in Pins, SecondPinDiffers(o, pin) PROVE TypeOK'
  <2>1. flow' \in [Owners -> Flows]
    BY <1>1, <1>5, SetType, FlowFieldType DEF SecondPinDiffers, Alerts
  <2> QED BY <1>5, <2>1 DEF SecondPinDiffers, OnlyFlow, TypeOK
<1>6. ASSUME PinsDontMatchAcknowledged(o) PROVE TypeOK'
  <2>1. flow' \in [Owners -> Flows]
    BY <1>1, <1>6, SetType, FlowFieldsType DEF PinsDontMatchAcknowledged
  <2> QED BY <1>6, <2>1 DEF PinsDontMatchAcknowledged, OnlyFlow, TypeOK
<1> QED BY <1>2, <1>3, <1>4, <1>5, <1>6 DEF ChoosePin

\* Checking a PIN keeps the types.
LEMMA CheckPinType ==
  ASSUME TypeOK, NEW o \in Owners, CheckPin(o) PROVE TypeOK'
<1> USE DEF lifecycleVars, accountVars
<1>1. flow[o] \in Flows
  BY DEF TypeOK
<1>2. ASSUME NEW pin \in Pins, RightPinTyped(o, pin) PROVE TypeOK'
  <2>1. flow' \in [Owners -> Flows]
    BY <1>1, <1>2, SetType, FlowFieldType DEF RightPinTyped
  <2>2. late' \subseteq Owners \X Callbacks
    BY <1>2 DEF RightPinTyped, TypeOK, Callbacks
  <2>3. prefs' \in Preferences
    BY <1>2, PreferencesType DEF RightPinTyped, TypeOK
  <2> QED BY <1>2, <2>1, <2>2, <2>3 DEF RightPinTyped, TypeOK
<1>3. ASSUME NEW pin \in Pins, WrongPinRetry(o, pin) PROVE TypeOK'
  <2>1. flow' \in [Owners -> Flows]
    BY <1>1, <1>3, SetType, FlowFieldType DEF WrongPinRetry
  <2>2. late' \subseteq Owners \X Callbacks
    BY <1>3 DEF WrongPinRetry, TypeOK, Callbacks
  <2>3. prefs' \in Preferences
    BY <1>3, PreferencesType DEF WrongPinRetry, TypeOK
  <2> QED BY <1>3, <2>1, <2>2, <2>3
          DEF WrongPinRetry, TriesAfterWrongPin, TypeOK
<1>4. ASSUME NEW pin \in Pins, WrongPinTooManyTimes(o, pin) PROVE TypeOK'
  <2>1. flow' \in [Owners -> Flows]
    BY <1>1, <1>4, SetType, FlowFieldsType DEF WrongPinTooManyTimes
  <2>2. prefs' \in Preferences
    BY <1>4, PreferencesType DEF WrongPinTooManyTimes, TypeOK
  <2> QED BY <1>4, <2>1, <2>2
          DEF WrongPinTooManyTimes, TriesAfterWrongPin, TypeOK
<1>5. ASSUME TooManyTimesAcknowledged(o) PROVE TypeOK'
  <2>1. flow' \in [Owners -> Flows]
    BY <1>1, <1>5, SetType, FlowFieldType DEF TooManyTimesAcknowledged, Alerts
  <2> QED BY <1>5, <2>1 DEF TooManyTimesAcknowledged, OnlyFlow, TypeOK
<1> QED BY <1>2, <1>3, <1>4, <1>5 DEF CheckPin

\* A callback that leaves, or a whole owner's callbacks, leave callbacks.
LEMMA LateType ==
  ASSUME TypeOK
  PROVE  /\ \A S : late \ S \subseteq Owners \X Callbacks
         /\ \A o \in Owners : LateAfterReroot(o) \subseteq Owners \X Callbacks
         /\ \A o \in Owners, c \in Callbacks :
              late \cup {<<o, c>>} \subseteq Owners \X Callbacks
BY DEF TypeOK, LateAfterReroot

\* Releasing the lock and resuming the sessions keep the types.
LEMMA ReleaseType ==
  ASSUME TypeOK
  PROVE  /\ ReleaseLock => /\ flow' \in [Owners -> Flows]
                           /\ late' \subseteq Owners \X Callbacks
                           /\ auth' \in BOOLEAN
         /\ AfterAppUnlocked => running' \in BOOLEAN
         /\ Orphaned(dialog) \in Dialogs
<1>1. ASSUME ReleaseLock PROVE flow' \in [Owners -> Flows]
  BY <1>1, ClosedType DEF ReleaseLock, TypeOK
<1>2. ASSUME ReleaseLock
      PROVE  late' \subseteq Owners \X Callbacks /\ auth' \in BOOLEAN
  BY <1>2, LateType DEF ReleaseLock
<1>3. ASSUME AfterAppUnlocked
      PROVE  running' \in BOOLEAN
  BY <1>3 DEF AfterAppUnlocked, TypeOK
<1>4. Orphaned(dialog) \in Dialogs
  BY DEF Orphaned, Dialogs, TypeOK
<1> QED BY <1>1, <1>2, <1>3, <1>4

\* A logout that starts leaves preferences and switches.
LEMMA StartLogoutType ==
  ASSUME TypeOK, StartLogout
  PROVE  prefs' \in Preferences /\ logout' \in BOOLEAN /\ tries' \in Nat
BY PreferencesType DEF StartLogout, TypeOK

\* The rest of the keypad keeps the types.
LEMMA PinEntryType ==
  ASSUME TypeOK, PinEntry PROVE TypeOK'
<1> USE DEF lifecycleVars, accountVars
<1>1. \A o \in Owners : flow[o] \in Flows
  BY DEF TypeOK
<1>2. "lock" \in Owners /\ "sheet" \in Owners
  BY DEF Owners
<1>3. ASSUME NEW o \in Owners, DeleteTapped(o) PROVE TypeOK'
  <2>1. flow' \in [Owners -> Flows]
    BY <1>1, <1>3, SetType, FlowFieldType DEF DeleteTapped
  <2> QED BY <1>3, <2>1 DEF DeleteTapped, OnlyFlow, TypeOK
<1>4. ASSUME NEW pin \in Pins, WrongPinLogsOut(pin) PROVE TypeOK'
  <2> DEFINE f == [flow["lock"] EXCEPT !.entry = "full",
                     !.failures = flow["lock"].failures + 1]
  <2>1. f \in Flows
    BY <1>1, <1>2, FlowFieldType
  <2>2. flow' = [flow EXCEPT !["lock"] = f]
    BY <1>2, <1>4 DEF WrongPinLogsOut, KickUser, TypeOK
  <2>3. flow' \in [Owners -> Flows]
    BY <2>1, <2>2 DEF TypeOK
  <2> QED BY <1>4, <2>3, StartLogoutType DEF WrongPinLogsOut, KickUser, TypeOK
<1>5. ASSUME ForgotPinPressed PROVE TypeOK'
  <2>1. flow' \in [Owners -> Flows]
    BY <1>1, <1>2, <1>5, SetType, FlowFieldType DEF ForgotPinPressed, Alerts
  <2> QED BY <1>5, <2>1 DEF ForgotPinPressed, OnlyFlow, TypeOK
<1>6. ASSUME ForgotPinCancelled PROVE TypeOK'
  <2>1. flow' \in [Owners -> Flows]
    BY <1>1, <1>2, <1>6, SetType, FlowFieldType DEF ForgotPinCancelled, Alerts
  <2> QED BY <1>6, <2>1 DEF ForgotPinCancelled, OnlyFlow, TypeOK
<1>7. ASSUME ForgotPinReset PROVE TypeOK'
  BY <1>7, ReleaseType, StartLogoutType DEF ForgotPinReset, ResetByUser, TypeOK
<1>8. ASSUME PinSheetCancelled PROVE TypeOK'
  <2>1. flow' \in [Owners -> Flows]
    BY <1>1, <1>2, <1>8, SetType, CloseSheetType DEF PinSheetCancelled
  <2> QED BY <1>8, <2>1 DEF PinSheetCancelled, OnlyFlow, TypeOK
<1> QED BY <1>2, <1>3, <1>4, <1>5, <1>6, <1>7, <1>8, ChoosePinType, CheckPinType
        DEF PinEntry

\* A sheet that completes leaves flows and switches.
LEMMA SheetCompletesType ==
  ASSUME TypeOK, SheetCompletes(flow["sheet"])
  PROVE  /\ flow' \in [Owners -> Flows]
         /\ account' \in BOOLEAN /\ running' \in BOOLEAN
<1>1. flow["sheet"] \in Flows
  BY DEF TypeOK, Owners
<1>2. flow' \in [Owners -> Flows]
  BY <1>1, CloseSheetType DEF SheetCompletes, TypeOK
<1> QED BY <1>2 DEF SheetCompletes, TypeOK

\* The callbacks posted with a delay keep the types.
LEMMA DelayedType ==
  ASSUME TypeOK, Delayed PROVE TypeOK'
<1> USE DEF lifecycleVars, accountVars
<1>1. \A o \in Owners : flow[o] \in Flows
  BY DEF TypeOK
<1>2. "lock" \in Owners /\ "sheet" \in Owners
  BY DEF Owners
<1>3. ASSUME PinChosen("sheet") PROVE TypeOK'
  <2>1. prefs' \in Preferences
    <3>1. \A p \in Preferences, pin \in Pins \cup {NoPin} :
            [p EXCEPT !.pin = pin] \in Preferences
      BY DEF Preferences
    <3>2. flow["sheet"].firstPin \in Pins \cup {NoPin}
      BY <1>1, <1>2 DEF Flows
    <3> QED BY <1>3, <3>1, <3>2 DEF PinChosen, TypeOK
  <2>2. late' \subseteq Owners \X Callbacks
    BY <1>3, LateType DEF PinChosen
  <2>3. CASE ForcePinProtection /\ IsBiometricsAvailable
    <3>1. Rerooted(flow["sheet"], "setupBiometricsAfterLogin", "biometrics")
            \in Flows
      BY <1>1, <1>2, ScreenType
         DEF Modes, BiometricsModes, Roots
    <3>2. flow' \in [Owners -> Flows]
      BY <1>2, <1>3, <2>3, <3>1, SetType DEF PinChosen
    <3> QED BY <1>3, <2>1, <2>2, <2>3, <3>2 DEF PinChosen, TypeOK
  <2>4. CASE ~(ForcePinProtection /\ IsBiometricsAvailable)
    <3>1. SheetCompletes(flow["sheet"])
      BY <1>3, <2>4 DEF PinChosen
    <3> QED BY <1>3, <2>1, <2>2, <3>1, SheetCompletesType DEF PinChosen, TypeOK
  <2> QED BY <2>3, <2>4
<1>4. ASSUME PinCompletes PROVE TypeOK'
  <2>1. CASE <<"lock", "complete">> \in late /\ ReleaseLock
             /\ AfterAppUnlocked /\ dialog' = Orphaned(dialog)
             /\ UNCHANGED <<prefs, accountVars, lifecycleVars, tries>>
    BY <2>1, ReleaseType DEF TypeOK
  <2>2. CASE /\ late' = late \ {<<"sheet", "complete">>}
             /\ prefs' = [prefs EXCEPT !.pin =
                   IF flow["sheet"].mode = "confirmPinToDeactivate"
                   THEN NoPin ELSE @]
             /\ SheetCompletes(flow["sheet"])
             /\ UNCHANGED <<logout, lifecycleVars, dialog, auth,
                            tries>>
    <3>1. prefs' \in Preferences
      BY <2>2 DEF TypeOK, Preferences
    <3>2. late' \subseteq Owners \X Callbacks
      BY <2>2, LateType
    <3> QED BY <2>2, <3>1, <3>2, SheetCompletesType DEF TypeOK
  <2> QED BY <1>4, <2>1, <2>2 DEF PinCompletes
<1>5. ASSUME NEW o \in Owners, WipeWrongPin(o) PROVE TypeOK'
  <2>1. flow' \in [Owners -> Flows]
    BY <1>1, <1>5, SetType, FlowFieldType DEF WipeWrongPin
  <2>2. late' \subseteq Owners \X Callbacks
    BY <1>5, LateType DEF WipeWrongPin
  <2> QED BY <1>5, <2>1, <2>2 DEF WipeWrongPin, TypeOK
<1>6. ASSUME FallBackToPin PROVE TypeOK'
  <2>1. Rerooted(flow["lock"], "unlock", "pin") \in Flows
    BY <1>1, <1>2, ScreenType DEF Modes, CheckModes, Roots
  <2>2. flow' \in [Owners -> Flows]
    BY <1>6, <2>1 DEF FallBackToPin, TypeOK
  <2>3. late' \subseteq Owners \X Callbacks
    BY <1>6 DEF FallBackToPin, LateAfterReroot, TypeOK
  <2> QED BY <1>6, <2>2, <2>3 DEF FallBackToPin, TypeOK
<1>7. ASSUME BiometricsSucceed PROVE TypeOK'
  <2>1. prefs' \in Preferences
    <3>1. \A p \in Preferences, b \in BOOLEAN :
            [p EXCEPT !.biometricsEnabled = b] \in Preferences
      BY DEF Preferences
    <3>2. AfterToggle(prefs) \in Preferences
      BY <3>1, PreferencesType DEF AfterToggle, TypeOK
    <3> QED BY <1>7, <3>2, PreferencesType DEF BiometricsSucceed, TypeOK
  <2>2. dialog' \in Dialogs /\ tries' \in Nat
    BY <1>7 DEF BiometricsSucceed, NoDialog, Dialogs
  <2>3. CASE ReleaseLock /\ AfterAppUnlocked /\ UNCHANGED account
    BY <1>7, <2>1, <2>2, <2>3, ReleaseType DEF BiometricsSucceed, TypeOK
  <2>4. CASE UNCHANGED <<flow, late, auth, account, running>>
    BY <1>7, <2>1, <2>2, <2>4 DEF BiometricsSucceed, TypeOK
  <2>5. CASE SheetCompletes(flow["sheet"]) /\ UNCHANGED <<late, auth>>
    BY <1>7, <2>1, <2>2, <2>5, SheetCompletesType DEF BiometricsSucceed, TypeOK
  <2> QED BY <1>7, <2>3, <2>4, <2>5 DEF BiometricsSucceed
<1> QED BY <1>3, <1>4, <1>5, <1>6, <1>7 DEF Delayed

\* The biometrics dialog and its screens keep the types.
LEMMA BiometricsType ==
  ASSUME TypeOK, Biometrics PROVE TypeOK'
<1> USE DEF lifecycleVars, accountVars
<1>1. \A o \in Owners : flow[o] \in Flows
  BY DEF TypeOK
<1>2. "lock" \in Owners /\ "sheet" \in Owners
  BY DEF Owners
<1>3. LockDialog \in Dialogs /\ NoDialog \in Dialogs
  BY DEF LockDialog, NoDialog, Dialogs
<1>4. \A f \in Flows : [flow EXCEPT !["lock"] = f] \in [Owners -> Flows]
  BY <1>2 DEF TypeOK
<1>5. Rerooted(flow["lock"], "unlock", "pin") \in Flows
  BY <1>1, <1>2, ScreenType DEF Modes, CheckModes, Roots
<1>6. ASSUME ToggleBiometricsTapped PROVE TypeOK'
  BY <1>6 DEF ToggleBiometricsTapped, Dialogs, TypeOK
<1>7. ASSUME BiometricsAccepted PROVE TypeOK'
  <2>1. [dialog EXCEPT !.accepted = TRUE] \in Dialogs
    BY DEF Dialogs, TypeOK
  <2> QED BY <1>7, <2>1 DEF BiometricsAccepted, TypeOK
<1>8. ASSUME SheetBiometricsFail PROVE TypeOK'
  BY <1>3, <1>8 DEF SheetBiometricsFail, BiometricsFail, TypeOK
<1>9. /\ AfterBiometricsFailure(prefs) \in Preferences
      /\ WithoutBiometrics(AfterBiometricsFailure(prefs)) \in Preferences
  BY PreferencesType DEF TypeOK
<1>10. ASSUME TooManyFailuresFallBack PROVE TypeOK'
  <2>1. flow' \in [Owners -> Flows]
    BY <1>4, <1>5, <1>10 DEF TooManyFailuresFallBack, TypeOK
  <2>2. late' \subseteq Owners \X Callbacks
    BY <1>10, LateType, <1>2 DEF TooManyFailuresFallBack, TypeOK
  <2> QED BY <1>3, <1>9, <1>10, <2>1, <2>2
          DEF TooManyFailuresFallBack, UnlockBiometricsFail, BiometricsFail, TypeOK
<1>11. ASSUME TooManyFailuresLogOut PROVE TypeOK'
  BY <1>3, <1>11, StartLogoutType
     DEF TooManyFailuresLogOut, UnlockBiometricsFail, BiometricsFail, KickUser,
         TypeOK
<1>12. ASSUME BiometricsCancelled PROVE TypeOK'
  <2>1. late' \subseteq Owners \X Callbacks
    BY <1>2, <1>12, LateType DEF BiometricsCancelled, Callbacks, TypeOK
  <2> QED BY <1>3, <1>9, <1>12, <2>1
          DEF BiometricsCancelled, UnlockBiometricsFail, BiometricsFail, TypeOK
<1>13. \A a \in Alerts : [flow EXCEPT !["lock"].alert = a] \in [Owners -> Flows]
  <2>1. ASSUME NEW a \in Alerts
        PROVE  [flow EXCEPT !["lock"].alert = a]
                 = [flow EXCEPT !["lock"] = [flow["lock"] EXCEPT !.alert = a]]
    BY DEF TypeOK
  <2>2. \A a \in Alerts : [flow["lock"] EXCEPT !.alert = a] \in Flows
    BY <1>1, <1>2, FlowFieldType
  <2> QED BY <1>4, <2>1, <2>2
<1>14. ASSUME BiometricsCantUnlock PROVE TypeOK'
  <2>1. flow' \in [Owners -> Flows]
    BY <1>13, <1>14 DEF BiometricsCantUnlock, Alerts, TypeOK
  <2> QED BY <1>3, <1>9, <1>14, <2>1
          DEF BiometricsCantUnlock, UnlockBiometricsFail, BiometricsFail, TypeOK
<1>15. ASSUME CantUnlockRetry PROVE TypeOK'
  <2>1. flow' \in [Owners -> Flows]
    BY <1>13, <1>15 DEF CantUnlockRetry, Alerts
  <2> QED BY <1>3, <1>15, <2>1 DEF CantUnlockRetry, TypeOK
<1>16. ASSUME CantUnlockReset PROVE TypeOK'
  <2>1. CASE /\ flow' = [flow EXCEPT !["lock"] = Screen("unlock", "pin")]
             /\ late' = LateAfterReroot("lock")
             /\ UNCHANGED <<prefs, accountVars, auth, tries, dialog>>
    <3>1. Screen("unlock", "pin") \in Flows
      BY ScreenType DEF Modes, CheckModes, Roots
    <3> QED BY <1>2, <1>4, <1>16, <2>1, <3>1, LateType
            DEF CantUnlockReset, TypeOK
  <2>2. CASE ResetByUser /\ dialog' = Orphaned(dialog)
    BY <1>16, <2>2, ReleaseType, StartLogoutType
       DEF CantUnlockReset, ResetByUser, TypeOK
  <2> QED BY <1>16, <2>1, <2>2 DEF CantUnlockReset
<1>17. ASSUME BiometricsSheetCancelled PROVE TypeOK'
  BY <1>17, SheetCompletesType DEF BiometricsSheetCancelled, TypeOK
<1> QED BY <1>6, <1>7, <1>8, <1>10, <1>11, <1>12, <1>14, <1>15, <1>16, <1>17
        DEF Biometrics

\* Putting the lock up, or converting it, keeps the types.
LEMMA ShowLockType ==
  ASSUME TypeOK, NEW mode \in Modes, ShowLock(mode)
  PROVE  /\ flow' \in [Owners -> Flows]
         /\ late' \subseteq Owners \X Callbacks
         /\ dialog' \in Dialogs
<1>1. CASE UNCHANGED <<flow, late, dialog>>
  BY <1>1 DEF TypeOK
<1>2. CASE /\ flow' = [flow EXCEPT !["lock"] =
                        Rerooted(flow["lock"], mode, RootFor(mode, prefs))]
           /\ late' = LateAfterReroot("lock")
           /\ dialog' = IF StartsDialog(mode, RootFor(mode, prefs))
                        THEN LockDialog ELSE dialog
  <2>1. flow["lock"] \in Flows
    BY DEF TypeOK, Owners
  <2>2. Rerooted(flow["lock"], mode, RootFor(mode, prefs)) \in Flows
    BY <2>1, ScreenType, RootType
  <2>3. flow' \in [Owners -> Flows]
    BY <1>2, <2>2 DEF TypeOK
  <2>4. dialog' \in Dialogs
    BY <1>2 DEF TypeOK, LockDialog, Dialogs
  <2> QED BY <1>2, <2>3, <2>4, LateType DEF Owners
<1> QED BY <1>1, <1>2 DEF ShowLock

\* Configuring the lock keeps the types.
LEMMA ConfigureType ==
  ASSUME TypeOK, NEW create \in BOOLEAN, ConfigurePinCodeScreen(create)
  PROVE  /\ flow' \in [Owners -> Flows]
         /\ late' \subseteq Owners \X Callbacks
         /\ dialog' \in Dialogs
         /\ auth' \in BOOLEAN
         /\ running' \in BOOLEAN
<1>1. CASE ~ShouldShowPinCode
  BY <1>1, ReleaseType DEF ConfigurePinCodeScreen
<1>2. CASE ShouldShowPinCode /\ ShowLock("unlock")
  BY <1>1, <1>2, ShowLockType
     DEF ConfigurePinCodeScreen, Modes, CheckModes, TypeOK
<1>3. CASE ShouldShowPinCode /\ UNCHANGED <<flow, late, dialog>>
  BY <1>3 DEF ConfigurePinCodeScreen, TypeOK
<1> QED BY <1>1, <1>2, <1>3 DEF ConfigurePinCodeScreen

\* The life cycle keeps the types.
LEMMA LifeCycleType ==
  ASSUME TypeOK, LifeCycle PROVE TypeOK'
<1> USE DEF lifecycleVars, accountVars
<1>1. \A n \in 0..(Grace + 1) : Min(n + 1, Grace + 1) \in 0..(Grace + 1)
  BY LimitAssumption DEF LimitAssumption, Min
<1>2. ASSUME Launch PROVE TypeOK'
  BY <1>2 DEF Launch, AppStates, TypeOK
<1>3. ASSUME LaunchConfigure PROVE TypeOK'
  BY <1>3, ConfigureType DEF LaunchConfigure, TypeOK
<1>4. ASSUME BecomeActive PROVE TypeOK'
  BY <1>4, ConfigureType DEF BecomeActive, AppStates, TypeOK
<1>5. ASSUME ResignActive PROVE TypeOK'
  <2>2. /\ flow' \in [Owners -> Flows]
        /\ late' \subseteq Owners \X Callbacks
        /\ dialog' \in Dialogs
    <3>1. CASE ShowLock("inactive")
      BY <3>1, ShowLockType DEF Modes
    <3>2. CASE UNCHANGED <<flow, late, dialog>>
      BY <3>2 DEF TypeOK
    <3> QED BY <1>5, <3>1, <3>2 DEF ResignActive
  <2>3. away' \in -1..(Grace + 1)
    BY <1>5, LimitAssumption DEF ResignActive, TypeOK, LimitAssumption
  <2> QED BY <1>5, <2>2, <2>3 DEF ResignActive, AppStates, TypeOK
<1>6. ASSUME EnterBackground PROVE TypeOK'
  BY <1>6 DEF EnterBackground, AppStates, TypeOK
<1>7. ASSUME EnterForeground PROVE TypeOK'
  BY <1>7, ConfigureType DEF EnterForeground, AppStates, TypeOK
<1>8. ASSUME Kill PROVE TypeOK'
  <2>1. flow' \in [Owners -> Flows]
    BY <1>8, ClosedType DEF Kill
  <2>2. away' \in -1..(Grace + 1)
    BY <1>8, LimitAssumption DEF Kill, LimitAssumption
  <2> QED BY <1>8, <2>1, <2>2
          DEF Kill, AppStates, TypeOK, NoDialog, Dialogs
<1>9. ASSUME Tick PROVE TypeOK'
  <2>2. away' \in -1..(Grace + 1)
    BY <1>1, <1>9, LimitAssumption DEF Tick, TypeOK, LimitAssumption
  <2> QED BY <1>9, <2>2 DEF Tick, TypeOK
<1> QED BY <1>2, <1>3, <1>4, <1>5, <1>6, <1>7, <1>8, <1>9 DEF LifeCycle

\* Settings, login and logout keep the types.
LEMMA SessionType ==
  ASSUME TypeOK, Session PROVE TypeOK'
<1> USE DEF lifecycleVars, accountVars
<1>1. ASSUME NEW mode \in Modes, OpenSheet(mode) PROVE TypeOK'
  <2>1. Screen(mode, RootFor(mode, prefs)) \in Flows
    BY ScreenType, RootType
  <2>2. flow' \in [Owners -> Flows]
    BY <1>1, <2>1 DEF OpenSheet, TypeOK
  <2> QED BY <1>1, <2>2 DEF OpenSheet, TypeOK
<1>2. ASSUME SwitchToggled PROVE TypeOK'
  <2>1. SettingsModes \subseteq Modes
    BY DEF SettingsModes, Modes, SetModes, CheckModes, BiometricsModes
  <2> QED BY <1>1, <1>2, <2>1 DEF SwitchToggled
<1>3. ASSUME ForcedPinAtLogin PROVE TypeOK'
  BY <1>1, <1>3 DEF ForcedPinAtLogin, Modes, SetModes
<1>4. ASSUME Login PROVE TypeOK'
  BY <1>4 DEF Login, TypeOK
<1>5. ASSUME SignOut PROVE TypeOK'
  BY <1>5, StartLogoutType DEF SignOut, TypeOK
<1>6. ASSUME LogoutFinished PROVE TypeOK'
  <2>1. flow' \in [Owners -> Flows]
    BY <1>6, ClosedType DEF LogoutFinished, ReleaseSheet, TypeOK
  <2>2. late' \subseteq Owners \X Callbacks
    BY <1>6, LateType DEF LogoutFinished, ReleaseSheet
  <2>3. dialog' \in Dialogs
    BY <1>6 DEF LogoutFinished, ReleaseSheet, Dialogs, TypeOK
  <2> QED BY <1>6, <2>1, <2>2, <2>3, PreferencesType DEF LogoutFinished, TypeOK
<1> QED BY <1>2, <1>3, <1>4, <1>5, <1>6 DEF Session

\* The state of the application lock is well typed: what the preferences, the
\* presenters and the system's dialog hold, whatever the constants.
THEOREM TypeCorrect == Spec => []TypeOK
<1>1. ASSUME Init PROVE TypeOK
  <2>1. flow \in [Owners -> Flows]
    BY <1>1, ClosedType DEF Init
  <2>2. away \in -1..(Grace + 1)
    BY <1>1, LimitAssumption DEF Init, LimitAssumption
  <2>3. dialog \in Dialogs
    BY <1>1 DEF Init, NoDialog, Dialogs
  <2> QED BY <1>1, <2>1, <2>2, <2>3, PreferencesType
          DEF Init, TypeOK, AppStates
<1>2. TypeOK /\ [Next]_vars => TypeOK'
  <2> SUFFICES ASSUME TypeOK, [Next]_vars PROVE TypeOK'
    OBVIOUS
  <2>1. CASE UNCHANGED vars
    BY <2>1 DEF TypeOK, vars
  <2> QED BY <2>1, PinEntryType, DelayedType, BiometricsType, LifeCycleType,
             SessionType DEF Next
<1> QED BY <1>1, <1>2, PTL DEF Spec

(***************************************************************************)
(* A credential is behind every completion that is pending.                *)
(***************************************************************************)

\* Releasing the lock leaves nothing of it pending.
LEMMA ReleaseCredential ==
  ASSUME ReleaseLock, TypeOK
  PROVE  CompletionInv'
BY DEF ReleaseLock, CompletionInv, CallbacksOf, Callbacks

\* An orphaned dialog is not the lock's.
LEMMA OrphanedOwner ==
  ASSUME dialog \in Dialogs PROVE Orphaned(dialog).owner # "lock"
BY DEF Orphaned, Dialogs

\* A lock that is put up or converted has no new completion and no answered
\* dialog it had not before.
LEMMA ShowLockCredential ==
  ASSUME TypeOK, CompletionInv, DialogInv, NEW mode, ShowLock(mode),
         auth' = auth
  PROVE  CompletionInv' /\ DialogInv'
BY DEF ShowLock, CompletionInv, DialogInv, LateAfterReroot, LockDialog

\* The same for a lock that is configured.
LEMMA ConfigureCredential ==
  ASSUME TypeOK, CompletionInv, DialogInv, NEW create \in BOOLEAN,
         ConfigurePinCodeScreen(create)
  PROVE  CompletionInv' /\ DialogInv'
<1>1. CASE ~ShouldShowPinCode
  <2>1. ReleaseLock /\ dialog' = Orphaned(dialog)
    BY <1>1 DEF ConfigurePinCodeScreen
  <2> QED BY <2>1, ReleaseCredential, OrphanedOwner DEF DialogInv, TypeOK
<1>2. CASE ShouldShowPinCode /\ ShowLock("unlock")
  BY <1>2, ShowLockCredential DEF ConfigurePinCodeScreen
<1>3. CASE ShouldShowPinCode /\ UNCHANGED <<flow, late, dialog>>
  BY <1>3 DEF ConfigurePinCodeScreen, CompletionInv, DialogInv
<1> QED BY <1>1, <1>2, <1>3 DEF ConfigurePinCodeScreen

\* Every step keeps the completion and the dialog of the lock tied to an
\* accepted credential.
LEMMA CredentialStep ==
  ASSUME TypeOK, CompletionInv, DialogInv, [Next]_vars
  PROVE  CompletionInv' /\ DialogInv'
<1> USE DEF lifecycleVars, accountVars
<1> DEFINE Goal == CompletionInv' /\ DialogInv'
<1> DEFINE Kept == UNCHANGED <<late, dialog, auth>>
<1>0. Kept => Goal
  BY DEF CompletionInv, DialogInv
<1>1. ASSUME NEW o \in Owners, ChoosePin(o) PROVE Goal
  <2>1. ASSUME NEW pin \in Pins, SecondPinMatches(o, pin) PROVE Goal
    BY <2>1 DEF SecondPinMatches, CompletionInv, DialogInv
  <2>2. ASSUME NEW pin \in Pins,
               \/ NotAllowedPinTyped(o, pin) \/ FirstPinTyped(o, pin)
               \/ SecondPinDiffers(o, pin)
        PROVE  Kept
    BY <2>2 DEF NotAllowedPinTyped, FirstPinTyped, SecondPinDiffers, OnlyFlow
  <2>3. ASSUME PinsDontMatchAcknowledged(o) PROVE Kept
    BY <2>3 DEF PinsDontMatchAcknowledged, OnlyFlow
  <2> QED BY <1>0, <1>1, <2>1, <2>2, <2>3 DEF ChoosePin
<1>2. ASSUME NEW o \in Owners, CheckPin(o) PROVE Goal
  <2>1. ASSUME NEW pin \in Pins, RightPinTyped(o, pin) PROVE Goal
    BY <2>1 DEF RightPinTyped, CompletionInv, DialogInv, TypeOK
  <2>2. ASSUME NEW pin \in Pins, WrongPinRetry(o, pin) PROVE Goal
    BY <2>2 DEF WrongPinRetry, CompletionInv, DialogInv
  <2>3. ASSUME NEW pin \in Pins, WrongPinTooManyTimes(o, pin) PROVE Kept
    BY <2>3 DEF WrongPinTooManyTimes
  <2>4. ASSUME TooManyTimesAcknowledged(o) PROVE Kept
    BY <2>4 DEF TooManyTimesAcknowledged, OnlyFlow
  <2> QED BY <1>0, <1>2, <2>1, <2>2, <2>3, <2>4 DEF CheckPin
<1>3. ASSUME NEW o \in Owners, DeleteTapped(o) PROVE Kept
  BY <1>3 DEF DeleteTapped, OnlyFlow
<1>4. ASSUME NEW pin \in Pins, WrongPinLogsOut(pin) PROVE Kept
  BY <1>4 DEF WrongPinLogsOut, KickUser
<1>5. ASSUME \/ ForgotPinPressed \/ ForgotPinCancelled \/ PinSheetCancelled
      PROVE  Kept
  BY <1>5 DEF ForgotPinPressed, ForgotPinCancelled, PinSheetCancelled, OnlyFlow
<1>6. ASSUME ForgotPinReset PROVE Goal
  BY <1>6, ReleaseCredential, OrphanedOwner
     DEF ForgotPinReset, ResetByUser, DialogInv, TypeOK
<1>7. ASSUME PinChosen("sheet") PROVE Goal
  BY <1>7 DEF PinChosen, CompletionInv, DialogInv
<1>8. ASSUME PinCompletes PROVE Goal
  <2>1. CASE ReleaseLock /\ dialog' = Orphaned(dialog)
    BY <2>1, ReleaseCredential, OrphanedOwner DEF DialogInv, TypeOK
  <2>2. CASE /\ late' = late \ {<<"sheet", "complete">>}
             /\ UNCHANGED <<dialog, auth>>
    BY <2>2 DEF CompletionInv, DialogInv
  <2> QED BY <1>8, <2>1, <2>2 DEF PinCompletes
<1>9. ASSUME NEW o \in Owners, WipeWrongPin(o) PROVE Goal
  BY <1>9 DEF WipeWrongPin, CompletionInv, DialogInv
<1>10. ASSUME FallBackToPin PROVE Goal
  BY <1>10 DEF FallBackToPin, LateAfterReroot, CompletionInv, DialogInv
<1>11. ASSUME BiometricsSucceed PROVE Goal
  <2>1. DialogInv'
    BY <1>11 DEF BiometricsSucceed, NoDialog, DialogInv
  <2>2. CASE ReleaseLock
    BY <2>1, <2>2, ReleaseCredential
  <2>3. CASE UNCHANGED <<late, auth>>
    BY <2>1, <2>3 DEF CompletionInv
  <2> QED BY <1>11, <2>2, <2>3 DEF BiometricsSucceed
<1>12. ASSUME ToggleBiometricsTapped PROVE Goal
  BY <1>12 DEF ToggleBiometricsTapped, CompletionInv, DialogInv
<1>13. ASSUME BiometricsAccepted PROVE Goal
  BY <1>13 DEF BiometricsAccepted, CompletionInv, DialogInv, TypeOK, Dialogs
<1>14. ASSUME SheetBiometricsFail PROVE Goal
  BY <1>14 DEF SheetBiometricsFail, BiometricsFail, NoDialog, CompletionInv,
               DialogInv
<1>15. ASSUME TooManyFailuresFallBack PROVE Goal
  BY <1>15 DEF TooManyFailuresFallBack, UnlockBiometricsFail, BiometricsFail,
               NoDialog, LateAfterReroot, CompletionInv, DialogInv
<1>16. ASSUME TooManyFailuresLogOut PROVE Goal
  BY <1>16 DEF TooManyFailuresLogOut, UnlockBiometricsFail, BiometricsFail,
               NoDialog, KickUser, CompletionInv, DialogInv
<1>17. ASSUME BiometricsCancelled PROVE Goal
  BY <1>17 DEF BiometricsCancelled, UnlockBiometricsFail, BiometricsFail,
               NoDialog, CompletionInv, DialogInv
<1>18. ASSUME BiometricsCantUnlock PROVE Goal
  BY <1>18 DEF BiometricsCantUnlock, UnlockBiometricsFail, BiometricsFail,
               NoDialog, CompletionInv, DialogInv
<1>19. ASSUME CantUnlockRetry PROVE Goal
  BY <1>19 DEF CantUnlockRetry, LockDialog, CompletionInv, DialogInv
<1>20. ASSUME CantUnlockReset PROVE Goal
  <2>1. CASE ResetByUser /\ dialog' = Orphaned(dialog)
    BY <2>1, ReleaseCredential, OrphanedOwner DEF ResetByUser, DialogInv, TypeOK
  <2>2. CASE late' = LateAfterReroot("lock") /\ UNCHANGED <<auth, dialog>>
    BY <2>2 DEF LateAfterReroot, CompletionInv, DialogInv
  <2> QED BY <1>20, <2>1, <2>2 DEF CantUnlockReset
<1>21. ASSUME BiometricsSheetCancelled PROVE Kept
  BY <1>21 DEF BiometricsSheetCancelled
<1>22. ASSUME LaunchConfigure \/ BecomeActive \/ EnterForeground PROVE Goal
  BY <1>22, ConfigureCredential DEF LaunchConfigure, BecomeActive, EnterForeground
<1>23. ASSUME Launch \/ EnterBackground \/ Tick PROVE Kept
  BY <1>23 DEF Launch, EnterBackground, Tick
<1>24. ASSUME ResignActive PROVE Goal
  BY <1>0, <1>24, ShowLockCredential DEF ResignActive
<1>25. ASSUME Kill PROVE Goal
  BY <1>25 DEF Kill, NoDialog, CompletionInv, DialogInv
<1>26. ASSUME Session PROVE Goal
  <2>1. ASSUME LogoutFinished PROVE Goal
    BY <2>1 DEF LogoutFinished, ReleaseSheet, CompletionInv, DialogInv, TypeOK,
                Dialogs
  <2>2. ASSUME SwitchToggled \/ ForcedPinAtLogin \/ Login \/ SignOut PROVE Kept
    BY <2>2 DEF SwitchToggled, ForcedPinAtLogin, OpenSheet, Login, SignOut
  <2> QED BY <1>0, <1>26, <2>1, <2>2 DEF Session
<1>27. ASSUME UNCHANGED vars PROVE Kept
  BY <1>27 DEF vars
<1> HIDE DEF Goal, Kept
<1>28. ASSUME PinEntry PROVE Goal
  BY <1>0, <1>1, <1>2, <1>3, <1>4, <1>5, <1>6, <1>28 DEF PinEntry, Owners
<1>29. ASSUME Delayed PROVE Goal
  BY <1>7, <1>8, <1>9, <1>10, <1>11, <1>29 DEF Delayed
<1>30. ASSUME Biometrics PROVE Goal
  BY <1>0, <1>12, <1>13, <1>14, <1>15, <1>16, <1>17, <1>18, <1>19, <1>20,
     <1>21, <1>30 DEF Biometrics
<1>31. ASSUME LifeCycle PROVE Goal
  BY <1>0, <1>22, <1>23, <1>24, <1>25, <1>31 DEF LifeCycle
<1>32. Goal
  BY <1>0, <1>26, <1>27, <1>28, <1>29, <1>30, <1>31 DEF Next
<1> QED BY <1>32 DEF Goal

(***************************************************************************)
(* What can take the lock off the screen.                                  *)
(***************************************************************************)

\* Each condition is a reason LiftedOnlyForAReason accepts, or implies one by
\* CompletionInv and DialogInv.
Lifted ==
  /\ flow'["lock"].mode = "none"
  /\ \/ app' = "killed"
     \/ <<"lock", "complete">> \in late
     \/ dialog.owner = "lock" /\ dialog.accepted
     \/ ~ShouldShowPinCode
     \/ ~IsProtectionSet(prefs')

LockStays == flow'["lock"].mode \in {flow["lock"].mode, "unlock", "inactive"}

\* The fields a keypad changes leave the mode alone.
LEMMA FieldsKeepMode ==
  ASSUME NEW f \in Flows
  PROVE  /\ \A e : [f EXCEPT !.entry = e].mode = f.mode
         /\ \A e, b : [f EXCEPT !.entry = e, !.blocked = b].mode = f.mode
         /\ \A a : [f EXCEPT !.alert = a].mode = f.mode
         /\ \A e, n : [f EXCEPT !.entry = e, !.failures = n].mode = f.mode
         /\ \A e, n, a : [f EXCEPT !.entry = e, !.failures = n,
                                   !.alert = a].mode = f.mode
BY DEF Flows

\* A presenter that is given a flow in the mode it had leaves the lock's mode;
\* so does whatever the sheet is given.
LEMMA SetKeepsLock ==
  ASSUME TypeOK, NEW o \in Owners, NEW f, Set(o, f),
         o = "sheet" \/ f.mode = flow[o].mode
  PROVE  LockStays
BY DEF Set, TypeOK, Owners, LockStays

\* A re-rooted lock is in the mode it was re-rooted to.
LEMMA RerootedLock ==
  ASSUME TypeOK, NEW mode \in {"unlock", "inactive"}, NEW root \in Roots
  PROVE  /\ [flow EXCEPT !["lock"] = Rerooted(flow["lock"], mode, root)]["lock"].mode
               = mode
         /\ [flow EXCEPT !["lock"] = Screen(mode, root)]["lock"].mode = mode
BY DEF TypeOK, Owners, Rerooted, Screen

\* A lock that is put up, or converted, is not lifted.
LEMMA ShowLockStays ==
  ASSUME TypeOK, NEW mode \in {"unlock", "inactive"}, ShowLock(mode)
  PROVE  LockStays
<1>1. CASE UNCHANGED <<flow, late, dialog>>
  BY <1>1 DEF LockStays
<1>2. CASE flow' = [flow EXCEPT !["lock"] =
                      Rerooted(flow["lock"], mode, RootFor(mode, prefs))]
  BY <1>2, RerootedLock, RootType DEF LockStays
<1> QED BY <1>1, <1>2 DEF ShowLock

\* Releasing closes the lock.
LEMMA ReleaseCloses ==
  ASSUME TypeOK, ReleaseLock PROVE flow'["lock"].mode = "none"
BY ClosedType DEF TypeOK, ReleaseLock, Owners

\* A logout leaves nothing to protect.
LEMMA LogoutUnprotects == StartLogout => ~IsProtectionSet(prefs')
BY DEF StartLogout, EmptyPreferences, IsProtectionSet, IsPinSet, IsBiometricsSet

\* A lock that is configured is lifted only if no PIN is asked for.
LEMMA ConfigureStays ==
  ASSUME TypeOK, NEW create \in BOOLEAN, ConfigurePinCodeScreen(create)
  PROVE  LockStays \/ Lifted
<1>1. CASE ~ShouldShowPinCode
  BY <1>1, ReleaseCloses DEF ConfigurePinCodeScreen, Lifted
<1>2. CASE ShouldShowPinCode /\ ShowLock("unlock")
  BY <1>2, ShowLockStays
<1>3. CASE ShouldShowPinCode /\ UNCHANGED <<flow, late, dialog>>
  BY <1>3 DEF LockStays
<1> QED BY <1>1, <1>2, <1>3 DEF ConfigurePinCodeScreen

\* A sheet that completes leaves the lock alone.
LEMMA SheetCompletesStays ==
  ASSUME TypeOK, SheetCompletes(flow["sheet"]) PROVE LockStays
BY DEF TypeOK, SheetCompletes, Owners, LockStays

\* Every step leaves the lock up, in its mode or in one of its two modes, or
\* lifts it for a reason.
LEMMA LockStep ==
  ASSUME TypeOK, [Next]_vars PROVE LockStays \/ Lifted
<1> USE DEF lifecycleVars, accountVars
<1> DEFINE Goal == LockStays \/ Lifted
<1>0. /\ UNCHANGED flow => Goal
      /\ \A o \in Owners : flow[o] \in Flows
      /\ "lock" \in Owners /\ "sheet" \in Owners
  BY DEF LockStays, TypeOK, Owners
<1>1. ASSUME ChoosePin("sheet") PROVE Goal
  <2>1. ASSUME NEW pin \in Pins,
               \/ NotAllowedPinTyped("sheet", pin) \/ FirstPinTyped("sheet", pin)
               \/ SecondPinMatches("sheet", pin) \/ SecondPinDiffers("sheet", pin)
        PROVE  Goal
    BY <1>0, <2>1, SetKeepsLock DEF NotAllowedPinTyped, FirstPinTyped,
       SecondPinMatches, SecondPinDiffers
  <2>2. ASSUME PinsDontMatchAcknowledged("sheet") PROVE Goal
    BY <1>0, <2>2, SetKeepsLock DEF PinsDontMatchAcknowledged
  <2> QED BY <1>1, <2>1, <2>2 DEF ChoosePin
<1>2. ASSUME NEW o \in Owners, CheckPin(o) PROVE Goal
  <2>1. ASSUME NEW pin \in Pins, RightPinTyped(o, pin) PROVE Goal
    BY <1>0, <2>1, SetKeepsLock, FieldsKeepMode DEF RightPinTyped
  <2>2. ASSUME NEW pin \in Pins, WrongPinRetry(o, pin) PROVE Goal
    <3> DEFINE f == [flow[o] EXCEPT !.entry = "full",
                                    !.failures = flow[o].failures + 1]
    <3>1. Set(o, f)
      BY <2>2 DEF WrongPinRetry
    <3>2. f.mode = flow[o].mode
      BY <1>0, FieldsKeepMode
    <3> QED BY <3>1, <3>2, SetKeepsLock
  <2>3. ASSUME NEW pin \in Pins, WrongPinTooManyTimes(o, pin) PROVE Goal
    <3> DEFINE f == [flow[o] EXCEPT !.entry = "partial", !.failures = 0,
                                    !.alert = "tooManyTimes"]
    <3>1. Set(o, f)
      BY <2>3 DEF WrongPinTooManyTimes
    <3>2. f.mode = flow[o].mode
      BY <1>0, FieldsKeepMode
    <3> QED BY <3>1, <3>2, SetKeepsLock
  <2>4. ASSUME TooManyTimesAcknowledged(o) PROVE Goal
    BY <1>0, <2>4, SetKeepsLock, FieldsKeepMode DEF TooManyTimesAcknowledged
  <2> QED BY <1>2, <2>1, <2>2, <2>3, <2>4 DEF CheckPin
<1>3. ASSUME NEW o \in Owners, DeleteTapped(o) PROVE Goal
  <2> DEFINE f == [flow[o] EXCEPT !.entry = "partial", !.blocked = FALSE]
  <2>1. Set(o, f)
    BY <1>3 DEF DeleteTapped
  <2>2. f.mode = flow[o].mode
    BY <1>0, FieldsKeepMode
  <2> QED BY <2>1, <2>2, SetKeepsLock
<1>4. ASSUME NEW pin \in Pins, WrongPinLogsOut(pin) PROVE Goal
  <2> DEFINE f == [flow["lock"] EXCEPT !.entry = "full",
                     !.failures = flow["lock"].failures + 1]
  <2>1. Set("lock", f)
    BY <1>4 DEF WrongPinLogsOut, KickUser, TypeOK, Owners, Set
  <2>2. f.mode = flow["lock"].mode
    BY <1>0, FieldsKeepMode
  <2> QED BY <1>0, <2>1, <2>2, SetKeepsLock
<1>5. ASSUME ForgotPinPressed \/ ForgotPinCancelled PROVE Goal
  BY <1>0, <1>5, SetKeepsLock, FieldsKeepMode
     DEF ForgotPinPressed, ForgotPinCancelled
<1>6. ASSUME PinSheetCancelled PROVE Goal
  BY <1>0, <1>6, SetKeepsLock DEF PinSheetCancelled
<1>7. ASSUME ResetByUser PROVE Goal
  BY <1>7, LogoutUnprotects, ReleaseCloses DEF ResetByUser, Lifted
<1>8. ASSUME PinChosen("sheet") PROVE Goal
  BY <1>0, <1>8, SetKeepsLock, SheetCompletesStays DEF PinChosen
<1>9. ASSUME PinCompletes PROVE Goal
  BY <1>9, ReleaseCloses, SheetCompletesStays DEF PinCompletes, Lifted
<1>10. ASSUME NEW o \in Owners, WipeWrongPin(o) PROVE Goal
  BY <1>0, <1>10, SetKeepsLock, FieldsKeepMode DEF WipeWrongPin
<1>11. [flow EXCEPT !["lock"] = Rerooted(flow["lock"], "unlock", "pin")]
         ["lock"].mode = "unlock"
  BY RerootedLock DEF Roots
<1>12. ASSUME FallBackToPin PROVE Goal
  BY <1>0, <1>11, <1>12 DEF FallBackToPin, LockStays
<1>13. ASSUME BiometricsSucceed PROVE Goal
  BY <1>0, <1>13, ReleaseCloses, SheetCompletesStays
     DEF BiometricsSucceed, Lifted
<1>14. ASSUME TooManyFailuresFallBack PROVE Goal
  BY <1>0, <1>11, <1>14 DEF TooManyFailuresFallBack, LockStays
<1>15. ASSUME \/ ToggleBiometricsTapped \/ BiometricsAccepted
              \/ SheetBiometricsFail \/ TooManyFailuresLogOut
              \/ BiometricsCancelled
       PROVE  Goal
  BY <1>0, <1>15 DEF ToggleBiometricsTapped, BiometricsAccepted,
     SheetBiometricsFail, TooManyFailuresLogOut, KickUser, BiometricsCancelled
<1>16. \A a : [flow EXCEPT !["lock"].alert = a]
               = [flow EXCEPT !["lock"] = [flow["lock"] EXCEPT !.alert = a]]
  BY DEF TypeOK, Owners
<1>17. ASSUME BiometricsCantUnlock \/ CantUnlockRetry PROVE Goal
  <2>1. \A a : flow' = [flow EXCEPT !["lock"] = [flow["lock"] EXCEPT !.alert = a]]
               => Goal
    BY <1>0, SetKeepsLock, FieldsKeepMode DEF Set
  <2> QED BY <1>0, <1>16, <1>17, <2>1 DEF BiometricsCantUnlock, CantUnlockRetry
<1>18. ASSUME CantUnlockReset PROVE Goal
  <2>1. CASE flow' = [flow EXCEPT !["lock"] = Screen("unlock", "pin")]
    BY <2>1, RerootedLock DEF Roots, LockStays
  <2> QED BY <1>7, <1>18, <2>1 DEF CantUnlockReset
<1>19. ASSUME BiometricsSheetCancelled PROVE Goal
  BY <1>19, SheetCompletesStays DEF BiometricsSheetCancelled
<1>20. ASSUME LaunchConfigure \/ BecomeActive \/ EnterForeground PROVE Goal
  BY <1>20, ConfigureStays DEF LaunchConfigure, BecomeActive, EnterForeground
<1>21. ASSUME ResignActive PROVE Goal
  BY <1>0, <1>21, ShowLockStays DEF ResignActive
<1>22. ASSUME Kill PROVE Goal
  BY <1>22, ClosedType DEF Kill, Lifted, Owners
<1>23. ASSUME Launch \/ EnterBackground \/ Tick PROVE Goal
  BY <1>0, <1>23 DEF Launch, EnterBackground, Tick
<1>24. ASSUME Session PROVE Goal
  <2>1. ASSUME NEW mode, OpenSheet(mode) PROVE Goal
    BY <1>0, <2>1, SetKeepsLock DEF OpenSheet, Set
  <2>2. ASSUME LogoutFinished PROVE Goal
    BY <1>0, <2>2, SetKeepsLock DEF LogoutFinished, ReleaseSheet, Set
  <2> QED BY <1>0, <1>24, <2>1, <2>2 DEF Session, SwitchToggled,
             ForcedPinAtLogin, Login, SignOut
<1>25. ASSUME UNCHANGED vars PROVE Goal
  BY <1>0, <1>25 DEF vars
<1> HIDE DEF Goal
<1>26. ASSUME PinEntry PROVE Goal
  BY <1>1, <1>2, <1>3, <1>4, <1>5, <1>6, <1>7, <1>26 DEF PinEntry, ForgotPinReset
<1>27. ASSUME Delayed PROVE Goal
  BY <1>8, <1>9, <1>10, <1>12, <1>13, <1>27 DEF Delayed
<1>28. ASSUME Biometrics PROVE Goal
  BY <1>14, <1>15, <1>17, <1>18, <1>19, <1>28 DEF Biometrics
<1>29. ASSUME LifeCycle PROVE Goal
  BY <1>20, <1>21, <1>22, <1>23, <1>29 DEF LifeCycle
<1>30. Goal
  BY <1>24, <1>25, <1>26, <1>27, <1>28, <1>29 DEF Next
<1> QED BY <1>30 DEF Goal

(***************************************************************************)
(* The chosen PIN that waits to be stored.                                 *)
(***************************************************************************)

SameScreen(g, f) ==
  g.mode = f.mode /\ g.root = f.root /\ g.firstPin = f.firstPin

\* Nothing is posted for the sheet and it does not get the dialog.
NothingNew ==
  /\ \A c \in Callbacks : <<"sheet", c>> \in late' => <<"sheet", c>> \in late
  /\ dialog'.owner = "sheet" => dialog.owner = "sheet"

\* A sheet that stays on its screen with its first PIN, nothing new pending.
LEMMA SheetKept ==
  ASSUME TypeOK, SheetInv, NothingNew, SameScreen(flow'["sheet"], flow["sheet"])
  PROVE  SheetInv'
BY DEF SheetInv, NothingNew, SameScreen, FirstPinInv, PendingPinIsKept,
       CallbacksOf, Callbacks

\* A step that leaves the sheet alone.
LEMMA SheetAlone ==
  ASSUME TypeOK, SheetInv, NothingNew, flow'["sheet"] = flow["sheet"]
  PROVE  SheetInv'
BY SheetKept DEF SameScreen

\* A step that changes the lock leaves the sheet alone.
LEMMA LockLeavesSheet ==
  ASSUME TypeOK
  PROVE  /\ \A f : flow' = [flow EXCEPT !["lock"] = f]
                     => flow'["sheet"] = flow["sheet"]
         /\ ReleaseLock => flow'["sheet"] = flow["sheet"]
         /\ \A mode : ShowLock(mode) => flow'["sheet"] = flow["sheet"]
         /\ \A create : ConfigurePinCodeScreen(create)
                          => flow'["sheet"] = flow["sheet"]
<1>1. \A f : flow' = [flow EXCEPT !["lock"] = f]
               => flow'["sheet"] = flow["sheet"]
  BY DEF TypeOK, Owners
<1>2. ReleaseLock => flow'["sheet"] = flow["sheet"]
  BY <1>1 DEF ReleaseLock
<1>3. ASSUME NEW mode, ShowLock(mode) PROVE flow'["sheet"] = flow["sheet"]
  BY <1>1, <1>3 DEF ShowLock
<1>4. ASSUME NEW create, ConfigurePinCodeScreen(create)
      PROVE  flow'["sheet"] = flow["sheet"]
  BY <1>2, <1>3, <1>4 DEF ConfigurePinCodeScreen
<1> QED BY <1>1, <1>2, <1>3, <1>4

\* The lock's steps post nothing for the sheet and give it no dialog.
LEMMA LockPostsNothing ==
  ASSUME TypeOK
  PROVE  /\ ReleaseLock /\ dialog' = Orphaned(dialog) => NothingNew
         /\ \A mode : ShowLock(mode) => NothingNew
         /\ \A create : ConfigurePinCodeScreen(create) => NothingNew
<1>1. ASSUME ReleaseLock, dialog' = Orphaned(dialog) PROVE NothingNew
  BY <1>1 DEF ReleaseLock, Orphaned, NothingNew, TypeOK, Dialogs
<1>2. ASSUME NEW mode, ShowLock(mode) PROVE NothingNew
  BY <1>2 DEF ShowLock, LateAfterReroot, LockDialog, NothingNew
<1>3. ASSUME NEW create, ConfigurePinCodeScreen(create) PROVE NothingNew
  <2>1. CASE ReleaseLock /\ dialog' = Orphaned(dialog)
    BY <1>1, <2>1
  <2>2. CASE ShowLock("unlock")
    BY <1>2, <2>2
  <2>3. CASE UNCHANGED <<flow, late, dialog>>
    BY <2>3 DEF NothingNew
  <2> QED BY <1>3, <2>1, <2>2, <2>3 DEF ConfigurePinCodeScreen
<1> QED BY <1>1, <1>2, <1>3

\* A sheet that is dismissed keeps its screen, unless it is a login sheet;
\* then nothing that reads it may be pending.
LEMMA SheetDismissed ==
  ASSUME TypeOK, SheetInv, NothingNew,
         flow' = [flow EXCEPT !["sheet"] = CloseSheet(flow["sheet"])],
         flow["sheet"].mode \in LoginModes =>
           /\ <<"sheet", "chosen">> \notin late'
           /\ <<"sheet", "complete">> \notin late'
  PROVE  SheetInv'
<1>1. flow'["sheet"] = CloseSheet(flow["sheet"])
  BY DEF TypeOK, Owners
<1>2. flow["sheet"] \in Flows
  BY DEF TypeOK, Owners
<1>3. CASE flow["sheet"].mode \in LoginModes
  <2>1. flow'["sheet"] = Closed
    BY <1>1, <1>3 DEF CloseSheet
  <2>2. Closed.mode = "none" /\ Closed.firstPin = NoPin
    BY DEF Closed, Screen
  <2> QED BY <1>3, <2>1, <2>2 DEF SheetInv, NothingNew, FirstPinInv,
             PendingPinIsKept, CallbacksOf, Callbacks
<1>4. CASE flow["sheet"].mode \notin LoginModes
  <2>1. SameScreen(flow'["sheet"], flow["sheet"])
    BY <1>1, <1>2, <1>4 DEF CloseSheet, SameScreen, Flows
  <2> QED BY <2>1, SheetKept
<1> QED BY <1>3, <1>4

\* A step that gives presenter o a flow on the screen it was on.
LEMMA SetKeepsSheet ==
  ASSUME TypeOK, SheetInv, NothingNew, NEW o \in Owners, NEW f, Set(o, f),
         SameScreen(f, flow[o])
  PROVE  SheetInv'
<1>1. CASE o = "lock"
  BY <1>1, LockLeavesSheet, SheetAlone DEF Set
<1>2. CASE o = "sheet"
  BY <1>2, SheetKept DEF Set, TypeOK, Owners
<1> QED BY <1>1, <1>2 DEF Owners

\* Choosing a PIN keeps SheetInv.
LEMMA ChoosePinSheet ==
  ASSUME TypeOK, SheetInv, ChoosePin("sheet") PROVE SheetInv'
<1> USE DEF lifecycleVars, accountVars
<1>1. flow["sheet"] \in Flows /\ "sheet" \in Owners
  BY DEF TypeOK, Owners
<1>2. ASSUME NEW pin \in Pins, NotAllowedPinTyped("sheet", pin) PROVE SheetInv'
  <2>1. NothingNew
    BY <1>2 DEF NotAllowedPinTyped, OnlyFlow, NothingNew
  <2>2. SameScreen([flow["sheet"] EXCEPT !.entry = "full", !.blocked = TRUE],
                   flow["sheet"])
    BY <1>1 DEF SameScreen, Flows
  <2> QED BY <1>1, <1>2, <2>1, <2>2, SetKeepsSheet DEF NotAllowedPinTyped
<1>3. ASSUME NEW pin \in Pins, FirstPinTyped("sheet", pin) PROVE SheetInv'
  <2>1. flow'["sheet"] = [flow["sheet"] EXCEPT !.firstPin = pin,
                                               !.blocked = FALSE]
    BY <1>1, <1>3 DEF FirstPinTyped, Set, TypeOK
  <2>2. /\ flow'["sheet"].mode = flow["sheet"].mode
        /\ flow'["sheet"].root = flow["sheet"].root
        /\ flow'["sheet"].firstPin = pin
    BY <1>1, <2>1 DEF Flows
  <2>3. UNCHANGED <<late, dialog>> /\ pin \in Pins \ NotAllowedPINs
    BY <1>3 DEF FirstPinTyped, OnlyFlow
  <2> QED BY <2>2, <2>3 DEF SheetInv, FirstPinInv, PendingPinIsKept
<1>4. ASSUME NEW pin \in Pins, SecondPinMatches("sheet", pin) PROVE SheetInv'
  <2>1. flow'["sheet"] = [flow["sheet"] EXCEPT !.entry = "full"]
    BY <1>1, <1>4 DEF SecondPinMatches, Set, TypeOK
  <2>2. SameScreen(flow'["sheet"], flow["sheet"])
    BY <1>1, <2>1 DEF SameScreen, Flows
  <2>3. late' = late \cup {<<"sheet", "chosen">>} /\ UNCHANGED dialog
    BY <1>4 DEF SecondPinMatches
  <2>4. /\ flow["sheet"].mode \in SetModes /\ flow["sheet"].root = "pin"
        /\ flow["sheet"].firstPin = pin
        /\ dialog.owner # "sheet"
    BY <1>4 DEF SecondPinMatches, CanType, Keypad, IsPresenting
  <2>5. pin \in Pins \ NotAllowedPINs
    BY <2>4, PinAssumption DEF SheetInv, FirstPinInv, PinAssumption
  <2> QED BY <2>2, <2>3, <2>4, <2>5
          DEF SheetInv, FirstPinInv, PendingPinIsKept, SameScreen
<1>5. ASSUME NEW pin \in Pins, SecondPinDiffers("sheet", pin) PROVE SheetInv'
  <2>1. NothingNew
    BY <1>5 DEF SecondPinDiffers, OnlyFlow, NothingNew
  <2>2. SameScreen([flow["sheet"] EXCEPT !.entry = "full",
                                         !.alert = "pinsDontMatch"],
                   flow["sheet"])
    BY <1>1 DEF SameScreen, Flows
  <2> QED BY <1>1, <1>5, <2>1, <2>2, SetKeepsSheet DEF SecondPinDiffers
<1>6. ASSUME PinsDontMatchAcknowledged("sheet") PROVE SheetInv'
  <2>1. flow'["sheet"] = [flow["sheet"] EXCEPT !.alert = "none",
                            !.firstPin = NoPin, !.entry = "partial"]
    BY <1>1, <1>6 DEF PinsDontMatchAcknowledged, Set, TypeOK
  <2>2. /\ flow'["sheet"].mode = flow["sheet"].mode
        /\ flow'["sheet"].firstPin = NoPin
    BY <1>1, <2>1 DEF Flows
  <2>3. late' = {} /\ UNCHANGED dialog
    BY <1>6 DEF PinsDontMatchAcknowledged, Quiet, OnlyFlow
  <2> QED BY <2>2, <2>3 DEF SheetInv, FirstPinInv, PendingPinIsKept
<1> QED BY <1>2, <1>3, <1>4, <1>5, <1>6 DEF ChoosePin

\* Checking a PIN keeps SheetInv.
LEMMA CheckPinSheet ==
  ASSUME TypeOK, SheetInv, NEW o \in Owners, CheckPin(o) PROVE SheetInv'
<1> USE DEF lifecycleVars, accountVars
<1>1. flow[o] \in Flows
  BY DEF TypeOK
<1>2. ASSUME NEW f, Set(o, f), SameScreen(f, flow[o])
      PROVE  SameScreen(flow'["sheet"], flow["sheet"])
  BY <1>2 DEF Set, TypeOK, Owners, SameScreen
<1>3. ASSUME NEW pin \in Pins, RightPinTyped(o, pin) PROVE SheetInv'
  <2>1. Set(o, [flow[o] EXCEPT !.entry = "full"])
    BY <1>3 DEF RightPinTyped
  <2>2. SameScreen([flow[o] EXCEPT !.entry = "full"], flow[o])
    BY <1>1 DEF SameScreen, Flows
  <2>3. SameScreen(flow'["sheet"], flow["sheet"])
    BY <1>2, <2>1, <2>2
  <2>4. late' = late \cup {<<o, "complete">>} /\ UNCHANGED dialog
    BY <1>3 DEF RightPinTyped
  <2>5. /\ flow[o].mode \in CheckModes /\ flow[o].root = "pin"
        /\ dialog.owner # "sheet"
    BY <1>3 DEF RightPinTyped, CheckedPinTyped, CanType, Keypad, IsPresenting
  <2>6. CASE o = "lock"
    BY <2>3, <2>4, <2>6, SheetKept DEF NothingNew
  <2>7. CASE o = "sheet"
    <3>1. flow["sheet"].mode = "confirmPinToDeactivate"
      BY <2>5, <2>7 DEF CheckModes, SheetInv
    <3> QED BY <2>3, <2>4, <2>5, <2>7, <3>1
            DEF SheetInv, FirstPinInv, PendingPinIsKept, SameScreen, SetModes
  <2> QED BY <2>6, <2>7 DEF Owners
<1>4. ASSUME NEW pin \in Pins, WrongPinRetry(o, pin) PROVE SheetInv'
  <2> DEFINE f == [flow[o] EXCEPT !.entry = "full",
                                  !.failures = flow[o].failures + 1]
  <2>1. Set(o, f)
    BY <1>4 DEF WrongPinRetry
  <2>2. SameScreen(f, flow[o])
    BY <1>1 DEF SameScreen, Flows
  <2>3. SameScreen(flow'["sheet"], flow["sheet"])
    BY <1>2, <2>1, <2>2
  <2>4. /\ late' = late \cup {<<o, "wrongPin">>} /\ UNCHANGED dialog
        /\ dialog.owner # "sheet"
    BY <1>4 DEF WrongPinRetry, CountsWrongPin, CheckedPinTyped, CanType, Keypad,
                IsPresenting
  <2> QED BY <2>3, <2>4
          DEF SheetInv, FirstPinInv, PendingPinIsKept, SameScreen
<1>5. ASSUME NEW pin \in Pins, WrongPinTooManyTimes(o, pin) PROVE SheetInv'
  <2> DEFINE f == [flow[o] EXCEPT !.entry = "partial", !.failures = 0,
                                  !.alert = "tooManyTimes"]
  <2>1. Set(o, f) /\ NothingNew
    BY <1>5 DEF WrongPinTooManyTimes, NothingNew
  <2>2. SameScreen(f, flow[o])
    BY <1>1 DEF SameScreen, Flows
  <2> QED BY <2>1, <2>2, SetKeepsSheet
<1>6. ASSUME TooManyTimesAcknowledged(o) PROVE SheetInv'
  <2> DEFINE f == [flow[o] EXCEPT !.alert = "none"]
  <2>1. Set(o, f) /\ NothingNew
    BY <1>6 DEF TooManyTimesAcknowledged, OnlyFlow, NothingNew
  <2>2. SameScreen(f, flow[o])
    BY <1>1 DEF SameScreen, Flows
  <2> QED BY <2>1, <2>2, SetKeepsSheet
<1> QED BY <1>3, <1>4, <1>5, <1>6 DEF CheckPin

\* Every step keeps SheetInv.
LEMMA SheetStep ==
  ASSUME TypeOK, SheetInv, [Next]_vars PROVE SheetInv'
<1> USE DEF lifecycleVars, accountVars
<1>1. \A o \in Owners : flow[o] \in Flows
  BY DEF TypeOK
<1>2. "lock" \in Owners /\ "sheet" \in Owners
  BY DEF Owners
<1>3. ASSUME NEW o \in Owners, DeleteTapped(o) PROVE SheetInv'
  <2> DEFINE f == [flow[o] EXCEPT !.entry = "partial", !.blocked = FALSE]
  <2>1. Set(o, f) /\ NothingNew
    BY <1>3 DEF DeleteTapped, OnlyFlow, NothingNew
  <2>2. SameScreen(f, flow[o])
    BY <1>1 DEF SameScreen, Flows
  <2> QED BY <2>1, <2>2, SetKeepsSheet
<1>4. ASSUME NEW pin \in Pins, WrongPinLogsOut(pin) PROVE SheetInv'
  <2>1. flow'["sheet"] = flow["sheet"] /\ NothingNew
    BY <1>2, <1>4 DEF WrongPinLogsOut, KickUser, NothingNew, TypeOK
  <2> QED BY <2>1, SheetAlone
<1>5. ASSUME ForgotPinPressed \/ ForgotPinCancelled PROVE SheetInv'
  <2>1. flow'["sheet"] = flow["sheet"] /\ NothingNew
    BY <1>5, LockLeavesSheet
       DEF ForgotPinPressed, ForgotPinCancelled, Set, OnlyFlow, NothingNew
  <2> QED BY <2>1, SheetAlone
<1>6. ASSUME ResetByUser, dialog' = Orphaned(dialog) PROVE SheetInv'
  BY <1>6, LockLeavesSheet, LockPostsNothing, SheetAlone DEF ResetByUser
<1>7. ASSUME PinSheetCancelled PROVE SheetInv'
  <2>1. NothingNew
    BY <1>7 DEF PinSheetCancelled, OnlyFlow, NothingNew
  <2>2. /\ <<"sheet", "chosen">> \in late => flow["sheet"].mode \notin LoginModes
        /\ <<"sheet", "complete">> \in late => flow["sheet"].mode \notin LoginModes
    BY <1>7 DEF PinSheetCancelled, SheetInv, SetModes, LoginModes
  <2> QED BY <1>7, <2>1, <2>2, SheetDismissed
          DEF PinSheetCancelled, Set, NothingNew, Callbacks
<1>8. ASSUME PinChosen("sheet") PROVE SheetInv'
  <2>1. /\ late' = late \ {<<"sheet", "chosen">>} /\ UNCHANGED dialog
        /\ <<"sheet", "chosen">> \in late
    BY <1>8 DEF PinChosen
  <2>2. NothingNew /\ dialog.owner # "sheet"
    BY <2>1 DEF NothingNew, SheetInv, CallbacksOf, Callbacks
  <2>3. <<"sheet", "complete">> \notin late
    BY <2>1 DEF SheetInv, SetModes
  <2>4. CASE SheetCompletes(flow["sheet"])
    BY <2>1, <2>2, <2>3, <2>4, SheetDismissed DEF SheetCompletes
  <2>5. CASE Set("sheet", Rerooted(flow["sheet"], "setupBiometricsAfterLogin",
                                   "biometrics"))
    <3>1. /\ flow'["sheet"].mode = "setupBiometricsAfterLogin"
          /\ flow'["sheet"].firstPin = NoPin
      BY <1>2, <2>5 DEF Set, TypeOK, Rerooted, Screen
    <3> QED BY <2>1, <2>2, <2>3, <3>1
            DEF SheetInv, FirstPinInv, PendingPinIsKept
  <2> QED BY <1>8, <2>4, <2>5 DEF PinChosen
<1>9. ASSUME PinCompletes PROVE SheetInv'
  <2>1. CASE ReleaseLock /\ dialog' = Orphaned(dialog)
    BY <2>1, LockLeavesSheet, LockPostsNothing, SheetAlone
  <2>2. CASE /\ <<"sheet", "complete">> \in late
             /\ late' = late \ {<<"sheet", "complete">>}
             /\ SheetCompletes(flow["sheet"])
             /\ UNCHANGED dialog
    <3>1. NothingNew /\ flow["sheet"].mode \notin LoginModes
      BY <2>2 DEF NothingNew, SheetInv, LoginModes
    <3> QED BY <2>2, <3>1, SheetDismissed DEF SheetCompletes
  <2> QED BY <1>9, <2>1, <2>2 DEF PinCompletes
<1>10. ASSUME NEW o \in Owners, WipeWrongPin(o) PROVE SheetInv'
  <2> DEFINE f == [flow[o] EXCEPT !.entry = "partial"]
  <2>1. Set(o, f) /\ NothingNew
    BY <1>10 DEF WipeWrongPin, NothingNew
  <2>2. SameScreen(f, flow[o])
    BY <1>1 DEF SameScreen, Flows
  <2> QED BY <2>1, <2>2, SetKeepsSheet
<1>11. ASSUME FallBackToPin PROVE SheetInv'
  <2>1. flow'["sheet"] = flow["sheet"]
    BY <1>11, LockLeavesSheet DEF FallBackToPin
  <2>2. NothingNew
    BY <1>11 DEF FallBackToPin, LateAfterReroot, NothingNew
  <2> QED BY <2>1, <2>2, SheetAlone
<1>12. ASSUME BiometricsSucceed PROVE SheetInv'
  <2>1. dialog'.owner # "sheet"
    BY <1>12 DEF BiometricsSucceed, NoDialog
  <2>2. CASE ReleaseLock
    <3>1. NothingNew
      BY <2>1, <2>2 DEF ReleaseLock, NothingNew
    <3> QED BY <2>2, <3>1, LockLeavesSheet, SheetAlone
  <2>3. CASE UNCHANGED <<flow, late>>
    BY <2>1, <2>3, SheetAlone DEF NothingNew
  <2>4. CASE /\ SheetCompletes(flow["sheet"]) /\ UNCHANGED late
             /\ dialog.owner = "sheet"
    <3>1. NothingNew
      BY <2>1, <2>4 DEF NothingNew
    <3>2. <<"sheet", "chosen">> \notin late' /\ <<"sheet", "complete">> \notin late'
      BY <2>4 DEF SheetInv, CallbacksOf, Callbacks
    <3> QED BY <2>4, <3>1, <3>2, SheetDismissed DEF SheetCompletes
  <2> QED BY <1>12, <2>2, <2>3, <2>4 DEF BiometricsSucceed
<1>13. ASSUME ToggleBiometricsTapped PROVE SheetInv'
  BY <1>13 DEF ToggleBiometricsTapped, Quiet, SheetInv, FirstPinInv,
               PendingPinIsKept
<1>14. ASSUME BiometricsAccepted PROVE SheetInv'
  BY <1>14, SheetAlone DEF BiometricsAccepted, NothingNew, TypeOK, Dialogs
<1>15. ASSUME SheetBiometricsFail \/ TooManyFailuresLogOut PROVE SheetInv'
  BY <1>15, SheetAlone DEF SheetBiometricsFail, TooManyFailuresLogOut, KickUser,
     UnlockBiometricsFail, BiometricsFail, NoDialog, NothingNew
<1>16. ASSUME TooManyFailuresFallBack PROVE SheetInv'
  <2>1. flow'["sheet"] = flow["sheet"]
    BY <1>16, LockLeavesSheet DEF TooManyFailuresFallBack
  <2>2. NothingNew
    BY <1>16 DEF TooManyFailuresFallBack, UnlockBiometricsFail, BiometricsFail,
       NoDialog, LateAfterReroot, NothingNew
  <2> QED BY <2>1, <2>2, SheetAlone
<1>17. ASSUME BiometricsCancelled PROVE SheetInv'
  BY <1>17, SheetAlone DEF BiometricsCancelled, UnlockBiometricsFail,
     BiometricsFail, NoDialog, NothingNew
<1>18. \A a : [flow EXCEPT !["lock"].alert = a]["sheet"] = flow["sheet"]
  BY DEF TypeOK, Owners
<1>19. ASSUME BiometricsCantUnlock PROVE SheetInv'
  BY <1>18, <1>19, SheetAlone DEF BiometricsCantUnlock, UnlockBiometricsFail,
     BiometricsFail, NoDialog, NothingNew
<1>20. ASSUME CantUnlockRetry PROVE SheetInv'
  BY <1>18, <1>20, SheetAlone DEF CantUnlockRetry, LockDialog, NothingNew
<1>21. ASSUME CantUnlockReset PROVE SheetInv'
  <2>1. CASE /\ flow' = [flow EXCEPT !["lock"] = Screen("unlock", "pin")]
             /\ late' = LateAfterReroot("lock") /\ UNCHANGED dialog
    <3>1. NothingNew
      BY <2>1 DEF LateAfterReroot, NothingNew
    <3> QED BY <2>1, <3>1, LockLeavesSheet, SheetAlone
  <2> QED BY <1>6, <1>21, <2>1 DEF CantUnlockReset
<1>22. ASSUME BiometricsSheetCancelled PROVE SheetInv'
  <2>1. NothingNew
    BY <1>22 DEF BiometricsSheetCancelled, NothingNew
  <2>2. <<"sheet", "chosen">> \notin late' /\ <<"sheet", "complete">> \notin late'
    BY <1>22 DEF BiometricsSheetCancelled, SheetInv
  <2> QED BY <1>22, <2>1, <2>2, SheetDismissed
          DEF BiometricsSheetCancelled, SheetCompletes
<1>23. ASSUME LaunchConfigure \/ BecomeActive \/ EnterForeground PROVE SheetInv'
  <2>1. \E create : ConfigurePinCodeScreen(create)
    BY <1>23 DEF LaunchConfigure, BecomeActive, EnterForeground
  <2> QED BY <2>1, LockLeavesSheet, LockPostsNothing, SheetAlone
<1>24. ASSUME ResignActive PROVE SheetInv'
  <2>1. CASE ShowLock("inactive")
    BY <2>1, LockLeavesSheet, LockPostsNothing, SheetAlone
  <2>2. CASE UNCHANGED <<flow, late, dialog>>
    BY <2>2, SheetAlone DEF NothingNew
  <2> QED BY <1>24, <2>1, <2>2 DEF ResignActive
<1>25. ASSUME Launch \/ EnterBackground \/ Tick PROVE SheetInv'
  BY <1>25, SheetAlone DEF Launch, EnterBackground, Tick, NothingNew
<1>26. ASSUME Kill PROVE SheetInv'
  <2>1. flow'["sheet"] = Closed /\ late' = {} /\ dialog' = NoDialog
    BY <1>26 DEF Kill, Owners
  <2>2. Closed.mode = "none" /\ Closed.firstPin = NoPin
    BY DEF Closed, Screen
  <2> QED BY <2>1, <2>2 DEF NoDialog, SheetInv, FirstPinInv, PendingPinIsKept
<1>27. ASSUME NEW mode, OpenSheet(mode), mode = "setPinAfterLogin" => ForcePinProtection,
              mode # "unlock"
       PROVE  SheetInv'
  <2>1. flow'["sheet"].mode = mode /\ flow'["sheet"].firstPin = NoPin
    BY <1>2, <1>27 DEF OpenSheet, TypeOK, Screen
  <2>2. late' = {} /\ dialog'.owner # "sheet"
    BY <1>27 DEF OpenSheet, Quiet, IsPresenting
  <2> QED BY <1>27, <2>1, <2>2 DEF SheetInv, FirstPinInv, PendingPinIsKept
<1>28. ASSUME Session PROVE SheetInv'
  <2>1. CASE SwitchToggled \/ ForcedPinAtLogin
    <3>1. "setPinAfterLogin" \notin SettingsModes /\ "unlock" \notin SettingsModes
      BY DEF SettingsModes
    <3> QED BY <1>27, <2>1, <3>1 DEF SwitchToggled, ForcedPinAtLogin
  <2>2. CASE Login \/ SignOut
    BY <2>2, SheetAlone DEF Login, SignOut, NothingNew
  <2>3. CASE LogoutFinished
    <3>1. flow'["sheet"] = Closed
      BY <1>2, <2>3 DEF LogoutFinished, ReleaseSheet, TypeOK
    <3>2. Closed.mode = "none" /\ Closed.firstPin = NoPin
      BY DEF Closed, Screen
    <3>3. late' \cap CallbacksOf("sheet") = {} /\ dialog'.owner # "sheet"
      BY <2>3 DEF LogoutFinished, ReleaseSheet, TypeOK, Dialogs
    <3> QED BY <3>1, <3>2, <3>3
            DEF SheetInv, FirstPinInv, PendingPinIsKept, CallbacksOf, Callbacks
  <2> QED BY <1>28, <2>1, <2>2, <2>3 DEF Session
<1>29. ASSUME UNCHANGED vars PROVE SheetInv'
  BY <1>29, SheetAlone DEF vars, NothingNew
<1>30. ASSUME PinEntry PROVE SheetInv'
  BY <1>2, <1>3, <1>4, <1>5, <1>6, <1>7, <1>30, ChoosePinSheet, CheckPinSheet
     DEF PinEntry, ForgotPinReset
<1>31. ASSUME Delayed PROVE SheetInv'
  BY <1>8, <1>9, <1>10, <1>11, <1>12, <1>31 DEF Delayed
<1>32. ASSUME Biometrics PROVE SheetInv'
  BY <1>13, <1>14, <1>15, <1>16, <1>17, <1>19, <1>20, <1>21, <1>22, <1>32
     DEF Biometrics
<1>33. ASSUME LifeCycle PROVE SheetInv'
  BY <1>23, <1>24, <1>25, <1>26, <1>33 DEF LifeCycle
<1> QED BY <1>28, <1>29, <1>30, <1>31, <1>32, <1>33 DEF Next

(***************************************************************************)
(* Wrong tries.                                                            *)
(***************************************************************************)

\* What the writes to the keychain do to the counter of wrong PINs.
LEMMA Counters ==
  ASSUME NEW p \in Preferences
  PROVE  /\ AfterWrongPin(p).numberOfPinFailures = p.numberOfPinFailures + 1
         /\ AfterSuccess(p).numberOfPinFailures = 0
         /\ AfterBiometricsFailure(p).numberOfPinFailures = p.numberOfPinFailures
         /\ WithoutBiometrics(p).numberOfPinFailures = p.numberOfPinFailures
         /\ EmptyPreferences.numberOfPinFailures = 0
BY DEF Preferences, AfterWrongPin, AfterSuccess, AfterBiometricsFailure,
       WithoutBiometrics, EmptyPreferences

\* Every step keeps the tries covered by the counter and below the limit.
LEMMA TriesStep ==
  ASSUME TypeOK, LockModeInv, TriesInv, [Next]_vars PROVE TriesInv'
<1> USE DEF lifecycleVars, accountVars
<1>1. prefs \in Preferences /\ prefs.numberOfPinFailures \in Nat /\ tries \in Nat
  BY DEF TypeOK, Preferences
<1>2. ASSUME tries' = tries,
             prefs'.numberOfPinFailures = prefs.numberOfPinFailures
      PROVE  TriesInv'
  BY <1>2 DEF TriesInv, WrongTriesBounded
<1>3. ASSUME tries' = 0, prefs'.numberOfPinFailures \in Nat
      PROVE  TriesInv'
  BY <1>3, LimitAssumption DEF TriesInv, WrongTriesBounded, LimitAssumption
<1>4. ASSUME UNCHANGED <<prefs, tries>> PROVE TriesInv'
  BY <1>2, <1>4
<1>5. ASSUME StartLogout PROVE TriesInv'
  BY <1>1, <1>3, <1>5, Counters DEF StartLogout
<1>6. ASSUME NEW o \in Owners, NEW pin \in Pins, CountsWrongPin(o, pin),
             ~MustLogOut(o), prefs' = AfterWrongPin(prefs),
             tries' = TriesAfterWrongPin(o)
      PROVE  TriesInv'
  <2>1. prefs'.numberOfPinFailures = prefs.numberOfPinFailures + 1
    BY <1>1, <1>6, Counters
  <2>2. CASE tries' = tries
    BY <1>1, <2>1, <2>2 DEF TriesInv, WrongTriesBounded
  <2>3. CASE tries' = tries + 1 /\ o = "lock"
    <3>1. flow["lock"].mode = "unlock"
      BY <1>6, <2>3 DEF CountsWrongPin, CheckedPinTyped, CheckModes, LockModeInv
    <3>2. LogOutOnPinFailures => prefs'.numberOfPinFailures < MaxPinFailures
      BY <1>1, <1>6, <2>1, <2>3, <3>1, LimitAssumption
         DEF MustLogOut, ShouldLogOutUser, LimitAssumption
    <3> QED BY <1>1, <2>1, <2>3, <3>2, LimitAssumption
            DEF TriesInv, WrongTriesBounded, LimitAssumption
  <2> QED BY <1>6, <2>2, <2>3 DEF TriesAfterWrongPin
<1>7. ASSUME NEW o \in Owners, ChoosePin(o) \/ DeleteTapped(o) PROVE TriesInv'
  BY <1>4, <1>7 DEF ChoosePin, NotAllowedPinTyped, FirstPinTyped,
     SecondPinMatches, SecondPinDiffers, PinsDontMatchAcknowledged, DeleteTapped,
     OnlyFlow
<1>8. ASSUME NEW o \in Owners, CheckPin(o) PROVE TriesInv'
  <2>1. ASSUME NEW pin \in Pins, RightPinTyped(o, pin) PROVE TriesInv'
    BY <1>1, <1>3, <2>1, Counters DEF RightPinTyped
  <2>2. ASSUME NEW pin \in Pins,
               WrongPinRetry(o, pin) \/ WrongPinTooManyTimes(o, pin)
        PROVE  TriesInv'
    BY <1>6, <2>2 DEF WrongPinRetry, WrongPinTooManyTimes
  <2>3. ASSUME TooManyTimesAcknowledged(o) PROVE TriesInv'
    BY <1>4, <2>3 DEF TooManyTimesAcknowledged, OnlyFlow
  <2> QED BY <1>8, <2>1, <2>2, <2>3 DEF CheckPin
<1>9. ASSUME PinEntry PROVE TriesInv'
  <2>1. ASSUME \/ \E pin \in Pins : WrongPinLogsOut(pin)
               \/ ForgotPinReset
        PROVE  TriesInv'
    BY <1>5, <2>1 DEF WrongPinLogsOut, KickUser, ForgotPinReset, ResetByUser
  <2>2. ASSUME ForgotPinPressed \/ ForgotPinCancelled \/ PinSheetCancelled
        PROVE  TriesInv'
    BY <1>4, <2>2
       DEF ForgotPinPressed, ForgotPinCancelled, PinSheetCancelled, OnlyFlow
  <2> QED BY <1>7, <1>8, <1>9, <2>1, <2>2 DEF PinEntry, Owners
<1>10. \A pin : [prefs EXCEPT !.pin = pin].numberOfPinFailures
                  = prefs.numberOfPinFailures
  BY <1>1 DEF Preferences
<1>11. ASSUME PinChosen("sheet") PROVE TriesInv'
  BY <1>2, <1>10, <1>11 DEF PinChosen
<1>12. ASSUME PinCompletes PROVE TriesInv'
  BY <1>2, <1>10, <1>12 DEF PinCompletes
<1>13. ASSUME BiometricsSucceed PROVE TriesInv'
  <2>1. \A p \in Preferences : \A b :
          [p EXCEPT !.biometricsEnabled = b].numberOfPinFailures
            = p.numberOfPinFailures
    BY DEF Preferences
  <2>2. AfterToggle(prefs).numberOfPinFailures = 0
    BY <1>1, <2>1, Counters, PreferencesType DEF AfterToggle
  <2> QED BY <1>1, <1>3, <1>13, <2>2, Counters DEF BiometricsSucceed
<1>14. ASSUME Delayed PROVE TriesInv'
  BY <1>4, <1>11, <1>12, <1>13, <1>14 DEF Delayed, WipeWrongPin, FallBackToPin
<1>15. /\ AfterBiometricsFailure(prefs).numberOfPinFailures
            = prefs.numberOfPinFailures
       /\ WithoutBiometrics(AfterBiometricsFailure(prefs)).numberOfPinFailures
            = prefs.numberOfPinFailures
  BY <1>1, Counters, PreferencesType
<1>16. ASSUME Biometrics PROVE TriesInv'
  <2>1. ASSUME TooManyFailuresFallBack \/ BiometricsCancelled
               \/ BiometricsCantUnlock
        PROVE  TriesInv'
    BY <1>2, <1>15, <2>1
       DEF TooManyFailuresFallBack, BiometricsCancelled, BiometricsCantUnlock
  <2>2. ASSUME TooManyFailuresLogOut \/ CantUnlockReset PROVE TriesInv'
    BY <1>4, <1>5, <2>2
       DEF TooManyFailuresLogOut, KickUser, CantUnlockReset, ResetByUser
  <2>3. ASSUME BiometricsSheetCancelled PROVE TriesInv'
    BY <1>4, <2>3 DEF BiometricsSheetCancelled
  <2>4. ASSUME ToggleBiometricsTapped \/ BiometricsAccepted
               \/ SheetBiometricsFail \/ CantUnlockRetry
        PROVE  TriesInv'
    BY <1>4, <2>4 DEF ToggleBiometricsTapped, BiometricsAccepted,
       SheetBiometricsFail, CantUnlockRetry
  <2> QED BY <1>16, <2>1, <2>2, <2>3, <2>4 DEF Biometrics
<1>17. ASSUME LifeCycle PROVE TriesInv'
  BY <1>4, <1>17 DEF LifeCycle, Launch, LaunchConfigure, BecomeActive,
     ResignActive, EnterBackground, EnterForeground, Kill, Tick
<1>18. ASSUME Session PROVE TriesInv'
  <2>1. ASSUME SignOut PROVE TriesInv'
    BY <1>5, <2>1 DEF SignOut
  <2>2. ASSUME LogoutFinished PROVE TriesInv'
    BY <1>1, <1>3, <2>2, Counters DEF LogoutFinished
  <2> QED BY <1>4, <1>18, <2>1, <2>2 DEF Session, SwitchToggled,
             ForcedPinAtLogin, OpenSheet, Login
<1>19. ASSUME UNCHANGED vars PROVE TriesInv'
  BY <1>4, <1>19 DEF vars
<1> QED BY <1>9, <1>14, <1>16, <1>17, <1>18, <1>19 DEF Next

(***************************************************************************)
(* The theorems.                                                           *)
(***************************************************************************)

\* The inductive invariant, from which the others follow.
THEOREM Invariance == Spec => []IInv
<1>1. ASSUME Init, TypeOK PROVE IInv
  <2>1. Closed.mode = "none" /\ Closed.firstPin = NoPin
    BY DEF Closed, Screen
  <2>2. flow["lock"] = Closed /\ flow["sheet"] = Closed /\ late = {}
        /\ dialog = NoDialog /\ tries = 0 /\ prefs = EmptyPreferences
    BY <1>1 DEF Init, Owners
  <2>3. CompletionInv /\ DialogInv /\ LockModeInv
    BY <2>1, <2>2 DEF CompletionInv, DialogInv, LockModeInv, NoDialog
  <2>4. SheetInv
    BY <2>1, <2>2 DEF SheetInv, FirstPinInv, PendingPinIsKept, NoDialog
  <2>5. TriesInv
    BY <2>2, LimitAssumption
       DEF TriesInv, WrongTriesBounded, LimitAssumption, EmptyPreferences
  <2> QED BY <1>1, <2>3, <2>4, <2>5 DEF IInv
<1>2. ASSUME TypeOK, TypeOK', IInv, [Next]_vars PROVE IInv'
  <2>1. LockModeInv'
    BY <1>2, LockStep DEF IInv, LockStays, Lifted, LockModeInv
  <2> QED BY <1>2, <2>1, CredentialStep, SheetStep, TriesStep DEF IInv
<1> QED BY <1>1, <1>2, TypeCorrect, PTL DEF Spec

\* The lock leaves the screen only for a reason: a credential accepted by the
\* presenter that leaves, no PIN asked for, or nothing left to protect.
THEOREM UnlockSafe == Spec => UnlockNeedsAReason
<1>1. ASSUME IInv, [Next]_vars PROVE [LiftedOnlyForAReason]_vars
  <2>1. LockStays \/ Lifted
    BY <1>1, LockStep DEF IInv
  <2>2. ASSUME LockLifts PROVE Lifted
    BY <2>1, <2>2 DEF LockLifts, LockStays, IsOpen
  <2>3. ASSUME LockLifts PROVE auth \/ ~ShouldShowPinCode \/ ~IsProtectionSet(prefs')
    BY <1>1, <2>2, <2>3 DEF Lifted, LockLifts, IInv, CompletionInv, DialogInv
  <2> QED BY <2>3 DEF LiftedOnlyForAReason
<1> QED BY <1>1, Invariance, PTL DEF Spec, UnlockNeedsAReason

\* With logOutUserWhenPINFailuresExceeded, whatever the limit: kills, covers
\* and fallbacks never allow as many wrong tries in a row as the limit.
THEOREM WrongTries == Spec => []WrongTriesBounded
<1>1. IInv => WrongTriesBounded
  BY DEF IInv, TriesInv
<1> QED BY <1>1, Invariance, PTL

\* The block that stores a chosen PIN finds an allowed PIN to store.
THEOREM PendingPin == Spec => []PendingPinIsKept
<1>1. IInv => PendingPinIsKept
  BY DEF IInv, SheetInv
<1> QED BY <1>1, Invariance, PTL

=============================================================================
