------------------------------- MODULE AppLock -------------------------------
(***************************************************************************)
(* The application around the PIN screens: the UIApplication life cycle in *)
(* LegacyAppDelegate (launch, resign active, background, foreground, kill  *)
(* and relaunch), the security settings that open a PIN sheet, login, and  *)
(* logout.  Composes EnterPinCode and SetupBiometrics into the complete    *)
(* behaviour of the application lock.                                      *)
(***************************************************************************)
EXTENDS EnterPinCode, SetupBiometrics

AppStates == {"killed", "inactive", "active", "background"}

TypeOK ==
  /\ prefs \in Preferences
  /\ account \in BOOLEAN /\ logout \in BOOLEAN
  /\ app \in AppStates
  /\ launching \in BOOLEAN
  /\ away \in -1..(Grace + 1)
  /\ flow \in [Owners -> Flows]
  /\ late \subseteq Owners \X Callbacks
  /\ dialog \in Dialogs
  /\ running \in BOOLEAN
  /\ auth \in BOOLEAN
  /\ tries \in Nat

Init ==
  /\ prefs = EmptyPreferences
  /\ account = FALSE /\ logout = FALSE
  /\ app = "killed" /\ launching = FALSE
  /\ away = -1
  /\ flow = [o \in Owners |-> Closed]
  /\ late = {}
  /\ dialog = NoDialog
  /\ running = FALSE
  /\ auth = FALSE /\ tries = 0

(***************************************************************************)
(* LocalAuthenticationService and configurePinCodeScreenFor.               *)
(***************************************************************************)
ShouldShowPinCode ==
  IsProtectionSet(prefs) /\ account /\ (away = -1 \/ away > Grace)

\* Put the lock up in `mode`, or convert the one that is up; a screen
\* already in that mode is left as it is.
ShowLock(mode) ==
  LET root == RootFor(mode, prefs) IN
  IF flow["lock"].mode = mode
  THEN UNCHANGED <<flow, late, dialog>>
  ELSE /\ flow' = [flow EXCEPT !["lock"] =
                     Rerooted(flow["lock"], mode, root)]
       /\ late' = LateAfterReroot("lock")
       /\ dialog' = IF StartsDialog(mode, root) THEN LockDialog ELSE dialog

ConfigurePinCodeScreen(createIfRequired) ==
  IF ShouldShowPinCode
  THEN /\ IF IsOpen("lock") \/ createIfRequired
          THEN ShowLock("unlock")
          ELSE UNCHANGED <<flow, late, dialog>>
       /\ UNCHANGED <<auth, running>>
  ELSE /\ ReleaseLock
       /\ AfterAppUnlocked
       /\ dialog' = Orphaned(dialog)

(***************************************************************************)
(* The life cycle.                                                         *)
(***************************************************************************)

\* In the foreground the process starts inactive; a push or a background
\* fetch starts it in the background.
Launch ==
  /\ app = "killed"
  /\ app' \in {"inactive", "background"}
  /\ launching' = TRUE
  /\ running' = account
  /\ UNCHANGED <<prefs, accountVars, away, flow, late, dialog, auth,
                 tries>>

\* The block didFinishLaunching posts; it is first in the main queue, so
\* only the activation that belongs to the launch may come before it.
LaunchConfigure ==
  /\ launching
  /\ launching' = FALSE
  /\ ConfigurePinCodeScreen(TRUE)
  /\ UNCHANGED <<prefs, accountVars, app, away, tries>>

BecomeActive ==
  /\ app = "inactive"
  /\ app' = "active"
  /\ ConfigurePinCodeScreen(FALSE)
  /\ UNCHANGED <<prefs, accountVars, launching, away, tries>>

\* The lock becomes (or is put up as) a cover, unless the biometrics dialog
\* is on screen: showing it makes the application resign active.
ResignActive ==
  /\ app = "active" /\ ~launching
  /\ app' = "inactive"
  /\ away' = 0
  /\ IF IsProtectionSet(prefs) /\ ~IsPresenting
     THEN ShowLock("inactive")
     ELSE UNCHANGED <<flow, late, dialog>>
  /\ UNCHANGED <<prefs, accountVars, launching, running, auth, tries>>

EnterBackground ==
  /\ app = "inactive" /\ ~launching
  /\ app' = "background"
  /\ running' = FALSE
  /\ UNCHANGED <<prefs, accountVars, launching, away, flow, late, dialog,
                 auth, tries>>

EnterForeground ==
  /\ app = "background" /\ ~launching
  /\ app' = "inactive"
  /\ ConfigurePinCodeScreen(FALSE)
  /\ UNCHANGED <<prefs, accountVars, launching, away, tries>>

\* The process ends, at any moment; only the keychain and the account stay.
Kill ==
  /\ app # "killed"
  /\ app' = "killed"
  /\ launching' = FALSE /\ away' = -1
  /\ logout' = FALSE
  /\ flow' = [o \in Owners |-> Closed]
  /\ late' = {} /\ dialog' = NoDialog
  /\ running' = FALSE /\ auth' = FALSE
  /\ UNCHANGED <<prefs, account, tries>>

Min(a, b) == IF a < b THEN a ELSE b

\* A second passes; callbacks due in 0.1 s are only overtaken while the
\* process is suspended.
Tick ==
  /\ app # "killed"
  /\ Quiet \/ app = "background"
  /\ away' = IF away = -1 THEN -1 ELSE Min(away + 1, Grace + 1)
  /\ UNCHANGED <<prefs, accountVars, app, launching, flow, late, dialog,
                 running, auth, tries>>

(***************************************************************************)
(* Settings, login, logout.                                                *)
(***************************************************************************)
InUse == app = "active" /\ ~launching /\ ~IsOpen("lock") /\ account

SettingsModes ==
  (IF ForcePinProtection THEN {}
   ELSE {IF IsPinSet(prefs) THEN "confirmPinToDeactivate" ELSE "setPin"})
  \cup
  (IF ~IsBiometricsAvailable THEN {}
   ELSE {IF IsBiometricsSet(prefs) THEN "confirmBiometricsToDeactivate"
         ELSE "setupBiometricsFromSettings"})

OpenSheet(mode) ==
  /\ ~flow["sheet"].shown
  /\ Quiet /\ ~IsPresenting
  /\ flow' = [flow EXCEPT !["sheet"] = Screen(mode, RootFor(mode, prefs))]
  /\ UNCHANGED <<prefs, accountVars, lifecycleVars, late, dialog, running,
                 auth, tries>>

SwitchToggled ==
  /\ InUse
  /\ \E mode \in SettingsModes : OpenSheet(mode)

\* onSuccessfulLogin: with a forced PIN the account waits for the PIN.
ForcedPinAtLogin ==
  /\ app = "active" /\ ~IsOpen("lock") /\ ~account
  /\ ForcePinProtection
  /\ OpenSheet("setPinAfterLogin")

Login ==
  /\ app = "active" /\ ~IsOpen("lock") /\ ~account /\ Quiet
  /\ ~ForcePinProtection /\ ~flow["sheet"].shown
  /\ account' = TRUE /\ running' = TRUE
  /\ UNCHANGED <<prefs, logout, lifecycleVars, flow, late, dialog,
                 auth, tries>>

\* "Sign out" in the settings.
SignOut ==
  /\ InUse /\ Quiet
  /\ ~flow["sheet"].shown
  /\ StartLogout
  /\ UNCHANGED <<account, lifecycleVars, flow, late, dialog,
                 running, auth>>

\* logoutWithCompletion: the request ended, with success or not (it is not
\* retried).  The account is removed; with the last one the preferences are
\* reset once more, and the login screen replaces everything but the lock.
LogoutFinished ==
  /\ logout
  /\ logout' = FALSE
  /\ account' = FALSE
  /\ running' = FALSE
  /\ prefs' = EmptyPreferences /\ tries' = 0
  /\ ReleaseSheet
  /\ UNCHANGED <<lifecycleVars, auth>>

(***************************************************************************)
(* The specification.                                                      *)
(***************************************************************************)
ChoosePin(o) ==
  \/ \E pin \in Pins : \/ NotAllowedPinTyped(o, pin)
                       \/ FirstPinTyped(o, pin)
                       \/ SecondPinMatches(o, pin)
                       \/ SecondPinDiffers(o, pin)
  \/ PinsDontMatchAcknowledged(o)

CheckPin(o) ==
  \/ \E pin \in Pins : \/ RightPinTyped(o, pin)
                       \/ WrongPinRetry(o, pin)
                       \/ WrongPinTooManyTimes(o, pin)
  \/ TooManyTimesAcknowledged(o)

PinEntry ==
  \/ \E o \in Owners : DeleteTapped(o) \/ CheckPin(o)
  \/ ChoosePin("sheet")
  \/ \E pin \in Pins : WrongPinLogsOut(pin)
  \/ ForgotPinPressed \/ ForgotPinCancelled \/ ForgotPinReset
  \/ PinSheetCancelled

Delayed ==
  \/ PinChosen("sheet")
  \/ PinCompletes
  \/ \E o \in Owners : WipeWrongPin(o)
  \/ FallBackToPin
  \/ BiometricsSucceed

Biometrics ==
  \/ ToggleBiometricsTapped \/ BiometricsAccepted
  \/ SheetBiometricsFail
  \/ TooManyFailuresFallBack \/ TooManyFailuresLogOut
  \/ BiometricsCancelled \/ BiometricsCantUnlock
  \/ CantUnlockRetry \/ CantUnlockReset
  \/ BiometricsSheetCancelled

LifeCycle ==
  \/ Launch \/ LaunchConfigure
  \/ BecomeActive \/ ResignActive \/ EnterBackground \/ EnterForeground
  \/ Kill \/ Tick

Session ==
  \/ SwitchToggled \/ ForcedPinAtLogin \/ Login \/ SignOut
  \/ LogoutFinished

Next == PinEntry \/ Delayed \/ Biometrics \/ LifeCycle \/ Session

Spec == Init /\ [][Next]_vars

\* The main queue runs what was posted to it, and a request ends.  Nothing
\* is asked of the user or of the system.
Fairness ==
  /\ WF_vars(PinCompletes)
  /\ WF_vars(FallBackToPin)
  /\ WF_vars(BiometricsSucceed)
  /\ WF_vars(LaunchConfigure)
  /\ WF_vars(LogoutFinished)

FairSpec == Spec /\ Fairness

(***************************************************************************)
(* Properties.                                                             *)
(***************************************************************************)

\* The lock leaves the screen only after a credential was accepted by this
\* very presenter, or on an activation that asks for no PIN (within the
\* grace time of the last resign, or nothing to protect), or with the reset
\* of the protection itself -- whatever callbacks, dialogs, conversions to
\* the inactive cover and kills happened since it was put up.
LockLifts ==
  IsOpen("lock") /\ flow'["lock"].mode = "none" /\ app' # "killed"

LiftedOnlyForAReason ==
  LockLifts => auth \/ ~ShouldShowPinCode \/ ~IsProtectionSet(prefs')

UnlockNeedsAReason == [][LiftedOnlyForAReason]_vars

\* With logOutUserWhenPINFailuresExceeded, the PIN set is never tried wrongly
\* to unlock maxAllowedNumberOfPinFailures times in a row with the user still
\* logged in: kills, relaunches, covers and fallbacks do not restart it.
WrongTriesBounded == LogOutOnPinFailures => tries < MaxPinFailures

\* "Biometrics may not be used to unlock" is only ever recorded with a PIN to
\* fall back on; without one, isProtectionSet would turn false and the lock
\* the user still has switched on would silently stop being shown.
BiometricsSuspendedOnlyWithPin ==
  prefs.biometricsEnabled /\ ~prefs.canUseBiometricsToUnlock => IsPinSet(prefs)

\* While the application is active and a protected account is locked there
\* is something to answer on screen: a keypad, the biometrics dialog, its
\* alert, or the PIN screen about to come.
LockIsAnswerable ==
  (app = "active" /\ IsOpen("lock") /\ IsProtectionSet(prefs)) =>
    \/ flow["lock"].mode = "unlock" /\ flow["lock"].root = "pin"
    \/ dialog.owner = "lock"
    \/ flow["lock"].alert = "cantUnlock"
    \/ <<"lock", "biometricsCancelled">> \in late

\* The block that stores a chosen PIN reads firstPin when it runs, 0.1 s after
\* the PIN was typed for the second time.  Until then, whatever is tapped,
\* the sheet still holds a PIN the build allows: no empty PIN is ever stored.
PendingPinIsKept ==
  <<"sheet", "chosen">> \in late =>
    flow["sheet"].firstPin \in Pins \ NotAllowedPINs

\* A credential the lock accepted does lift it: the 0.1 s callback survives
\* covers, further taps and the replacement of the screen that posted it.
AcceptedCredentialUnlocks == auth ~> ~IsOpen("lock")

\* A lock that may not use biometrics does not stay on the biometrics screen
\* while there is a PIN: the coordinator gets to the PIN screen, unless the
\* end of a logout takes the PIN away first.
BiometricsFallsBackToPin ==
  (flow["lock"].mode = "unlock" /\ IsPinSet(prefs) /\ ~IsBiometricsSet(prefs))
    ~> \/ flow["lock"].mode # "unlock"
       \/ flow["lock"].root = "pin"
       \/ ~IsPinSet(prefs)

(***************************************************************************)
(* The inductive invariant behind the safety properties.                   *)
(***************************************************************************)

\* A pending completion of the lock comes from an accepted PIN.
CompletionInv == <<"lock", "complete">> \in late => auth

\* A dialog of the lock that was answered is an accepted credential.
DialogInv == dialog.owner = "lock" /\ dialog.accepted => auth

\* The lock is only ever put up to unlock, or as a cover.
LockModeInv == flow["lock"].mode \in {"none", "unlock", "inactive"}

\* A first PIN is one the build allows.
FirstPinInv == flow["sheet"].firstPin \in (Pins \ NotAllowedPINs) \cup {NoPin}

\* While a sheet's callback is pending the sheet is on the screen that posted
\* it, and no dialog of the sheet is shown; a login sheet is a forced one.
SheetInv ==
  /\ FirstPinInv
  /\ PendingPinIsKept
  /\ <<"sheet", "chosen">> \in late => /\ flow["sheet"].mode \in SetModes
                                       /\ flow["sheet"].root = "pin"
  /\ <<"sheet", "complete">> \in late =>
       /\ flow["sheet"].mode = "confirmPinToDeactivate"
       /\ flow["sheet"].root = "pin"
  /\ dialog.owner = "sheet" => late \cap CallbacksOf("sheet") = {}
  /\ flow["sheet"].mode = "setPinAfterLogin" => ForcePinProtection
  /\ flow["sheet"].mode # "unlock"

\* The persistent counter covers the tries remembered by the history variable.
TriesInv == /\ tries <= prefs.numberOfPinFailures
            /\ WrongTriesBounded

\* The conjunction is inductive: AppLock_proofs shows that every step from a
\* state that satisfies it, reachable or not, satisfies it again.
IInv == /\ TypeOK
        /\ CompletionInv
        /\ DialogInv
        /\ LockModeInv
        /\ SheetInv
        /\ TriesInv

(***************************************************************************)
(* What a comment or a message of the code says and the code does not do.  *)
(***************************************************************************)

\* "Restart any tasks that were paused (or not yet started) while the
\* application was inactive": in use, the account's sessions are resumed.
InUseMeansRestarted == InUse /\ late = {} => running

=============================================================================
