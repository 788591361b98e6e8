----------------------------- MODULE SetPinFlow -----------------------------
(***************************************************************************)
(* The PIN screens: SetPinCoordinator with its child screens, the view     *)
(* models EnterPinCodeViewModel and SetupBiometricsViewModel, and the      *)
(* bridge presenters that own a coordinator.                               *)
(*                                                                         *)
(* Two presenters exist in the application and may exist together:         *)
(*   "lock"   owned by LegacyAppDelegate, laid over the window;            *)
(*   "sheet"  owned by the security settings (or, with a forced PIN, by    *)
(*            the login screen), a modal screen.                           *)
(*                                                                         *)
(* Everything runs on the main thread.  What makes the component hard is   *)
(* what is left for later: three callbacks are posted with a delay of      *)
(* 0.1 s (asyncAfter) and find whatever the screens have become by then.   *)
(* `late` holds those callbacks.  Replacing the root screen of a           *)
(* coordinator does not cancel them (childCoordinators is never pruned);   *)
(* releasing the presenter does (every delegate is weak).                  *)
(***************************************************************************)
EXTENDS PinCodePreferences

VARIABLES
  prefs,     \* the keychain (persistent)
  account,   \* is there an active Matrix account (persistent)
  logout,    \* MXKAccountManager's logout request is in flight
  app,       \* UIApplication state, or "killed"
  launching, \* the block posted by didFinishLaunching has not run yet
  away,      \* seconds since the last willResignActive; -1: none yet
  flow,      \* [Owners -> Flows], the two presenters and their screens
  late,      \* delayed callbacks not run yet, a set of <<owner, callback>>
  dialog,    \* the system biometrics dialog; owner "none" when not shown
  running,   \* are the account's sessions resumed
  \* History variables: the properties speak of them, the code has none.
  auth,      \* a credential was accepted by the lock now presented
  tries      \* wrong PINs typed to unlock since the last success

Owners == {"lock", "sheet"}

vars == <<prefs, account, logout, app, launching, away, flow, late, dialog,
          running, auth, tries>>

lifecycleVars == <<app, launching, away>>
accountVars   == <<account, logout>>

(***************************************************************************)
(* Screens.                                                                *)
(***************************************************************************)
SetModes == {"setPin", "setPinAfterLogin"}

BiometricsModes == {"setupBiometricsAfterLogin", "setupBiometricsFromSettings",
                    "confirmBiometricsToDeactivate"}

CheckModes == {"unlock", "confirmPinToDeactivate"}

Modes == SetModes \cup BiometricsModes \cup CheckModes \cup {"inactive"}

LoginModes == {"setPinAfterLogin", "setupBiometricsAfterLogin"}

Alerts == {"none", "pinsDontMatch", "forgotPin", "tooManyTimes", "cantUnlock"}

Callbacks == {"complete", "chosen", "wrongPin", "biometricsCancelled"}

\* entry: fewer than four digits typed ("partial") or all four ("full").
\* blocked: the view model left its mode for notAllowedPin.
\* shown: still on screen; the settings keep a presenter they dismissed.
Flows ==
  [mode : Modes \cup {"none"}, root : {"pin", "biometrics"},
   entry : {"partial", "full"}, firstPin : Pins \cup {NoPin},
   failures : Nat, blocked : BOOLEAN,
   alert : Alerts, shown : BOOLEAN]

\* orphan, sheetOrphan: the lock or sheet that asked for the dialog is gone.
Dialogs ==
  [owner : {"none", "lock", "sheet", "orphan", "sheetOrphan"},
   accepted : BOOLEAN]

NoDialog == [owner |-> "none", accepted |-> FALSE]

LockDialog == [owner |-> "lock", accepted |-> FALSE]

IsPresenting == dialog.owner # "none"

\* getRootCoordinator
RootFor(mode, p) ==
  IF mode \in BiometricsModes \/ (mode = "unlock" /\ IsBiometricsSet(p))
  THEN "biometrics" ELSE "pin"

Screen(mode, root) ==
  [mode |-> mode, root |-> root, entry |-> "partial", firstPin |-> NoPin,
   failures |-> 0, blocked |-> FALSE, alert |-> "none", shown |-> TRUE]

Closed == [Screen("none", "pin") EXCEPT !.shown = FALSE]

IsOpen(o) == flow[o].mode # "none"

\* A new root screen replaces the one on screen; an alert the old one
\* presented stays, it belongs to the navigation controller.
Rerooted(f, mode, root) == [Screen(mode, root) EXCEPT !.alert = f.alert]

CallbacksOf(o) == {<<o, c>> : c \in Callbacks}

\* Mutant of LateAfterReroot: a new root cancels every callback.
LateAfterRerootCancelsAll(o) == late \ CallbacksOf(o)

\* What stays pending when o's root screen is replaced: the delayed wipe of
\* a wrong PIN only concerns the digits of the screen that posted it.
LateAfterReroot(o) == late \ {<<o, "wrongPin">>}

\* The delays are 0.1 s.  A new screen, an alert or the system's dialog takes
\* longer to come up and be answered, so a user acts on those only when no
\* callback is pending; taps on a keypad already on screen, and what the
\* system does to the application, may come in between.
Quiet == late = {} /\ ~dialog.accepted /\ ~launching

\* A new root screen in unlock mode starts the biometrics dialog as soon as
\* it is loaded, unless one is already shown anywhere in the process.
StartsDialog(mode, root) ==
  mode = "unlock" /\ root = "biometrics" /\ ~IsPresenting

(***************************************************************************)
(* The owners' side of a flow: SetPinCoordinatorBridgePresenterDelegate.   *)
(***************************************************************************)

\* afterAppUnlockedByPin: the account's sessions resume.
AfterAppUnlocked == running' = account

\* Mutant of ReleaseLock: the view models keep their delegates.
ReleaseLockKeepsCallbacks ==
  /\ flow' = [flow EXCEPT !["lock"] = Closed]
  /\ auth' = FALSE
  /\ UNCHANGED late

\* The lock's presenter is dismissed and released: its callbacks find their
\* delegates gone, its dialog reports to a view model nobody listens to.
ReleaseLock ==
  /\ flow' = [flow EXCEPT !["lock"] = Closed]
  /\ late' = late \ CallbacksOf("lock")
  /\ auth' = FALSE

Orphaned(d) == IF d.owner = "lock" THEN [d EXCEPT !.owner = "orphan"] ELSE d

\* logoutSendingRequestServer: the preferences are reset at once, the
\* account goes when the request ends.
StartLogout ==
  /\ prefs' = EmptyPreferences
  /\ logout' = account
  /\ tries' = 0

\* The settings and their sheet go from the screen and are released.
ReleaseSheet ==
  /\ flow' = [flow EXCEPT !["sheet"] = Closed]
  /\ late' = late \ CallbacksOf("sheet")
  /\ dialog' = IF dialog.owner = "sheet"
               THEN [dialog EXCEPT !.owner = "sheetOrphan"] ELSE dialog

\* LegacyAppDelegate, CompleteWithReset because of too many errors: an alert
\* and a logout; the lock is not dismissed.
KickUser(newFlow) ==
  /\ StartLogout
  /\ flow' = newFlow
  /\ UNCHANGED <<account, late, auth>>

\* LegacyAppDelegate, CompleteWithReset asked by the user.
ResetByUser ==
  /\ StartLogout
  /\ ReleaseLock
  /\ UNCHANGED account

\* The sheet's owner on DidComplete.  Settings hide it and keep the
\* presenter; the login screen releases it and opens the account.
CloseSheet(f) ==
  IF f.mode \in LoginModes THEN Closed
  ELSE [f EXCEPT !.shown = FALSE, !.alert = "none"]

SheetCompletes(f) ==
  /\ flow' = [flow EXCEPT !["sheet"] = CloseSheet(f)]
  /\ account' = (account \/ f.mode \in LoginModes)
  /\ running' = (running \/ f.mode \in LoginModes)

=============================================================================
