-------------------------- MODULE SetupBiometrics ---------------------------
(***************************************************************************)
(* SetupBiometricsViewModel and BiometricsAuthenticationPresenter, with    *)
(* what SetPinCoordinator and the presenter's owner do in the same call.   *)
(* The system's dialog is shown once per process (isPresenting, a static   *)
(* flag).  It belongs to the view model that asked for it: when the lock   *)
(* (the sheet) is gone meanwhile the dialog is an orphan: its result       *)
(* still changes the keychain and is reported to nobody.                   *)
(***************************************************************************)
EXTENDS SetPinFlow

\* enableDisableTapped on a biometrics sheet.
ToggleBiometricsTapped ==
  /\ app = "active" /\ Quiet
  /\ flow["sheet"].shown
  /\ flow["sheet"].root = "biometrics"
  /\ ~IsOpen("lock")
  /\ ~IsPresenting
  /\ dialog' = [owner |-> "sheet", accepted |-> FALSE]
  /\ UNCHANGED <<prefs, accountVars, lifecycleVars, flow, late, running,
                 auth, tries>>

\* The system recognises the user; the code waits 0.1 s before it goes on.
BiometricsAccepted ==
  /\ IsPresenting
  /\ Quiet
  /\ app \in {"active", "inactive"}
  /\ dialog' = [dialog EXCEPT !.accepted = TRUE]
  /\ auth' = (auth \/ dialog.owner = "lock")
  /\ UNCHANGED <<prefs, accountVars, lifecycleVars, flow, late, running,
                 tries>>

\* setupBiometricsCoordinatorDidComplete: what the sheet was for.
AfterToggle(p) ==
  [AfterSuccess(p) EXCEPT !.biometricsEnabled =
     flow["sheet"].mode # "confirmBiometricsToDeactivate"]

BiometricsSucceed ==
  /\ dialog.accepted
  /\ app # "killed"
  /\ dialog' = NoDialog
  /\ tries' = 0
  /\ \/ /\ dialog.owner = "lock"
        /\ prefs' = AfterSuccess(prefs)
        /\ ReleaseLock
        /\ AfterAppUnlocked
        /\ UNCHANGED account
     \/ /\ dialog.owner \in {"orphan", "sheetOrphan"}
        /\ prefs' = AfterSuccess(prefs)
        /\ UNCHANGED <<flow, late, auth, account, running>>
     \/ /\ dialog.owner = "sheet"
        /\ prefs' = AfterToggle(prefs)
        /\ SheetCompletes(flow["sheet"])
        /\ UNCHANGED <<late, auth>>
  /\ UNCHANGED <<logout, lifecycleVars>>

\* A refused or interrupted dialog; a sheet ignores it.
BiometricsFail ==
  /\ IsPresenting
  /\ Quiet
  /\ app # "killed"
  /\ prefs.numberOfBiometricsFailures < FailureBound
  /\ dialog' = NoDialog

SheetBiometricsFail ==
  /\ BiometricsFail
  /\ dialog.owner \in {"sheet", "sheetOrphan"}
  /\ UNCHANGED <<prefs, accountVars, lifecycleVars, flow, late, running,
                 auth, tries>>

UnlockBiometricsFail ==
  /\ BiometricsFail
  /\ dialog.owner \in {"lock", "orphan"}

TooManyFailures == ShouldLogOutUser(AfterBiometricsFailure(prefs))

\* Mutant of TooManyFailuresFallBack: biometrics are suspended, the PIN
\* screen is not shown.
TooManyFailuresStay ==
  /\ UnlockBiometricsFail
  /\ TooManyFailures
  /\ dialog.owner = "orphan" \/ (flow["lock"].mode = "unlock" /\ IsPinSet(prefs))
  /\ prefs' = WithoutBiometrics(AfterBiometricsFailure(prefs))
  /\ UNCHANGED <<accountVars, lifecycleVars, flow, late, running, auth, tries>>

\* Too many failures and a PIN to fall back on: the coordinator shows the
\* PIN screen instead of passing the reset on.
TooManyFailuresFallBack ==
  /\ UnlockBiometricsFail
  /\ TooManyFailures
  /\ prefs' = WithoutBiometrics(AfterBiometricsFailure(prefs))
  /\ \/ /\ dialog.owner = "lock"
        /\ flow["lock"].mode = "unlock" /\ IsPinSet(prefs)
        /\ flow' = [flow EXCEPT !["lock"] =
                      Rerooted(flow["lock"], "unlock", "pin")]
        /\ late' = LateAfterReroot("lock")
     \/ /\ dialog.owner = "orphan"
        /\ UNCHANGED <<flow, late>>
  /\ UNCHANGED <<accountVars, lifecycleVars, running, auth, tries>>

TooManyFailuresLogOut ==
  /\ UnlockBiometricsFail
  /\ TooManyFailures
  /\ dialog.owner = "lock"
  /\ ~(flow["lock"].mode = "unlock" /\ IsPinSet(prefs))
  /\ KickUser(flow)
  /\ UNCHANGED <<lifecycleVars, running>>

\* Mutant of BiometricsCancelled: with or without a PIN.
BiometricsCancelledWithoutPin ==
  /\ UnlockBiometricsFail
  /\ ~TooManyFailures
  /\ prefs' = WithoutBiometrics(AfterBiometricsFailure(prefs))
  /\ late' = IF dialog.owner = "lock"
             THEN late \cup {<<"lock", "biometricsCancelled">>} ELSE late
  /\ UNCHANGED <<accountVars, lifecycleVars, flow, running, auth, tries>>

\* userCancel or userFallback, with a PIN set: biometrics are off until the
\* next success, the PIN screen comes 0.1 s later.
BiometricsCancelled ==
  /\ UnlockBiometricsFail
  /\ ~TooManyFailures
  /\ IsPinSet(prefs)
  /\ prefs' = WithoutBiometrics(AfterBiometricsFailure(prefs))
  /\ late' = IF dialog.owner = "lock"
             THEN late \cup {<<"lock", "biometricsCancelled">>} ELSE late
  /\ UNCHANGED <<accountVars, lifecycleVars, flow, running, auth, tries>>

\* Any other failure, or a cancellation without a PIN: an alert offers to
\* retry or to log in again.
BiometricsCantUnlock ==
  /\ UnlockBiometricsFail
  /\ ~TooManyFailures
  /\ prefs' = AfterBiometricsFailure(prefs)
  /\ flow' = IF dialog.owner = "lock"
             THEN [flow EXCEPT !["lock"].alert = "cantUnlock"] ELSE flow
  /\ UNCHANGED <<accountVars, lifecycleVars, late, running, auth, tries>>

\* Mutant of FallBackToPin: the cancellation is always passed on.
FallBackToPinIgnored ==
  /\ <<"lock", "biometricsCancelled">> \in late
  /\ app # "killed"
  /\ late' = late \ {<<"lock", "biometricsCancelled">>}
  /\ UNCHANGED <<prefs, accountVars, lifecycleVars, flow, dialog, running,
                 auth, tries>>

\* asyncAfter of BiometricsCancelled.  Without a PIN, or if the lock has
\* become the inactive cover, the cancellation is passed on to
\* LegacyAppDelegate, which does not listen to it.
FallBackToPin ==
  /\ <<"lock", "biometricsCancelled">> \in late
  /\ app # "killed"
  /\ IF flow["lock"].mode = "unlock" /\ IsPinSet(prefs)
     THEN /\ flow' = [flow EXCEPT !["lock"] =
                        Rerooted(flow["lock"], "unlock", "pin")]
          /\ late' = LateAfterReroot("lock")
                       \ {<<"lock", "biometricsCancelled">>}
     ELSE /\ late' = late \ {<<"lock", "biometricsCancelled">>}
          /\ UNCHANGED flow
  /\ UNCHANGED <<prefs, accountVars, lifecycleVars, dialog, running,
                 auth, tries>>

CantUnlockRetry ==
  /\ app = "active" /\ Quiet
  /\ flow["lock"].alert = "cantUnlock"
  /\ flow' = [flow EXCEPT !["lock"].alert = "none"]
  /\ dialog' = IF IsPresenting THEN dialog ELSE LockDialog
  /\ UNCHANGED <<prefs, accountVars, lifecycleVars, late, running,
                 auth, tries>>

\* "Log in again": not passed on when there is a PIN to fall back on.
CantUnlockReset ==
  /\ app = "active" /\ Quiet
  /\ flow["lock"].alert = "cantUnlock"
  /\ IF flow["lock"].mode = "unlock" /\ IsPinSet(prefs)
     THEN /\ flow' = [flow EXCEPT !["lock"] = Screen("unlock", "pin")]
          /\ late' = LateAfterReroot("lock")
          /\ UNCHANGED <<prefs, accountVars, auth, tries, dialog>>
     ELSE ResetByUser /\ dialog' = Orphaned(dialog)
  /\ UNCHANGED <<lifecycleVars, running>>

\* Skip or cancel on a biometrics sheet: the login flow is complete without
\* biometrics, the settings' sheet is left.
BiometricsSheetCancelled ==
  /\ app = "active" /\ ~IsPresenting
  /\ flow["sheet"].shown
  /\ flow["sheet"].root = "biometrics"
  /\ ~IsOpen("lock")
  /\ SheetCompletes(flow["sheet"])
  /\ UNCHANGED <<prefs, logout, lifecycleVars, late, dialog, auth,
                 tries>>

=============================================================================
