---------------------------- MODULE EnterPinCode ----------------------------
(***************************************************************************)
(* EnterPinCodeViewModel (and the alerts of its view controller), with     *)
(* what SetPinCoordinator and the presenter's owner do in the same call.   *)
(* A PIN is typed at once: the first three digits change nothing but the   *)
(* placeholders, the fourth is the action.  Digits typed beyond the fourth *)
(* are ignored until deleted, which is a stuttering step here.             *)
(***************************************************************************)
EXTENDS SetPinFlow

Keypad(o) ==
  /\ flow[o].shown
  /\ flow[o].root = "pin"
  /\ flow[o].mode # "inactive"
  /\ flow[o].alert = "none"
  /\ app = "active"
  /\ ~IsPresenting
  /\ o = "sheet" => ~IsOpen("lock")

\* Typing the fourth digit; a digit after a refused PIN starts a new one.
CanType(o) == Keypad(o) /\ (flow[o].entry = "partial" \/ flow[o].blocked)

Set(o, f) == flow' = [flow EXCEPT ![o] = f]

OnlyFlow == UNCHANGED <<prefs, accountVars, lifecycleVars, late, dialog,
                        running, auth, tries>>

DeleteTapped(o) ==
  /\ Keypad(o)
  /\ flow[o].entry = "full"
  /\ Set(o, [flow[o] EXCEPT !.entry = "partial", !.blocked = FALSE])
  /\ OnlyFlow

(***************************************************************************)
(* Choosing a PIN.                                                         *)
(***************************************************************************)
NotAllowedPinTyped(o, pin) ==
  /\ CanType(o)
  /\ flow[o].mode \in SetModes
  /\ flow[o].firstPin = NoPin
  /\ pin \in NotAllowedPINs
  /\ Set(o, [flow[o] EXCEPT !.entry = "full", !.blocked = TRUE])
  /\ OnlyFlow

\* Mutant of FirstPinTyped: any PIN is taken.
FirstPinTypedUnchecked(o, pin) ==
  /\ CanType(o)
  /\ flow[o].mode \in SetModes
  /\ flow[o].firstPin = NoPin
  /\ Set(o, [flow[o] EXCEPT !.firstPin = pin, !.blocked = FALSE])
  /\ OnlyFlow

FirstPinTyped(o, pin) ==
  /\ CanType(o)
  /\ flow[o].mode \in SetModes
  /\ flow[o].firstPin = NoPin
  /\ pin \notin NotAllowedPINs
  /\ Set(o, [flow[o] EXCEPT !.firstPin = pin, !.blocked = FALSE])
  /\ OnlyFlow

SecondPinMatches(o, pin) ==
  /\ CanType(o)
  /\ flow[o].mode \in SetModes
  /\ flow[o].firstPin = pin
  /\ Set(o, [flow[o] EXCEPT !.entry = "full"])
  /\ late' = late \cup {<<o, "chosen">>}
  /\ UNCHANGED <<prefs, accountVars, lifecycleVars, dialog, running,
                 auth, tries>>

\* Mutant of SecondPinDiffers: the first PIN is forgotten at once, not when
\* the alert is acknowledged.
SecondPinDiffersForgets(o, pin) ==
  /\ CanType(o)
  /\ flow[o].mode \in SetModes
  /\ flow[o].firstPin \notin {NoPin, pin}
  /\ Set(o, [flow[o] EXCEPT !.entry = "full", !.alert = "pinsDontMatch",
                            !.firstPin = NoPin])
  /\ OnlyFlow

SecondPinDiffers(o, pin) ==
  /\ CanType(o)
  /\ flow[o].mode \in SetModes
  /\ flow[o].firstPin \notin {NoPin, pin}
  /\ Set(o, [flow[o] EXCEPT !.entry = "full", !.alert = "pinsDontMatch"])
  /\ OnlyFlow

PinsDontMatchAcknowledged(o) ==
  /\ app = "active" /\ Quiet
  /\ flow[o].alert = "pinsDontMatch"
  /\ Set(o, [flow[o] EXCEPT !.alert = "none", !.firstPin = NoPin,
                            !.entry = "partial"])
  /\ OnlyFlow

\* The block posted by SecondPinMatches: it reads firstPin when it runs.
\* With a forced PIN and a biometric sensor the coordinator goes on to the
\* biometrics screen, else the flow is complete.
PinChosen(o) ==
  /\ <<o, "chosen">> \in late
  /\ app # "killed"
  /\ late' = late \ {<<o, "chosen">>}
  /\ prefs' = [prefs EXCEPT !.pin = flow[o].firstPin]
  /\ IF ForcePinProtection /\ IsBiometricsAvailable
     THEN /\ Set(o, Rerooted(flow[o], "setupBiometricsAfterLogin",
                             "biometrics"))
          /\ UNCHANGED <<account, running>>
     ELSE SheetCompletes(flow[o])
  /\ UNCHANGED <<logout, lifecycleVars, dialog, auth, tries>>

(***************************************************************************)
(* Checking the PIN, to unlock or to remove it.                            *)
(***************************************************************************)
CheckedPinTyped(o) ==
  /\ CanType(o)
  /\ flow[o].mode \in CheckModes

\* The counters restart at once; the flow completes later.
RightPinTyped(o, pin) ==
  /\ CheckedPinTyped(o)
  /\ pin = prefs.pin
  /\ prefs' = AfterSuccess(prefs)
  /\ late' = late \cup {<<o, "complete">>}
  /\ Set(o, [flow[o] EXCEPT !.entry = "full"])
  /\ auth' = (auth \/ o = "lock")
  /\ tries' = 0
  /\ UNCHANGED <<accountVars, lifecycleVars, dialog, running>>

\* Mutant of MustLogOut: the failure just made is not counted.
MustLogOutOneLate(o) == flow[o].mode = "unlock" /\ ShouldLogOutUser(prefs)

MustLogOut(o) ==
  flow[o].mode = "unlock" /\ ShouldLogOutUser(AfterWrongPin(prefs))

\* Every wrong PIN is counted in the keychain, whatever the mode.
CountsWrongPin(o, pin) ==
  /\ CheckedPinTyped(o)
  /\ pin # prefs.pin
  /\ prefs.numberOfPinFailures < FailureBound
  /\ flow[o].failures < FailureBound

TriesAfterWrongPin(o) ==
  IF o = "lock" /\ IsPinSet(prefs) THEN tries + 1 ELSE tries

WrongPinRetry(o, pin) ==
  /\ CountsWrongPin(o, pin)
  /\ ~MustLogOut(o)
  /\ flow[o].failures + 1 < TrialsBeforeAlert
  /\ prefs' = AfterWrongPin(prefs)
  /\ Set(o, [flow[o] EXCEPT !.entry = "full", !.failures = @ + 1])
  /\ late' = late \cup {<<o, "wrongPin">>}
  /\ tries' = TriesAfterWrongPin(o)
  /\ UNCHANGED <<accountVars, lifecycleVars, dialog, running, auth>>

WrongPinTooManyTimes(o, pin) ==
  /\ CountsWrongPin(o, pin)
  /\ ~MustLogOut(o)
  /\ flow[o].failures + 1 >= TrialsBeforeAlert
  /\ prefs' = AfterWrongPin(prefs)
  /\ Set(o, [flow[o] EXCEPT !.entry = "partial", !.failures = 0,
                            !.alert = "tooManyTimes"])
  /\ tries' = TriesAfterWrongPin(o)
  /\ UNCHANGED <<accountVars, lifecycleVars, late, dialog, running, auth>>

\* The digits stay, the screen stays; the user is logged out under it.
WrongPinLogsOut(pin) ==
  /\ CountsWrongPin("lock", pin)
  /\ MustLogOut("lock")
  /\ KickUser([flow EXCEPT !["lock"].entry = "full",
                           !["lock"].failures = @ + 1])
  /\ UNCHANGED <<lifecycleVars, dialog, running>>

TooManyTimesAcknowledged(o) ==
  /\ app = "active" /\ Quiet
  /\ flow[o].alert = "tooManyTimes"
  /\ Set(o, [flow[o] EXCEPT !.alert = "none"])
  /\ OnlyFlow

\* asyncAfter of a wrong PIN: shake and wipe the digits.
WipeWrongPin(o) ==
  /\ <<o, "wrongPin">> \in late
  /\ app # "killed"
  /\ late' = late \ {<<o, "wrongPin">>}
  /\ Set(o, [flow[o] EXCEPT !.entry = "partial"])
  /\ UNCHANGED <<prefs, accountVars, lifecycleVars, dialog, running,
                 auth, tries>>

\* asyncAfter of the right PIN.  The coordinator looks at its mode now: the
\* lock may have become the inactive cover in the meantime, and is dismissed
\* all the same.
PinCompletes ==
  \/ /\ <<"lock", "complete">> \in late
     /\ app # "killed"
     /\ ReleaseLock
     /\ AfterAppUnlocked
     /\ dialog' = Orphaned(dialog)
     /\ UNCHANGED <<prefs, accountVars, lifecycleVars, tries>>
  \/ /\ <<"sheet", "complete">> \in late
     /\ app # "killed"
     /\ late' = late \ {<<"sheet", "complete">>}
     /\ prefs' = [prefs EXCEPT !.pin =
                   IF flow["sheet"].mode = "confirmPinToDeactivate"
                   THEN NoPin ELSE @]
     /\ SheetCompletes(flow["sheet"])
     /\ UNCHANGED <<logout, lifecycleVars, dialog, auth, tries>>

(***************************************************************************)
(* Forgot PIN, and leaving a sheet.                                        *)
(***************************************************************************)
ForgotPinPressed ==
  /\ Keypad("lock")
  /\ flow["lock"].mode = "unlock"
  /\ Set("lock", [flow["lock"] EXCEPT !.alert = "forgotPin"])
  /\ OnlyFlow

ForgotPinCancelled ==
  /\ app = "active" /\ Quiet
  /\ flow["lock"].alert = "forgotPin"
  /\ Set("lock", [flow["lock"] EXCEPT !.alert = "none"])
  /\ OnlyFlow

ForgotPinReset ==
  /\ app = "active" /\ Quiet
  /\ flow["lock"].alert = "forgotPin"
  /\ ResetByUser
  /\ dialog' = Orphaned(dialog)
  /\ UNCHANGED <<lifecycleVars, running>>

\* The cancel button of a PIN sheet; hidden while a forced PIN is chosen.
\* A callback already posted by the sheet is not cancelled.
PinSheetCancelled ==
  /\ Keypad("sheet")
  /\ flow["sheet"].mode \in SetModes => ~ForcePinProtection
  /\ Set("sheet", CloseSheet(flow["sheet"]))
  /\ OnlyFlow

=============================================================================
