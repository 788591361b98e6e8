--------------------------- MODULE LockAnswer_proofs ---------------------------
(***************************************************************************)
(* Theorems about AppLock: a lock on screen can always be answered, and    *)
(* biometrics are only suspended with a PIN to fall back on.               *)
(*                                                                         *)
(* AnswerInv says what keeps the lock answerable when no one looks: the    *)
(* dialog on screen is the lock's own while the lock is up, a cover is     *)
(* never left in an active application, and the callback that leads to the *)
(* PIN screen finds a PIN, or nothing to protect.                          *)
(***************************************************************************)
EXTENDS AppLock_proofs

SomethingToAnswer ==
  \/ flow["lock"].root = "pin"
  \/ dialog.owner = "lock"
  \/ flow["lock"].alert = "cantUnlock"
  \/ <<"lock", "biometricsCancelled">> \in late

\* A PIN that waits to be stored counts as a protection: it will be one.
UnlockInv ==
  /\ flow["lock"].mode = "unlock"
  /\ IsProtectionSet(prefs) \/ <<"sheet", "chosen">> \in late
  => SomethingToAnswer

CoverInv == app = "active" => flow["lock"].mode # "inactive"

OwnerInv ==
  /\ IsOpen("lock") => dialog.owner \in {"none", "lock"}
  /\ dialog.owner = "lock" => flow["lock"].mode = "unlock"
  /\ launching \/ app = "killed" => dialog.owner = "none" /\ ~IsOpen("lock")
  /\ launching => app # "killed"
  /\ ~IsOpen("lock") => flow["lock"].alert # "cantUnlock"

CancelInv ==
  <<"lock", "biometricsCancelled">> \in late =>
    /\ IsOpen("lock")
    /\ late \cap CallbacksOf("sheet") = {}
    /\ IsPinSet(prefs) \/ ~IsBiometricsSet(prefs)

AnswerInv == UnlockInv /\ CoverInv /\ OwnerInv /\ CancelInv

-----------------------------------------------------------------------------
(***************************************************************************)
(* The three kinds of steps.                                               *)
(***************************************************************************)

\* A step that ends with the lock closed.
LEMMA ClosedAnswer ==
  ASSUME ~IsOpen("lock")', flow'["lock"].alert # "cantUnlock",
         dialog'.owner # "lock", <<"lock", "biometricsCancelled">> \notin late',
         launching' \/ app' = "killed" => dialog'.owner = "none",
         launching' => app' # "killed"
  PROVE  AnswerInv'
BY DEF AnswerInv, UnlockInv, CoverInv, OwnerInv, CancelInv, IsOpen

\* A step from a closed lock that leaves it and its callbacks alone.
LEMMA StaysClosed ==
  ASSUME AnswerInv, ~IsOpen("lock"), flow'["lock"] = flow["lock"],
         dialog'.owner # "lock",
         <<"lock", "biometricsCancelled">> \in late'
           => <<"lock", "biometricsCancelled">> \in late,
         launching' \/ app' = "killed" => dialog'.owner = "none",
         launching' => app' # "killed"
  PROVE  AnswerInv'
BY ClosedAnswer DEF AnswerInv, OwnerInv, CancelInv, IsOpen

\* A step that leaves an open lock on its screen, with what it offers.
LEMMA StaysOpen ==
  ASSUME AnswerInv, IsOpen("lock"),
         flow'["lock"].mode = flow["lock"].mode,
         flow'["lock"].root = flow["lock"].root,
         flow["lock"].root = "pin" \/ flow["lock"].alert = "cantUnlock"
           => flow'["lock"].root = "pin" \/ flow'["lock"].alert = "cantUnlock",
         dialog'.owner = dialog.owner,
         <<"lock", "biometricsCancelled">> \in late
           <=> <<"lock", "biometricsCancelled">> \in late',
         late' \cap CallbacksOf("sheet") \subseteq late,
         IsProtectionSet(prefs')
           => \/ IsProtectionSet(prefs) \/ flow["lock"].root = "pin"
              \/ <<"sheet", "chosen">> \in late,
         <<"lock", "biometricsCancelled">> \in late
           => IsPinSet(prefs') \/ ~IsBiometricsSet(prefs'),
         app' = "active" => app = "active" \/ flow["lock"].mode # "inactive",
         app' # "killed", launching' = launching
  PROVE  AnswerInv'
<1>1. <<"sheet", "chosen">> \in late' => <<"sheet", "chosen">> \in late
  BY DEF CallbacksOf, Callbacks
<1>2. SomethingToAnswer => SomethingToAnswer'
  BY DEF SomethingToAnswer
<1>3. UnlockInv'
  BY <1>1, <1>2 DEF AnswerInv, UnlockInv, SomethingToAnswer
<1>4. IsOpen("lock")'
  BY DEF IsOpen
<1>5. CoverInv'
  BY DEF AnswerInv, CoverInv
<1>6. OwnerInv'
  BY <1>4 DEF AnswerInv, OwnerInv
<1>7. CancelInv'
  BY <1>4 DEF AnswerInv, CancelInv
<1> QED BY <1>3, <1>5, <1>6, <1>7 DEF AnswerInv

\* A step that leaves the lock, the dialog, the callbacks and the keychain alone.
LEMMA LeftAlone ==
  ASSUME TypeOK, AnswerInv, flow'["lock"] = flow["lock"], UNCHANGED <<dialog, late, prefs>>,
         launching' => launching, app' = "killed" => app = "killed",
         app' = "active" => app = "active"
  PROVE  AnswerInv'
<1>1. SomethingToAnswer' <=> SomethingToAnswer
  BY DEF SomethingToAnswer
<1>2. UnlockInv'
  BY <1>1 DEF AnswerInv, UnlockInv
<1>3. CoverInv' /\ OwnerInv' /\ CancelInv'
  BY DEF AnswerInv, CoverInv, OwnerInv, CancelInv, IsOpen
<1> QED BY <1>2, <1>3 DEF AnswerInv

\* A lock that is released.
LEMMA Released ==
  ASSUME TypeOK, AnswerInv, ReleaseLock, dialog' = Orphaned(dialog),
         app' # "killed", launching' => launching
  PROVE  AnswerInv'
<1>1. flow'["lock"] = Closed
  BY DEF TypeOK, ReleaseLock, Owners
<1>2. ~IsOpen("lock")' /\ flow'["lock"].alert # "cantUnlock"
  BY <1>1 DEF Closed, Screen, IsOpen
<1>3. <<"lock", "biometricsCancelled">> \notin late'
  BY DEF ReleaseLock, CallbacksOf, Callbacks
<1>4. dialog'.owner # "lock"
  BY OrphanedOwner DEF TypeOK
<1>5. launching' => dialog'.owner = "none"
  BY DEF AnswerInv, OwnerInv, Orphaned
<1> QED BY <1>2, <1>3, <1>4, <1>5, ClosedAnswer

\* The screen of a lock that is given another root, or a new screen.
LEMMA NewRoot ==
  ASSUME TypeOK, NEW mode, NEW root
  PROVE  /\ [flow EXCEPT !["lock"] = Rerooted(flow["lock"], mode, root)]["lock"].mode = mode
         /\ [flow EXCEPT !["lock"] = Rerooted(flow["lock"], mode, root)]["lock"].root = root
         /\ [flow EXCEPT !["lock"] = Rerooted(flow["lock"], mode, root)]["lock"].alert
              = flow["lock"].alert
         /\ [flow EXCEPT !["lock"] = Screen(mode, root)]["lock"].mode = mode
         /\ [flow EXCEPT !["lock"] = Screen(mode, root)]["lock"].root = root
BY DEF TypeOK, Owners, Rerooted, Screen

\* A lock that gets to the PIN screen, with no dialog of the lock but on it.
LEMMA OnPinScreen ==
  ASSUME AnswerInv, IsOpen("lock"),
         flow'["lock"].mode = "unlock", flow'["lock"].root = "pin",
         dialog'.owner \in {dialog.owner, "none"},
         <<"lock", "biometricsCancelled">> \notin late',
         app' # "killed", launching' = launching
  PROVE  AnswerInv'
<1>1. UnlockInv'
  BY DEF UnlockInv, SomethingToAnswer
<1>2. CoverInv' /\ CancelInv'
  BY DEF CoverInv, CancelInv
<1>3. OwnerInv'
  BY DEF AnswerInv, OwnerInv, IsOpen
<1> QED BY <1>1, <1>2, <1>3 DEF AnswerInv

\* A lock that is asked for, on screen or from the block of a launch.
LEMMA AskedFor ==
  ASSUME TypeOK, AnswerInv, ShowLock("unlock"), UNCHANGED prefs,
         IsOpen("lock") \/ dialog.owner = "none",
         app' # "killed", launching' = FALSE
  PROVE  AnswerInv'
<1> DEFINE root == RootFor("unlock", prefs)
<1>1. CASE flow["lock"].mode = "unlock"
  <2>1. UNCHANGED <<flow, late, dialog>>
    BY <1>1 DEF ShowLock
  <2>2. UnlockInv' /\ CancelInv'
    BY <2>1 DEF AnswerInv, UnlockInv, SomethingToAnswer, CancelInv, IsOpen
  <2>3. CoverInv' /\ OwnerInv'
    BY <1>1, <2>1 DEF AnswerInv, CoverInv, OwnerInv, IsOpen
  <2> QED BY <2>2, <2>3 DEF AnswerInv
<1>2. CASE flow["lock"].mode # "unlock"
  <2>1. /\ flow' = [flow EXCEPT !["lock"] = Rerooted(flow["lock"], "unlock", root)]
        /\ late' = LateAfterReroot("lock")
        /\ dialog' = IF StartsDialog("unlock", root) THEN LockDialog ELSE dialog
    BY <1>2 DEF ShowLock
  <2>2. dialog.owner = "none"
    BY <1>2 DEF AnswerInv, OwnerInv
  <2>3. flow'["lock"].mode = "unlock" /\ flow'["lock"].root = root
    BY <2>1, NewRoot
  <2>4. root # "pin" => dialog' = LockDialog
    BY <2>1, <2>2 DEF StartsDialog, IsPresenting, RootFor
  <2>5. UnlockInv' /\ CoverInv'
    BY <2>3, <2>4 DEF UnlockInv, CoverInv, SomethingToAnswer, LockDialog
  <2>6. OwnerInv'
    BY <2>1, <2>2, <2>3 DEF OwnerInv, IsOpen, LockDialog
  <2>7. CancelInv'
    BY <2>1, <2>3 DEF AnswerInv, CancelInv, LateAfterReroot, IsOpen
  <2> QED BY <2>5, <2>6, <2>7 DEF AnswerInv
<1> QED BY <1>1, <1>2

\* configurePinCodeScreenFor.
LEMMA Configured ==
  ASSUME TypeOK, AnswerInv, NEW create \in BOOLEAN, ConfigurePinCodeScreen(create),
         UNCHANGED prefs, app # "killed", app' # "killed",
         create => launching, launching' = (launching /\ ~create)
  PROVE  AnswerInv'
<1>1. CASE ~ShouldShowPinCode
  BY <1>1, Released DEF ConfigurePinCodeScreen
<1>2. CASE ShouldShowPinCode /\ (IsOpen("lock") \/ create)
  <2>1. IsOpen("lock") => ~launching
    BY DEF AnswerInv, OwnerInv
  <2>2. create => dialog.owner = "none"
    BY DEF AnswerInv, OwnerInv
  <2> QED BY <1>2, <2>1, <2>2, AskedFor DEF ConfigurePinCodeScreen, TypeOK
<1>3. CASE ShouldShowPinCode /\ ~(IsOpen("lock") \/ create)
  BY <1>3, StaysClosed DEF ConfigurePinCodeScreen, AnswerInv, OwnerInv, IsOpen
<1> QED BY <1>1, <1>2, <1>3

-----------------------------------------------------------------------------
(***************************************************************************)
(* The keypad.                                                             *)
(***************************************************************************)

\* What happens on the sheet does not concern the lock.
LEMMA OnSheet ==
  ASSUME TypeOK, NEW f, Set("sheet", f)
  PROVE  flow'["lock"] = flow["lock"]
BY DEF TypeOK, Set, Owners

\* Choosing a PIN on the sheet, which has no keypad under an open lock.
LEMMA ChoosePinAnswer ==
  ASSUME TypeOK, AnswerInv, ChoosePin("sheet") PROVE AnswerInv'
<1> USE DEF lifecycleVars, accountVars
<1>1. flow'["lock"] = flow["lock"]
  BY OnSheet DEF ChoosePin, NotAllowedPinTyped, FirstPinTyped, SecondPinMatches,
     SecondPinDiffers, PinsDontMatchAcknowledged
<1>2. UNCHANGED <<dialog, app, launching>>
  BY DEF ChoosePin, NotAllowedPinTyped, FirstPinTyped, SecondPinMatches,
     SecondPinDiffers, PinsDontMatchAcknowledged, OnlyFlow
<1>3. CASE PinsDontMatchAcknowledged("sheet")
  BY <1>1, <1>3, LeftAlone DEF PinsDontMatchAcknowledged, OnlyFlow
<1>4. CASE ~PinsDontMatchAcknowledged("sheet")
  <2>1. ~IsOpen("lock")
    BY <1>4 DEF ChoosePin, NotAllowedPinTyped, FirstPinTyped, SecondPinMatches,
       SecondPinDiffers, CanType, Keypad
  <2>2. late' \subseteq late \cup {<<"sheet", "chosen">>}
    BY <1>4 DEF ChoosePin, NotAllowedPinTyped, FirstPinTyped, SecondPinMatches,
       SecondPinDiffers, OnlyFlow
  <2>3. dialog'.owner # "lock"
    BY <1>2, <2>1 DEF AnswerInv, OwnerInv, IsOpen
  <2>4. /\ launching' \/ app' = "killed" => dialog'.owner = "none"
        /\ launching' => app' # "killed"
    BY <1>2 DEF AnswerInv, OwnerInv
  <2> QED BY <1>1, <2>1, <2>2, <2>3, <2>4, StaysClosed
<1> QED BY <1>3, <1>4

\* A field of the lock's flow that is set leaves the other fields.
LEMMA LockFields ==
  ASSUME TypeOK, NEW f, Set("lock", f)
  PROVE  flow'["lock"] = f
BY DEF TypeOK, Set, Owners

\* What a check of the PIN, or a failure of biometrics, writes to the keychain.
LEMMA WrittenByCheck ==
  ASSUME NEW p \in Preferences
  PROVE  /\ IsPinSet(AfterSuccess(p)) <=> IsPinSet(p)
         /\ IsPinSet(AfterWrongPin(p)) <=> IsPinSet(p)
         /\ IsBiometricsSet(AfterWrongPin(p)) <=> IsBiometricsSet(p)
         /\ IsPinSet(AfterBiometricsFailure(p)) <=> IsPinSet(p)
         /\ IsBiometricsSet(AfterBiometricsFailure(p)) <=> IsBiometricsSet(p)
         /\ IsPinSet(WithoutBiometrics(AfterBiometricsFailure(p))) <=> IsPinSet(p)
         /\ ~IsBiometricsSet(WithoutBiometrics(AfterBiometricsFailure(p)))
         /\ ~IsPinSet(EmptyPreferences) /\ ~IsBiometricsSet(EmptyPreferences)
BY DEF IsPinSet, IsBiometricsSet, AfterSuccess, AfterWrongPin,
       AfterBiometricsFailure, WithoutBiometrics, EmptyPreferences, Preferences

\* What the keypad of the lock needs.
LEMMA LockKeypad ==
  ASSUME AnswerInv, LockModeInv, Keypad("lock"), IsOpen("lock")
  PROVE  flow["lock"].root = "pin" /\ app = "active" /\ ~launching
BY DEF Keypad, AnswerInv, OwnerInv

\* A keypad that is typed on: the lock's, or the sheet's with the lock closed.
LEMMA Typed ==
  ASSUME TypeOK, AnswerInv, LockModeInv, NEW o \in Owners, CheckedPinTyped(o),
         NEW f, Set(o, f), f.mode = flow[o].mode, f.root = flow[o].root,
         UNCHANGED <<dialog, app, launching>>,
         NEW c \in Callbacks \ {"biometricsCancelled"},
         late' \subseteq late \cup {<<o, c>>}, late \subseteq late',
         IsPinSet(prefs') \/ IsBiometricsSet(prefs') => IsBiometricsSet(prefs) \/ IsPinSet(prefs'),
         <<"lock", "biometricsCancelled">> \in late
           => IsPinSet(prefs') \/ ~IsBiometricsSet(prefs')
  PROVE  AnswerInv'
<1>1. CASE o = "lock"
  <2>1. flow'["lock"] = f
    BY <1>1, LockFields
  <2>2. IsOpen("lock") /\ flow["lock"].root = "pin" /\ app = "active"
    BY <1>1 DEF CheckedPinTyped, CanType, Keypad, CheckModes, IsOpen
  <2>3. /\ <<"lock", "biometricsCancelled">> \in late
             <=> <<"lock", "biometricsCancelled">> \in late'
        /\ late' \cap CallbacksOf("sheet") \subseteq late
    BY <1>1 DEF CallbacksOf
  <2> QED BY <1>1, <2>1, <2>2, <2>3, StaysOpen
<1>2. CASE o = "sheet"
  <2>1. flow'["lock"] = flow["lock"]
    BY <1>2, OnSheet
  <2>2. ~IsOpen("lock") /\ app = "active"
    BY <1>2 DEF CheckedPinTyped, CanType, Keypad
  <2>3. dialog.owner # "lock" /\ (launching => dialog.owner = "none")
    BY <2>2 DEF AnswerInv, OwnerInv, IsOpen
  <2> QED BY <1>2, <2>1, <2>2, <2>3, StaysClosed
<1> QED BY <1>1, <1>2 DEF Owners

\* The fields a keypad writes are not those of its screen.
LEMMA FieldsKeepScreen ==
  ASSUME NEW f \in Flows
  PROVE  /\ \A e : LET g == [f EXCEPT !.entry = e]
                   IN g.mode = f.mode /\ g.root = f.root /\ g.alert = f.alert
         /\ \A e, b : LET g == [f EXCEPT !.entry = e, !.blocked = b]
                      IN g.mode = f.mode /\ g.root = f.root /\ g.alert = f.alert
         /\ \A a : LET g == [f EXCEPT !.alert = a]
                   IN g.mode = f.mode /\ g.root = f.root /\ g.alert = a
         /\ \A e, n : LET g == [f EXCEPT !.entry = e, !.failures = n]
                      IN g.mode = f.mode /\ g.root = f.root /\ g.alert = f.alert
         /\ \A e, n, a : LET g == [f EXCEPT !.entry = e, !.failures = n, !.alert = a]
                         IN g.mode = f.mode /\ g.root = f.root /\ g.alert = a
BY DEF Flows

\* Checking a PIN, on the lock or on the sheet.
LEMMA CheckPinAnswer ==
  ASSUME TypeOK, AnswerInv, LockModeInv, NEW o \in Owners, CheckPin(o)
  PROVE  AnswerInv'
<1> USE DEF lifecycleVars, accountVars
<1>0. flow[o] \in Flows /\ prefs \in Preferences
  BY DEF TypeOK
<1>1. ASSUME NEW pin \in Pins, RightPinTyped(o, pin) PROVE AnswerInv'
  <2> DEFINE f == [flow[o] EXCEPT !.entry = "full"]
  <2>1. f.mode = flow[o].mode /\ f.root = flow[o].root
    BY <1>0, FieldsKeepScreen
  <2>2. Set(o, f) /\ CheckedPinTyped(o) /\ UNCHANGED <<dialog, app, launching>>
    BY <1>1 DEF RightPinTyped
  <2>3. late' = late \cup {<<o, "complete">>} /\ prefs' = AfterSuccess(prefs)
    BY <1>1 DEF RightPinTyped
  <2>4. IsPinSet(prefs')
    BY <1>0, <1>1, <2>3, WrittenByCheck, PinAssumption
       DEF RightPinTyped, IsPinSet, PinAssumption
  <2>5. "complete" \in Callbacks \ {"biometricsCancelled"}
    BY DEF Callbacks
  <2> HIDE DEF f
  <2> QED BY <2>1, <2>2, <2>3, <2>4, <2>5, Typed
<1>2. ASSUME prefs' = AfterWrongPin(prefs)
      PROVE  /\ IsPinSet(prefs') \/ IsBiometricsSet(prefs')
                  => IsBiometricsSet(prefs) \/ IsPinSet(prefs')
             /\ <<"lock", "biometricsCancelled">> \in late
                  => IsPinSet(prefs') \/ ~IsBiometricsSet(prefs')
  BY <1>0, <1>2, WrittenByCheck DEF AnswerInv, CancelInv
<1>3. "wrongPin" \in Callbacks \ {"biometricsCancelled"}
  BY DEF Callbacks
<1>4. ASSUME NEW pin \in Pins, WrongPinRetry(o, pin) PROVE AnswerInv'
  <2> DEFINE f == [flow[o] EXCEPT !.entry = "full", !.failures = flow[o].failures + 1]
  <2>1. f.mode = flow[o].mode /\ f.root = flow[o].root
    BY <1>0, FieldsKeepScreen
  <2>2. Set(o, f) /\ CheckedPinTyped(o) /\ UNCHANGED <<dialog, app, launching>>
    BY <1>4 DEF WrongPinRetry, CountsWrongPin
  <2>3. late' = late \cup {<<o, "wrongPin">>} /\ prefs' = AfterWrongPin(prefs)
    BY <1>4 DEF WrongPinRetry
  <2> HIDE DEF f
  <2> QED BY <1>2, <1>3, <2>1, <2>2, <2>3, Typed
<1>5. ASSUME NEW pin \in Pins, WrongPinTooManyTimes(o, pin) PROVE AnswerInv'
  <2> DEFINE f == [flow[o] EXCEPT !.entry = "partial", !.failures = 0,
                                  !.alert = "tooManyTimes"]
  <2>1. f.mode = flow[o].mode /\ f.root = flow[o].root
    BY <1>0, FieldsKeepScreen
  <2>2. Set(o, f) /\ CheckedPinTyped(o) /\ UNCHANGED <<dialog, app, launching>>
    BY <1>5 DEF WrongPinTooManyTimes, CountsWrongPin
  <2>3. late' = late /\ prefs' = AfterWrongPin(prefs)
    BY <1>5 DEF WrongPinTooManyTimes
  <2> HIDE DEF f
  <2> QED BY <1>2, <1>3, <2>1, <2>2, <2>3, Typed
<1>6. ASSUME TooManyTimesAcknowledged(o) PROVE AnswerInv'
  <2> DEFINE f == [flow[o] EXCEPT !.alert = "none"]
  <2>1. f.mode = flow[o].mode /\ f.root = flow[o].root /\ f.alert = "none"
    BY <1>0, FieldsKeepScreen
  <2>2. Set(o, f) /\ UNCHANGED <<prefs, late, dialog, app, launching>>
        /\ flow[o].alert = "tooManyTimes" /\ app = "active"
    BY <1>6 DEF TooManyTimesAcknowledged, OnlyFlow
  <2> HIDE DEF f
  <2>3. CASE o = "sheet"
    BY <2>2, <2>3, OnSheet, LeftAlone
  <2>4. CASE o = "lock" /\ IsOpen("lock")
    <3>1. flow'["lock"] = f
      BY <2>2, <2>4, LockFields
    <3>2. IsProtectionSet(prefs') <=> IsProtectionSet(prefs)
      BY <2>2
    <3>3. <<"lock", "biometricsCancelled">> \in late
            => IsPinSet(prefs') \/ ~IsBiometricsSet(prefs')
      BY <2>2 DEF AnswerInv, CancelInv
    <3> QED BY <2>1, <2>2, <2>4, <3>1, <3>2, <3>3, StaysOpen
  <2>5. CASE o = "lock" /\ ~IsOpen("lock")
    <3>1. flow'["lock"] = f
      BY <2>2, <2>5, LockFields
    <3>2. ~IsOpen("lock")' /\ flow'["lock"].alert # "cantUnlock"
      BY <2>1, <2>5, <3>1 DEF IsOpen
    <3> QED BY <2>2, <2>5, <3>2, ClosedAnswer DEF AnswerInv, OwnerInv, CancelInv, IsOpen
  <2> QED BY <2>3, <2>4, <2>5 DEF Owners
<1> QED BY <1>1, <1>4, <1>5, <1>6 DEF CheckPin

\* A logout that starts leaves nothing to protect.
LEMMA Unprotected ==
  ASSUME prefs' = EmptyPreferences
  PROVE  ~IsProtectionSet(prefs') /\ ~IsBiometricsSet(prefs')
BY DEF EmptyPreferences, IsProtectionSet, IsPinSet, IsBiometricsSet

\* Every action of the keypad.
LEMMA PinEntryAnswer ==
  ASSUME TypeOK, AnswerInv, LockModeInv, PinEntry PROVE AnswerInv'
<1> USE DEF lifecycleVars, accountVars
<1>0. flow["lock"] \in Flows /\ flow["sheet"] \in Flows
  BY DEF TypeOK, Owners
<1>1. ASSUME NEW o \in Owners, DeleteTapped(o) PROVE AnswerInv'
  <2> DEFINE f == [flow[o] EXCEPT !.entry = "partial", !.blocked = FALSE]
  <2>1. f.mode = flow[o].mode /\ f.root = flow[o].root /\ f.alert = flow[o].alert
    BY <1>0, FieldsKeepScreen DEF Owners
  <2>2. Set(o, f) /\ UNCHANGED <<prefs, late, dialog, app, launching>>
    BY <1>1 DEF DeleteTapped, OnlyFlow
  <2> HIDE DEF f
  <2>3. CASE o = "sheet"
    BY <2>2, <2>3, OnSheet, LeftAlone
  <2>4. CASE o = "lock"
    <3>1. flow'["lock"] = f
      BY <2>2, <2>4, LockFields
    <3>2. UnlockInv' /\ CoverInv' /\ OwnerInv' /\ CancelInv'
      BY <2>1, <2>2, <2>4, <3>1
         DEF AnswerInv, UnlockInv, CoverInv, OwnerInv, CancelInv, IsOpen, SomethingToAnswer
    <3> QED BY <3>2 DEF AnswerInv
  <2> QED BY <2>3, <2>4 DEF Owners
<1>2. ASSUME NEW pin \in Pins, WrongPinLogsOut(pin) PROVE AnswerInv'
  <2> DEFINE f == [flow["lock"] EXCEPT !.entry = "full",
                                       !.failures = flow["lock"].failures + 1]
  <2>1. f.mode = flow["lock"].mode /\ f.root = flow["lock"].root
    BY <1>0, FieldsKeepScreen
  <2>2. flow' = [flow EXCEPT !["lock"] = f]
    BY <1>2 DEF WrongPinLogsOut, KickUser, TypeOK, Owners
  <2>3. CheckedPinTyped("lock") /\ UNCHANGED <<dialog, app, launching>>
        /\ UNCHANGED late /\ prefs' = EmptyPreferences
    BY <1>2 DEF WrongPinLogsOut, KickUser, StartLogout, CountsWrongPin
  <2> HIDE DEF f
  <2>4. Set("lock", f)
    BY <2>2 DEF Set
  <2> QED BY <2>1, <2>3, <2>4, Unprotected, Typed DEF Owners, Callbacks, IsProtectionSet
<1>3. ASSUME ForgotPinPressed PROVE AnswerInv'
  <2> DEFINE f == [flow["lock"] EXCEPT !.alert = "forgotPin"]
  <2>1. f.mode = flow["lock"].mode /\ f.root = flow["lock"].root
    BY <1>0, FieldsKeepScreen
  <2>2. Set("lock", f) /\ UNCHANGED <<prefs, late, dialog, app, launching>>
    BY <1>3 DEF ForgotPinPressed, OnlyFlow
  <2>3. CheckedPinTyped("lock") \/ (Keypad("lock") /\ IsOpen("lock"))
    BY <1>3 DEF ForgotPinPressed, IsOpen
  <2>4. flow["lock"].root = "pin" /\ app = "active" /\ IsOpen("lock")
    BY <1>3 DEF ForgotPinPressed, Keypad, IsOpen
  <2> HIDE DEF f
  <2>5. flow'["lock"] = f
    BY <2>2, LockFields
  <2> QED BY <2>1, <2>2, <2>4, <2>5, StaysOpen DEF AnswerInv, CancelInv
<1>4. ASSUME ForgotPinCancelled PROVE AnswerInv'
  <2> DEFINE f == [flow["lock"] EXCEPT !.alert = "none"]
  <2>1. f.mode = flow["lock"].mode /\ f.root = flow["lock"].root /\ f.alert = "none"
    BY <1>0, FieldsKeepScreen
  <2>2. Set("lock", f) /\ UNCHANGED <<prefs, late, dialog, app, launching>>
        /\ flow["lock"].alert = "forgotPin"
    BY <1>4 DEF ForgotPinCancelled, OnlyFlow
  <2> HIDE DEF f
  <2>3. flow'["lock"] = f
    BY <2>2, LockFields
  <2>4. UnlockInv' /\ CoverInv' /\ OwnerInv' /\ CancelInv'
    BY <2>1, <2>2, <2>3
       DEF AnswerInv, UnlockInv, CoverInv, OwnerInv, CancelInv, IsOpen, SomethingToAnswer
  <2> QED BY <2>4 DEF AnswerInv
<1>5. ASSUME ForgotPinReset PROVE AnswerInv'
  BY <1>5, Released DEF ForgotPinReset, ResetByUser
<1>6. ASSUME PinSheetCancelled PROVE AnswerInv'
  BY <1>6, OnSheet, LeftAlone DEF PinSheetCancelled, OnlyFlow
<1> QED BY <1>1, <1>2, <1>3, <1>4, <1>5, <1>6, ChoosePinAnswer, CheckPinAnswer
        DEF PinEntry

-----------------------------------------------------------------------------
(***************************************************************************)
(* What was posted.                                                        *)
(***************************************************************************)

\* Whatever is up, the sheet's callback that runs leaves the lock as it is.
LEMMA SheetCallback ==
  ASSUME TypeOK, AnswerInv, flow'["lock"] = flow["lock"],
         UNCHANGED <<dialog, app, launching>>, app # "killed",
         NEW c \in Callbacks, <<"sheet", c>> \in late, late' = late \ {<<"sheet", c>>},
         IsProtectionSet(prefs')
           => IsProtectionSet(prefs) \/ <<"sheet", "chosen">> \in late
  PROVE  AnswerInv'
<1>1. <<"lock", "biometricsCancelled">> \notin late
  BY DEF AnswerInv, CancelInv, CallbacksOf
<1>2. CASE IsOpen("lock")
  BY <1>1, <1>2, StaysOpen
<1>3. CASE ~IsOpen("lock")
  BY <1>3, StaysClosed DEF AnswerInv, OwnerInv, IsOpen
<1> QED BY <1>2, <1>3

\* Every callback that was posted.
LEMMA DelayedAnswer ==
  ASSUME TypeOK, AnswerInv, LockModeInv, Delayed PROVE AnswerInv'
<1> USE DEF lifecycleVars, accountVars
<1>0. flow["lock"] \in Flows /\ flow["sheet"] \in Flows /\ prefs \in Preferences
  BY DEF TypeOK, Owners
<1>1. ASSUME PinChosen("sheet") PROVE AnswerInv'
  <2>1. flow'["lock"] = flow["lock"]
    BY <1>1, OnSheet DEF PinChosen, SheetCompletes, Set
  <2> QED BY <1>1, <2>1, SheetCallback DEF PinChosen, Callbacks
<1>2. ASSUME PinCompletes PROVE AnswerInv'
  <2>0. app # "killed" /\ UNCHANGED <<app, launching>>
    BY <1>2 DEF PinCompletes
  <2>1. CASE ReleaseLock /\ dialog' = Orphaned(dialog)
    BY <2>0, <2>1, Released
  <2>2. CASE ~(ReleaseLock /\ dialog' = Orphaned(dialog))
    <3>1. /\ <<"sheet", "complete">> \in late
          /\ late' = late \ {<<"sheet", "complete">>}
          /\ SheetCompletes(flow["sheet"])
          /\ UNCHANGED dialog
          /\ prefs' \in {prefs, [prefs EXCEPT !.pin = NoPin]}
      BY <1>0, <1>2, <2>2 DEF PinCompletes, Preferences
    <3>2. flow'["lock"] = flow["lock"]
      BY <3>1, OnSheet DEF SheetCompletes, Set
    <3>3. IsProtectionSet(prefs') => IsProtectionSet(prefs)
      BY <1>0, <3>1 DEF IsProtectionSet, IsPinSet, IsBiometricsSet, Preferences
    <3>4. "complete" \in Callbacks
      BY DEF Callbacks
    <3> QED BY <2>0, <3>1, <3>2, <3>3, <3>4, SheetCallback
  <2> QED BY <2>1, <2>2
<1>3. ASSUME NEW o \in Owners, WipeWrongPin(o) PROVE AnswerInv'
  <2> DEFINE f == [flow[o] EXCEPT !.entry = "partial"]
  <2>1. f.mode = flow[o].mode /\ f.root = flow[o].root /\ f.alert = flow[o].alert
    BY <1>0, FieldsKeepScreen DEF Owners
  <2>2. Set(o, f) /\ UNCHANGED <<prefs, dialog, app, launching>>
        /\ late' = late \ {<<o, "wrongPin">>}
    BY <1>3 DEF WipeWrongPin
  <2> HIDE DEF f
  <2>3. /\ flow'["lock"].mode = flow["lock"].mode
        /\ flow'["lock"].root = flow["lock"].root
        /\ flow'["lock"].alert = flow["lock"].alert
    BY <2>1, <2>2, OnSheet, LockFields DEF Owners
  <2>4. UnlockInv' /\ CoverInv' /\ OwnerInv' /\ CancelInv'
    BY <2>2, <2>3
       DEF AnswerInv, UnlockInv, CoverInv, OwnerInv, CancelInv, IsOpen, SomethingToAnswer
  <2> QED BY <2>4 DEF AnswerInv
<1>4. ASSUME FallBackToPin PROVE AnswerInv'
  <2>1. UNCHANGED <<prefs, dialog, app, launching>> /\ app # "killed"
        /\ <<"lock", "biometricsCancelled">> \in late
    BY <1>4 DEF FallBackToPin
  <2>2. IsOpen("lock") /\ late \cap CallbacksOf("sheet") = {}
        /\ (IsPinSet(prefs) \/ ~IsBiometricsSet(prefs))
    BY <2>1 DEF AnswerInv, CancelInv
  <2>3. CASE flow["lock"].mode = "unlock" /\ IsPinSet(prefs)
    <3>1. flow'["lock"].mode = "unlock" /\ flow'["lock"].root = "pin"
          /\ <<"lock", "biometricsCancelled">> \notin late'
      BY <1>4, <2>3, NewRoot DEF FallBackToPin
    <3> QED BY <2>1, <2>2, <3>1, OnPinScreen
  <2>4. CASE ~(flow["lock"].mode = "unlock" /\ IsPinSet(prefs))
    <3>1. UNCHANGED flow /\ late' = late \ {<<"lock", "biometricsCancelled">>}
      BY <1>4, <2>4 DEF FallBackToPin
    <3>2. <<"sheet", "chosen">> \notin late'
      BY <2>2, <3>1 DEF CallbacksOf, Callbacks
    <3>3. UnlockInv'
      BY <2>1, <2>2, <2>4, <3>1, <3>2 DEF UnlockInv, IsProtectionSet
    <3>4. CoverInv' /\ OwnerInv' /\ CancelInv'
      BY <2>1, <3>1 DEF AnswerInv, CoverInv, OwnerInv, CancelInv, IsOpen
    <3> QED BY <3>3, <3>4 DEF AnswerInv
  <2> QED BY <2>3, <2>4
<1>5. ASSUME BiometricsSucceed PROVE AnswerInv'
  <2>1. dialog' = NoDialog /\ app # "killed" /\ UNCHANGED <<app, launching>>
    BY <1>5 DEF BiometricsSucceed
  <2>2. CASE dialog.owner = "lock"
    <3>1. ReleaseLock
      BY <1>5, <2>2 DEF BiometricsSucceed
    <3>2. flow'["lock"] = Closed
      BY <3>1 DEF TypeOK, ReleaseLock, Owners
    <3>3. ~IsOpen("lock")' /\ flow'["lock"].alert # "cantUnlock"
      BY <3>2 DEF Closed, Screen, IsOpen
    <3>4. <<"lock", "biometricsCancelled">> \notin late'
      BY <3>1 DEF ReleaseLock, CallbacksOf, Callbacks
    <3> QED BY <2>1, <3>3, <3>4, ClosedAnswer DEF NoDialog
  <2>3. CASE dialog.owner # "lock"
    <3>1. ~IsOpen("lock")
      BY <1>5, <2>3 DEF BiometricsSucceed, AnswerInv, OwnerInv
    <3>2. flow'["lock"] = flow["lock"] /\ UNCHANGED late
      BY <1>5, <2>3, OnSheet DEF BiometricsSucceed, SheetCompletes, Set
    <3> QED BY <2>1, <3>1, <3>2, StaysClosed DEF NoDialog
  <2> QED BY <2>2, <2>3
<1> QED BY <1>1, <1>2, <1>3, <1>4, <1>5 DEF Delayed

-----------------------------------------------------------------------------
(***************************************************************************)
(* Biometrics.                                                             *)
(***************************************************************************)

\* A dialog that is not the lock's goes away: the lock is closed and stays so.
LEMMA OthersDialog ==
  ASSUME AnswerInv, dialog.owner \notin {"none", "lock"}, UNCHANGED <<flow, late>>,
         dialog' = NoDialog, UNCHANGED <<app, launching>>
  PROVE  AnswerInv'
BY StaysClosed DEF AnswerInv, OwnerInv, NoDialog

\* The lock's dialog fails: what is left to answer.
LEMMA LockDialogFails ==
  ASSUME TypeOK, AnswerInv, UnlockBiometricsFail, UNCHANGED <<app, launching>>,
         dialog.owner = "lock"
  PROVE  /\ flow["lock"].mode = "unlock" /\ IsOpen("lock")
         /\ app' # "killed" /\ late = {} /\ dialog' = NoDialog /\ ~launching
BY DEF AnswerInv, OwnerInv, UnlockBiometricsFail, BiometricsFail, Quiet, IsOpen

\* Every action of the biometrics screens and of the dialog.
LEMMA BiometricsAnswer ==
  ASSUME TypeOK, AnswerInv, LockModeInv, Biometrics PROVE AnswerInv'
<1> USE DEF lifecycleVars, accountVars
<1>0. flow["lock"] \in Flows /\ flow["sheet"] \in Flows /\ prefs \in Preferences
      /\ dialog \in Dialogs
  BY DEF TypeOK, Owners
<1>1. ASSUME ToggleBiometricsTapped PROVE AnswerInv'
  BY <1>1, StaysClosed DEF ToggleBiometricsTapped, Quiet
<1>2. ASSUME BiometricsAccepted PROVE AnswerInv'
  <2>1. dialog'.owner = dialog.owner
    BY <1>0, <1>2 DEF BiometricsAccepted, Dialogs
  <2>2. UNCHANGED <<flow, late, prefs, app, launching>>
    BY <1>2 DEF BiometricsAccepted
  <2>3. UnlockInv' /\ CoverInv' /\ OwnerInv' /\ CancelInv'
    BY <2>1, <2>2
       DEF AnswerInv, UnlockInv, CoverInv, OwnerInv, CancelInv, IsOpen, SomethingToAnswer
  <2> QED BY <2>3 DEF AnswerInv
<1>3. ASSUME SheetBiometricsFail PROVE AnswerInv'
  BY <1>3, OthersDialog DEF SheetBiometricsFail, BiometricsFail
<1>4. ASSUME TooManyFailuresFallBack PROVE AnswerInv'
  <2>1. CASE dialog.owner = "lock"
    <3>1. flow'["lock"].mode = "unlock" /\ flow'["lock"].root = "pin"
      BY <1>4, <2>1, NewRoot DEF TooManyFailuresFallBack
    <3>2. late' = LateAfterReroot("lock") /\ UnlockBiometricsFail
          /\ UNCHANGED <<app, launching>>
      BY <1>4, <2>1 DEF TooManyFailuresFallBack
    <3>3. <<"lock", "biometricsCancelled">> \notin late'
      BY <2>1, <3>2, LockDialogFails DEF LateAfterReroot
    <3> QED BY <2>1, <3>1, <3>2, <3>3, LockDialogFails, OnPinScreen DEF NoDialog
  <2>2. CASE dialog.owner = "orphan"
    BY <1>4, <2>2, OthersDialog
       DEF TooManyFailuresFallBack, UnlockBiometricsFail, BiometricsFail
  <2> QED BY <1>4, <2>1, <2>2 DEF TooManyFailuresFallBack
<1>5. ASSUME TooManyFailuresLogOut PROVE AnswerInv'
  <2>1. UnlockBiometricsFail /\ dialog.owner = "lock" /\ UNCHANGED <<app, launching>>
        /\ UNCHANGED <<flow, late>> /\ prefs' = EmptyPreferences
    BY <1>5 DEF TooManyFailuresLogOut, KickUser, StartLogout
  <2>2. flow["lock"].mode = "unlock" /\ late' = {} /\ dialog' = NoDialog
        /\ app' # "killed" /\ ~launching'
    BY <2>1, LockDialogFails
  <2>3. UnlockInv' /\ CoverInv' /\ OwnerInv' /\ CancelInv'
    BY <2>1, <2>2, Unprotected
       DEF UnlockInv, CoverInv, OwnerInv, CancelInv, IsOpen, NoDialog
  <2> QED BY <2>3 DEF AnswerInv
<1>6. ASSUME BiometricsCancelled PROVE AnswerInv'
  <2>1. CASE dialog.owner = "lock"
    <3>1. /\ UnlockBiometricsFail /\ UNCHANGED <<flow, app, launching>>
          /\ prefs' = WithoutBiometrics(AfterBiometricsFailure(prefs))
          /\ late' = late \cup {<<"lock", "biometricsCancelled">>} /\ IsPinSet(prefs)
      BY <1>6, <2>1 DEF BiometricsCancelled
    <3>2. flow["lock"].mode = "unlock" /\ late = {} /\ dialog' = NoDialog
          /\ app' # "killed" /\ ~launching'
      BY <2>1, <3>1, LockDialogFails
    <3>3. IsPinSet(prefs')
      BY <1>0, <3>1, WrittenByCheck
    <3>4. UnlockInv' /\ CoverInv' /\ OwnerInv' /\ CancelInv'
      BY <3>1, <3>2, <3>3
         DEF UnlockInv, SomethingToAnswer, CoverInv, OwnerInv, CancelInv, IsOpen, NoDialog,
             CallbacksOf
    <3> QED BY <3>4 DEF AnswerInv
  <2>2. CASE dialog.owner = "orphan"
    BY <1>6, <2>2, OthersDialog
       DEF BiometricsCancelled, UnlockBiometricsFail, BiometricsFail
  <2> QED BY <1>6, <2>1, <2>2 DEF BiometricsCancelled, UnlockBiometricsFail
<1>7. ASSUME BiometricsCantUnlock PROVE AnswerInv'
  <2>1. CASE dialog.owner = "lock"
    <3> DEFINE f == [flow["lock"] EXCEPT !.alert = "cantUnlock"]
    <3>1. f.mode = flow["lock"].mode /\ f.alert = "cantUnlock"
      BY <1>0, FieldsKeepScreen
    <3>2. /\ UnlockBiometricsFail /\ UNCHANGED <<late, app, launching>>
          /\ flow' = [flow EXCEPT !["lock"] = f]
      BY <1>7, <2>1 DEF BiometricsCantUnlock, TypeOK, Owners
    <3>3. flow'["lock"] = f
      BY <3>2, LockFields DEF Set
    <3> HIDE DEF f
    <3>4. flow["lock"].mode = "unlock" /\ late = {} /\ dialog' = NoDialog
          /\ app' # "killed" /\ ~launching'
      BY <2>1, <3>2, LockDialogFails
    <3>5. UnlockInv' /\ CoverInv' /\ OwnerInv' /\ CancelInv'
      BY <3>1, <3>2, <3>3, <3>4
         DEF UnlockInv, SomethingToAnswer, CoverInv, OwnerInv, CancelInv, IsOpen, NoDialog
    <3> QED BY <3>5 DEF AnswerInv
  <2>2. CASE dialog.owner = "orphan"
    BY <1>7, <2>2, OthersDialog
       DEF BiometricsCantUnlock, UnlockBiometricsFail, BiometricsFail
  <2> QED BY <1>7, <2>1, <2>2 DEF BiometricsCantUnlock, UnlockBiometricsFail
<1>8. ASSUME CantUnlockRetry PROVE AnswerInv'
  <2> DEFINE f == [flow["lock"] EXCEPT !.alert = "none"]
  <2>1. f.mode = flow["lock"].mode /\ f.alert = "none"
    BY <1>0, FieldsKeepScreen
  <2>2. /\ app = "active" /\ late = {} /\ ~launching /\ UNCHANGED <<late, app, launching>>
        /\ flow' = [flow EXCEPT !["lock"] = f]
        /\ dialog' = IF IsPresenting THEN dialog ELSE LockDialog
        /\ flow["lock"].alert = "cantUnlock"
    BY <1>8 DEF CantUnlockRetry, TypeOK, Owners, Quiet
  <2>3. flow["lock"].mode = "unlock" /\ dialog.owner \in {"none", "lock"}
    BY <2>2 DEF AnswerInv, OwnerInv, CoverInv, LockModeInv, IsOpen
  <2>4. dialog'.owner = "lock"
    BY <2>2, <2>3 DEF LockDialog, IsPresenting
  <2>5. flow'["lock"] = f
    BY <2>2, LockFields DEF Set
  <2> HIDE DEF f
  <2>6. UnlockInv' /\ CoverInv' /\ OwnerInv' /\ CancelInv'
    BY <2>1, <2>2, <2>3, <2>4, <2>5
       DEF UnlockInv, SomethingToAnswer, CoverInv, OwnerInv, CancelInv, IsOpen
  <2> QED BY <2>6 DEF AnswerInv
<1>9. ASSUME CantUnlockReset PROVE AnswerInv'
  <2>1. app = "active" /\ late = {} /\ flow["lock"].alert = "cantUnlock"
        /\ UNCHANGED <<app, launching>>
    BY <1>9 DEF CantUnlockReset, Quiet
  <2>2. CASE flow["lock"].mode = "unlock" /\ IsPinSet(prefs)
    <3>1. flow' = [flow EXCEPT !["lock"] = Screen("unlock", "pin")]
          /\ late' = LateAfterReroot("lock") /\ UNCHANGED dialog
      BY <1>9, <2>2 DEF CantUnlockReset
    <3>2. flow'["lock"].mode = "unlock" /\ flow'["lock"].root = "pin"
      BY <3>1, NewRoot
    <3>3. <<"lock", "biometricsCancelled">> \notin late'
      BY <2>1, <3>1 DEF LateAfterReroot
    <3> QED BY <2>1, <2>2, <3>1, <3>2, <3>3, OnPinScreen DEF IsOpen
  <2>3. CASE ~(flow["lock"].mode = "unlock" /\ IsPinSet(prefs))
    BY <1>9, <2>1, <2>3, Released DEF CantUnlockReset, ResetByUser
  <2> QED BY <2>2, <2>3
<1>10. ASSUME BiometricsSheetCancelled PROVE AnswerInv'
  <2>1. flow'["lock"] = flow["lock"]
    BY <1>10, OnSheet DEF BiometricsSheetCancelled, SheetCompletes, Set
  <2> QED BY <1>10, <2>1, LeftAlone DEF BiometricsSheetCancelled
<1> QED BY <1>1, <1>2, <1>3, <1>4, <1>5, <1>6, <1>7, <1>8, <1>9, <1>10 DEF Biometrics

-----------------------------------------------------------------------------
(***************************************************************************)
(* The life cycle, settings, login and logout.                             *)
(***************************************************************************)

\* The lock becomes a cover, or is put up as one: no dialog is on screen.
LEMMA Covered ==
  ASSUME TypeOK, AnswerInv, ShowLock("inactive"), ~IsPresenting, UNCHANGED prefs,
         app' = "inactive", ~launching'
  PROVE  AnswerInv'
<1>1. CASE flow["lock"].mode = "inactive"
  <2>1. UNCHANGED <<flow, late, dialog>>
    BY <1>1 DEF ShowLock
  <2>2. UnlockInv' /\ CoverInv' /\ OwnerInv' /\ CancelInv'
    BY <1>1, <2>1 DEF AnswerInv, UnlockInv, CoverInv, OwnerInv, CancelInv, IsOpen
  <2> QED BY <2>2 DEF AnswerInv
<1>2. CASE flow["lock"].mode # "inactive"
  <2>1. /\ flow' = [flow EXCEPT !["lock"] =
                      Rerooted(flow["lock"], "inactive", RootFor("inactive", prefs))]
        /\ late' = LateAfterReroot("lock") /\ dialog' = dialog
    BY <1>2 DEF ShowLock, StartsDialog
  <2>2. flow'["lock"].mode = "inactive"
    BY <2>1, NewRoot
  <2>3. UnlockInv' /\ CoverInv' /\ OwnerInv' /\ CancelInv'
    BY <2>1, <2>2 DEF AnswerInv, UnlockInv, CoverInv, OwnerInv, CancelInv, IsOpen,
       IsPresenting, LateAfterReroot
  <2> QED BY <2>3 DEF AnswerInv
<1> QED BY <1>1, <1>2

\* Every event of the life cycle.
LEMMA LifeCycleAnswer ==
  ASSUME TypeOK, AnswerInv, LifeCycle PROVE AnswerInv'
<1> USE DEF lifecycleVars, accountVars
<1>1. ASSUME Launch PROVE AnswerInv'
  <2>1. dialog.owner = "none" /\ ~IsOpen("lock") /\ UNCHANGED <<flow, late, dialog>>
    BY <1>1 DEF Launch, AnswerInv, OwnerInv
  <2>2. app' # "killed"
    BY <1>1 DEF Launch
  <2> QED BY <2>1, <2>2, StaysClosed
<1>2. ASSUME LaunchConfigure PROVE AnswerInv'
  <2>1. app # "killed"
    BY <1>2 DEF LaunchConfigure, AnswerInv, OwnerInv
  <2> QED BY <1>2, <2>1, Configured DEF LaunchConfigure
<1>3. ASSUME BecomeActive \/ EnterForeground PROVE AnswerInv'
  <2>1. ConfigurePinCodeScreen(FALSE) /\ UNCHANGED <<prefs, launching>>
        /\ app # "killed" /\ app' # "killed"
    BY <1>3 DEF BecomeActive, EnterForeground
  <2> QED BY <2>1, Configured DEF TypeOK
<1>4. ASSUME ResignActive PROVE AnswerInv'
  <2>1. app' = "inactive" /\ ~launching' /\ UNCHANGED prefs
    BY <1>4 DEF ResignActive
  <2>2. CASE IsProtectionSet(prefs) /\ ~IsPresenting
    BY <1>4, <2>1, <2>2, Covered DEF ResignActive
  <2>3. CASE ~(IsProtectionSet(prefs) /\ ~IsPresenting)
    BY <1>4, <2>1, <2>3, LeftAlone DEF ResignActive
  <2> QED BY <2>2, <2>3
<1>5. ASSUME EnterBackground \/ Tick PROVE AnswerInv'
  BY <1>5, LeftAlone DEF EnterBackground, Tick
<1>6. ASSUME Kill PROVE AnswerInv'
  <2>1. flow'["lock"] = Closed /\ late' = {} /\ dialog' = NoDialog /\ ~launching'
    BY <1>6 DEF Kill, Owners
  <2> QED BY <2>1, ClosedAnswer DEF Closed, Screen, IsOpen, NoDialog
<1> QED BY <1>1, <1>2, <1>3, <1>4, <1>5, <1>6 DEF LifeCycle

\* The settings, login and logout.
LEMMA SessionAnswer ==
  ASSUME TypeOK, AnswerInv, Session PROVE AnswerInv'
<1> USE DEF lifecycleVars, accountVars
<1>1. ASSUME NEW mode, OpenSheet(mode) PROVE AnswerInv'
  BY <1>1, OnSheet, LeftAlone DEF OpenSheet, Set
<1>2. ASSUME Login PROVE AnswerInv'
  BY <1>2, LeftAlone DEF Login
<1>3. ASSUME SignOut PROVE AnswerInv'
  BY <1>3, StaysClosed DEF SignOut, InUse, AnswerInv, OwnerInv, IsOpen
<1>4. ASSUME LogoutFinished PROVE AnswerInv'
  <2>1. flow'["lock"] = flow["lock"]
    BY <1>4, OnSheet DEF LogoutFinished, ReleaseSheet, Set
  <2>2. /\ UNCHANGED <<app, launching>> /\ prefs' = EmptyPreferences
        /\ late' = late \ CallbacksOf("sheet")
        /\ dialog' = IF dialog.owner = "sheet"
                     THEN [dialog EXCEPT !.owner = "sheetOrphan"] ELSE dialog
    BY <1>4 DEF LogoutFinished, ReleaseSheet
  <2>3. <<"lock", "biometricsCancelled">> \in late'
          <=> <<"lock", "biometricsCancelled">> \in late
    BY <2>2 DEF CallbacksOf
  <2>4. CASE IsOpen("lock")
    <3>1. dialog' = dialog /\ app' # "killed"
      BY <2>2, <2>4 DEF AnswerInv, OwnerInv
    <3> QED BY <2>1, <2>2, <2>3, <2>4, <3>1, Unprotected, StaysOpen
  <2>5. CASE ~IsOpen("lock")
    <3>1. dialog'.owner # "lock" /\ (dialog.owner = "none" => dialog'.owner = "none")
      BY <2>2, <2>5 DEF AnswerInv, OwnerInv, IsOpen, TypeOK, Dialogs
    <3>2. /\ launching' \/ app' = "killed" => dialog'.owner = "none"
          /\ launching' => app' # "killed"
      BY <2>2, <3>1 DEF AnswerInv, OwnerInv
    <3> QED BY <2>1, <2>3, <2>5, <3>1, <3>2, StaysClosed
  <2> QED BY <2>4, <2>5
<1> QED BY <1>1, <1>2, <1>3, <1>4 DEF Session, SwitchToggled, ForcedPinAtLogin

-----------------------------------------------------------------------------
(***************************************************************************)
(* Biometrics are suspended only with a PIN.                               *)
(***************************************************************************)

\* The sheet's right PIN, typed and about to be removed, switched biometrics on.
SuspendedInv ==
  /\ BiometricsSuspendedOnlyWithPin
  /\ <<"sheet", "complete">> \in late => prefs.canUseBiometricsToUnlock

\* What each write to the keychain leaves of biometrics and of the PIN.
LEMMA WrittenToBiometrics ==
  ASSUME NEW p \in Preferences
  PROVE  /\ AfterSuccess(p).canUseBiometricsToUnlock
         /\ EmptyPreferences.canUseBiometricsToUnlock
         /\ AfterWrongPin(p).pin = p.pin
         /\ AfterWrongPin(p).biometricsEnabled = p.biometricsEnabled
         /\ AfterWrongPin(p).canUseBiometricsToUnlock = p.canUseBiometricsToUnlock
         /\ AfterBiometricsFailure(p).pin = p.pin
         /\ AfterBiometricsFailure(p).biometricsEnabled = p.biometricsEnabled
         /\ AfterBiometricsFailure(p).canUseBiometricsToUnlock = p.canUseBiometricsToUnlock
         /\ WithoutBiometrics(AfterBiometricsFailure(p)).pin = p.pin
BY DEF AfterSuccess, AfterWrongPin, AfterBiometricsFailure, WithoutBiometrics,
       EmptyPreferences, Preferences

\* A step keeps SuspendedInv when failures never log out.
LEMMA SuspendedStep ==
  ASSUME ~LogOutOnPinFailures, ~LogOutOnBiometricsFailures,
         TypeOK, IInv, SuspendedInv, [Next]_vars
  PROVE  SuspendedInv'
<1> USE DEF lifecycleVars, accountVars
<1>0. prefs \in Preferences /\ \A p : ~ShouldLogOutUser(p)
  BY DEF TypeOK, ShouldLogOutUser
<1>1. ASSUME prefs'.canUseBiometricsToUnlock PROVE SuspendedInv'
  BY <1>1 DEF SuspendedInv, BiometricsSuspendedOnlyWithPin
<1>2. ASSUME prefs'.pin = prefs.pin,
             prefs'.biometricsEnabled = prefs.biometricsEnabled,
             prefs'.canUseBiometricsToUnlock = prefs.canUseBiometricsToUnlock,
             <<"sheet", "complete">> \in late' => <<"sheet", "complete">> \in late
      PROVE  SuspendedInv'
  BY <1>2 DEF SuspendedInv, BiometricsSuspendedOnlyWithPin, IsPinSet
<1>3. ASSUME prefs' = EmptyPreferences PROVE SuspendedInv'
  BY <1>0, <1>1, <1>3, WrittenToBiometrics
<1>4. ASSUME UNCHANGED prefs,
             <<"sheet", "complete">> \in late' => <<"sheet", "complete">> \in late
      PROVE  SuspendedInv'
  BY <1>2, <1>4
<1>5. ASSUME PinEntry PROVE SuspendedInv'
  <2>1. ASSUME NEW o \in Owners, NEW pin \in Pins, RightPinTyped(o, pin)
        PROVE  SuspendedInv'
    BY <1>0, <1>1, <2>1, WrittenToBiometrics DEF RightPinTyped
  <2>2. ASSUME NEW o \in Owners, NEW pin \in Pins,
               WrongPinRetry(o, pin) \/ WrongPinTooManyTimes(o, pin)
        PROVE  SuspendedInv'
    <3>1. prefs' = AfterWrongPin(prefs) /\ late' \subseteq late \cup {<<o, "wrongPin">>}
      BY <2>2 DEF WrongPinRetry, WrongPinTooManyTimes
    <3> QED BY <1>0, <1>2, <3>1, WrittenToBiometrics
  <2>3. ASSUME NEW o \in Owners,
               DeleteTapped(o) \/ TooManyTimesAcknowledged(o) \/ ChoosePin(o)
        PROVE  SuspendedInv'
    <3>1. UNCHANGED prefs /\ late' \subseteq late \cup {<<o, "chosen">>}
      BY <2>3 DEF DeleteTapped, TooManyTimesAcknowledged, ChoosePin, NotAllowedPinTyped,
         FirstPinTyped, SecondPinMatches, SecondPinDiffers, PinsDontMatchAcknowledged,
         OnlyFlow
    <3> QED BY <1>4, <3>1
  <2>4. ASSUME ForgotPinReset \/ \E pin \in Pins : WrongPinLogsOut(pin)
        PROVE  SuspendedInv'
    BY <1>3, <2>4 DEF ForgotPinReset, ResetByUser, WrongPinLogsOut, KickUser, StartLogout
  <2>5. ASSUME ForgotPinPressed \/ ForgotPinCancelled \/ PinSheetCancelled
        PROVE  SuspendedInv'
    BY <1>4, <2>5 DEF ForgotPinPressed, ForgotPinCancelled, PinSheetCancelled, OnlyFlow
  <2> QED BY <1>5, <2>1, <2>2, <2>3, <2>4, <2>5 DEF PinEntry, CheckPin, Owners
<1>6. ASSUME Delayed PROVE SuspendedInv'
  <2>1. ASSUME PinChosen("sheet") PROVE SuspendedInv'
    <3>1. flow["sheet"].firstPin # NoPin
      BY <2>1, PinAssumption
         DEF PinChosen, IInv, SheetInv, PendingPinIsKept, PinAssumption
    <3>2. /\ prefs'.pin # NoPin
          /\ prefs'.canUseBiometricsToUnlock = prefs.canUseBiometricsToUnlock
          /\ <<"sheet", "complete">> \in late' => <<"sheet", "complete">> \in late
      BY <1>0, <2>1, <3>1 DEF PinChosen, Preferences
    <3> QED BY <3>2 DEF SuspendedInv, BiometricsSuspendedOnlyWithPin, IsPinSet
  <2>2. ASSUME PinCompletes PROVE SuspendedInv'
    <3>1. CASE UNCHANGED prefs /\ late' \subseteq late
      BY <1>4, <3>1
    <3>2. CASE <<"sheet", "complete">> \in late
               /\ prefs' = [prefs EXCEPT !.pin =
                              IF flow["sheet"].mode = "confirmPinToDeactivate"
                              THEN NoPin ELSE @]
      <4>1. prefs'.canUseBiometricsToUnlock
        BY <1>0, <3>2 DEF SuspendedInv, Preferences
      <4> QED BY <1>1, <4>1
    <3> QED BY <2>2, <3>1, <3>2 DEF PinCompletes, ReleaseLock
  <2>3. ASSUME BiometricsSucceed PROVE SuspendedInv'
    <3>1. prefs' = AfterSuccess(prefs) \/ prefs' = AfterToggle(prefs)
      BY <2>3 DEF BiometricsSucceed
    <3>2. AfterToggle(prefs).canUseBiometricsToUnlock
      BY <1>0 DEF AfterToggle, AfterSuccess, Preferences
    <3> QED BY <1>0, <1>1, <3>1, <3>2, WrittenToBiometrics
  <2>4. ASSUME FallBackToPin \/ \E o \in Owners : WipeWrongPin(o) PROVE SuspendedInv'
    BY <1>4, <2>4 DEF FallBackToPin, WipeWrongPin, LateAfterReroot
  <2> QED BY <1>6, <2>1, <2>2, <2>3, <2>4 DEF Delayed
<1>7. ASSUME Biometrics PROVE SuspendedInv'
  <2>1. ASSUME BiometricsCancelled PROVE SuspendedInv'
    <3>1. /\ late = {} /\ IsPinSet(prefs)
          /\ prefs' = WithoutBiometrics(AfterBiometricsFailure(prefs))
          /\ late' \subseteq {<<"lock", "biometricsCancelled">>}
      BY <2>1 DEF BiometricsCancelled, UnlockBiometricsFail, BiometricsFail, Quiet
    <3>2. IsPinSet(prefs')
      BY <1>0, <3>1, WrittenToBiometrics DEF IsPinSet
    <3> QED BY <3>1, <3>2 DEF SuspendedInv, BiometricsSuspendedOnlyWithPin
  <2>2. ASSUME BiometricsCantUnlock PROVE SuspendedInv'
    BY <1>0, <1>2, <2>2, WrittenToBiometrics DEF BiometricsCantUnlock
  <2>3. ~TooManyFailuresFallBack /\ ~TooManyFailuresLogOut
    BY <1>0 DEF TooManyFailuresFallBack, TooManyFailuresLogOut, TooManyFailures
  <2>4. ASSUME CantUnlockReset PROVE SuspendedInv'
    BY <1>3, <1>4, <2>4 DEF CantUnlockReset, ResetByUser, StartLogout, LateAfterReroot
  <2>5. ASSUME \/ ToggleBiometricsTapped \/ BiometricsAccepted \/ SheetBiometricsFail
               \/ CantUnlockRetry \/ BiometricsSheetCancelled
        PROVE  SuspendedInv'
    BY <1>4, <2>5 DEF ToggleBiometricsTapped, BiometricsAccepted, SheetBiometricsFail,
       CantUnlockRetry, BiometricsSheetCancelled
  <2> QED BY <1>7, <2>1, <2>2, <2>3, <2>4, <2>5 DEF Biometrics
<1>8. ASSUME LifeCycle PROVE SuspendedInv'
  BY <1>4, <1>8 DEF LifeCycle, Launch, LaunchConfigure, BecomeActive, ResignActive,
     EnterBackground, EnterForeground, Kill, Tick, ConfigurePinCodeScreen, ReleaseLock,
     ShowLock, LateAfterReroot
<1>9. ASSUME Session PROVE SuspendedInv'
  BY <1>3, <1>4, <1>9 DEF Session, SwitchToggled, ForcedPinAtLogin, OpenSheet, Login,
     SignOut, StartLogout, LogoutFinished
<1>10. ASSUME UNCHANGED vars PROVE SuspendedInv'
  BY <1>4, <1>10 DEF vars
<1> QED BY <1>5, <1>6, <1>7, <1>8, <1>9, <1>10 DEF Next

-----------------------------------------------------------------------------
(***************************************************************************)
(* The theorems.                                                           *)
(***************************************************************************)

\* The invariant that keeps the lock answerable.
LEMMA AnswerInvariance == Spec => []AnswerInv
<1>1. ASSUME Init PROVE AnswerInv
  <2>1. flow["lock"] = Closed /\ late = {} /\ dialog = NoDialog /\ ~launching
    BY <1>1 DEF Init, Owners
  <2> QED BY <2>1 DEF AnswerInv, UnlockInv, CoverInv, OwnerInv, CancelInv, IsOpen,
              Closed, Screen, NoDialog
<1>2. ASSUME IInv, AnswerInv, [Next]_vars PROVE AnswerInv'
  <2>1. CASE UNCHANGED vars
    BY <1>2, <2>1, LeftAlone DEF vars, IInv
  <2> QED BY <1>2, <2>1, PinEntryAnswer, DelayedAnswer, BiometricsAnswer,
             LifeCycleAnswer, SessionAnswer DEF Next, IInv
<1> QED BY <1>1, <1>2, Invariance, PTL DEF Spec

\* An active application with a protected account never shows a lock that offers
\* nothing to answer, for every build setting (SetPinCoordinator.swift:174).
THEOREM Answerable == Spec => []LockIsAnswerable
<1>1. IInv /\ AnswerInv => LockIsAnswerable
  BY DEF IInv, LockModeInv, AnswerInv, UnlockInv, CoverInv, SomethingToAnswer,
     LockIsAnswerable, IsOpen
<1> QED BY <1>1, Invariance, AnswerInvariance, PTL

\* With the switches the application ships, which never log out on failures, for
\* every limit and every PIN: biometrics are suspended only with a PIN to fall back
\* on (SetupBiometricsViewModel.swift:92).  A build that logs out and does not
\* force a PIN loses this, see the README.
THEOREM SuspendedWithPin ==
  ASSUME ~LogOutOnPinFailures, ~LogOutOnBiometricsFailures
  PROVE  Spec => []BiometricsSuspendedOnlyWithPin
<1>1. Init => SuspendedInv
  BY DEF Init, SuspendedInv, BiometricsSuspendedOnlyWithPin, EmptyPreferences
<1>2. TypeOK /\ IInv /\ SuspendedInv /\ [Next]_vars => SuspendedInv'
  BY SuspendedStep
<1>3. SuspendedInv => BiometricsSuspendedOnlyWithPin
  BY DEF SuspendedInv
<1> QED BY <1>1, <1>2, <1>3, TypeCorrect, Invariance, PTL DEF Spec

=============================================================================
