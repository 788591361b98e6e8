------------------------- MODULE PinCodePreferences -------------------------
(***************************************************************************)
(* The keychain entries behind the PIN lock (PinCodePreferences.swift) and *)
(* the two questions LocalAuthenticationService.swift asks of them, as     *)
(* operators over a record `p`.  The record is persistent: it survives the *)
(* death of the process.                                                   *)
(*                                                                         *)
(* The keychain booleans are optional in the code.  biometricsEnabled is   *)
(* only ever compared with true, so nil is FALSE; canUseBiometricsToUnlock *)
(* is only ever nil or false and reads as "?? true", so nil is TRUE.       *)
(***************************************************************************)
EXTENDS Integers

CONSTANTS
  Pins,                  \* the PINs a user can type (four digits each)
  NoPin,                 \* pin == nil
  NotAllowedPINs,        \* BuildSettings.notAllowedPINs
  ForcePinProtection,    \* BuildSettings.forcePinProtection
  IsBiometricsAvailable, \* LAContext().canEvaluatePolicy(...)
  MaxPinFailures,        \* BuildSettings.maxAllowedNumberOfPinFailures
  MaxBiometricsFailures, \* BuildSettings.maxAllowedNumberOfBiometricsFailures
  LogOutOnPinFailures,   \* BuildSettings.logOutUserWhenPINFailuresExceeded
  LogOutOnBiometricsFailures,
                         \* BuildSettings.logOutUserWhenBiometricsFailuresExceeded
  TrialsBeforeAlert,     \* allowedNumberOfTrialsBeforeAlert
  Grace,                 \* BuildSettings.pinCodeGraceTimeInSeconds
  FailureBound           \* bound on both failure counters (model only)

ASSUME PinAssumption ==
  /\ NoPin \notin Pins
  /\ NotAllowedPINs \subseteq Pins

ASSUME SwitchAssumption ==
  /\ ForcePinProtection \in BOOLEAN
  /\ IsBiometricsAvailable \in BOOLEAN
  /\ LogOutOnPinFailures \in BOOLEAN
  /\ LogOutOnBiometricsFailures \in BOOLEAN

ASSUME LimitAssumption ==
  /\ MaxPinFailures \in Nat \ {0}
  /\ MaxBiometricsFailures \in Nat \ {0}
  /\ TrialsBeforeAlert \in Nat \ {0}
  /\ Grace \in Nat
  /\ FailureBound \in Nat \ {0}

Preferences ==
  [pin : Pins \cup {NoPin},
   biometricsEnabled : BOOLEAN,
   canUseBiometricsToUnlock : BOOLEAN,
   numberOfPinFailures : Nat,
   numberOfBiometricsFailures : Nat]

EmptyPreferences ==
  [pin |-> NoPin,
   biometricsEnabled |-> FALSE,
   canUseBiometricsToUnlock |-> TRUE,
   numberOfPinFailures |-> 0,
   numberOfBiometricsFailures |-> 0]

IsPinSet(p) == p.pin # NoPin

IsBiometricsSet(p) == p.biometricsEnabled /\ p.canUseBiometricsToUnlock

IsProtectionSet(p) == IsPinSet(p) \/ IsBiometricsSet(p)

\* Both failure counters together: either one over its limit logs out.
ShouldLogOutUser(p) ==
  \/ LogOutOnPinFailures /\ p.numberOfPinFailures >= MaxPinFailures
  \/ /\ LogOutOnBiometricsFailures
     /\ p.numberOfBiometricsFailures >= MaxBiometricsFailures

\* What every successful authentication writes, by PIN or by biometrics:
\* biometrics may be used again and both counters restart.
AfterSuccess(p) ==
  [p EXCEPT !.canUseBiometricsToUnlock = TRUE,
            !.numberOfPinFailures = 0,
            !.numberOfBiometricsFailures = 0]

\* Mutant of AfterWrongPin: the counter runs down.
AfterWrongPinCountsDown(p) == [p EXCEPT !.numberOfPinFailures = @ - 1]

AfterWrongPin(p) == [p EXCEPT !.numberOfPinFailures = @ + 1]

AfterBiometricsFailure(p) == [p EXCEPT !.numberOfBiometricsFailures = @ + 1]

WithoutBiometrics(p) == [p EXCEPT !.canUseBiometricsToUnlock = FALSE]

=============================================================================
