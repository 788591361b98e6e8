\* As AppLockShipped with a forced PIN, one PIN of two refused; two wrong PINs or
\* two failures of biometrics log the user out. Liveness too.
SPECIFICATION FairSpec
CONSTANTS
  Pins = {p1, p2}
  NoPin = NoPin
  NotAllowedPINs = {p2}
  ForcePinProtection = TRUE
  IsBiometricsAvailable = TRUE
  MaxPinFailures = 2
  MaxBiometricsFailures = 2
  LogOutOnPinFailures = TRUE
  LogOutOnBiometricsFailures = TRUE
  TrialsBeforeAlert = 3
  Grace = 0
  FailureBound = 3
INVARIANTS
  IInv
  LockIsAnswerable
  PendingPinIsKept
  WrongTriesBounded
PROPERTIES
  AcceptedCredentialUnlocks
  BiometricsFallsBackToPin
