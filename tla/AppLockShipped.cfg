\* The shipped build settings: no forced PIN, no forced logout, grace 0.
SPECIFICATION Spec
CONSTANTS
  Pins = {p1, p2}
  NoPin = NoPin
  NotAllowedPINs = {}
  ForcePinProtection = FALSE
  IsBiometricsAvailable = TRUE
  MaxPinFailures = 3
  MaxBiometricsFailures = 5
  LogOutOnPinFailures = FALSE
  LogOutOnBiometricsFailures = FALSE
  TrialsBeforeAlert = 2
  Grace = 0
  FailureBound = 2
INVARIANTS
  TypeOK
  BiometricsSuspendedOnlyWithPin
  LockIsAnswerable
PROPERTIES
  UnlockNeedsAReason
SYMMETRY PinSymmetry
