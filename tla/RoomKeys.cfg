SPECIFICATION Spec
CONSTANTS
  Events = {"early", "late"}
  IndexOf <- MCIndexOf
  Keys = {0, 2}
  Nothing = Nothing
  NoRequest = NoRequest
  MaxInputs = 4
INVARIANTS
  TypeOK
  FailedIsRemembered
  RequestIsLookedAt
  CountedOnce
PROPERTIES
  RequestIsKept
CHECK_DEADLOCK FALSE
