SPECIFICATION Spec
CONSTANTS
  Events = {"early", "late"}
  IndexOf <- MCIndexOf
  Keys = {0, 2}
  Nothing = Nothing
  NoRequest = NoRequest
  MaxInputs = 4
PROPERTIES
  KeepsTheBetterKey
CHECK_DEADLOCK FALSE
