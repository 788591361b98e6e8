\* Liveness: an encrypted message beside a call in the clear.
SPECIFICATION FairSpec
CONSTANTS
  e1 = e1
  e2 = e2
  e3 = e3
  NoEvent = NoEvent
  Events <- PairEvents
  Kind <- PairKind
  Encrypted <- PairEncrypted
  OtherToDevice = {o1}
  ShowDecrypted = TRUE
PROPERTIES
  PlainPushIsShown
  SyncedPushIsShown
