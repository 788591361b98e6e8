\* A request in the clear, two encrypted messages; decrypted contents hidden.
SPECIFICATION Spec
CONSTANTS
  e1 = e1
  e2 = e2
  e3 = e3
  NoEvent = NoEvent
  Events <- BurstEvents
  Kind <- BurstKind
  Encrypted <- BurstEncrypted
  OtherToDevice = {}
  ShowDecrypted = FALSE
SYMMETRY BurstSymmetry
INVARIANTS
  ExtensionInv
  WaitersAreHeld
  ShownContentIsPermitted
