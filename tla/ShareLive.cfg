\* Liveness, without symmetry: three attachments, one share.
SPECIFICATION FairSpec
CONSTANTS
  Attachments = {a1, a2, a3}
  MaxShares = 1
CHECK_DEADLOCK FALSE
PROPERTIES
  ShareEnds
