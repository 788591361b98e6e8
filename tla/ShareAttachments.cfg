\* Two attachments of any kind, shared to two rooms. CHECK_DEADLOCK is off
\* because the process ends.
SPECIFICATION Spec
CONSTANTS
  Attachments = {a1, a2}
  MaxShares = 2
SYMMETRY AttachmentSymmetry
CHECK_DEADLOCK FALSE
INVARIANTS
  TypeOK
  GroupCountsWhatIsOnItsWay
  NothingIsCutOff
  CompletedWithoutError
