\* Lists of two and gaps of two, so that five messages of each device fill both lists
\* and leave gaps that are too large.
SPECIFICATION Spec
CONSTANTS
  MAX_RECEIVER_CHAINS = 2
  MAX_SKIPPED_MESSAGE_KEYS = 2
  MAX_MESSAGE_GAP = 2
  NoSession = NoSession
  MaxSent = 5
INVARIANTS
  TypeOK
  NextMessageIsReadable
  UnreadIsReadable
  ReadKeysAreGone
PROPERTIES
  ChannelSpec
CHECK_DEADLOCK FALSE
