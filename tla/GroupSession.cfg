\* Bytes of three values: a counter of 81, every part is rekeyed within 28 messages.
SPECIFICATION Spec
CONSTANTS
  PartSize = 3
  Inbounds = {s1, s2}
  NoSession = NoSession
  MaxMessages = 28
  SharedAt = {8, 25}
SYMMETRY InboundSymmetry
INVARIANTS
  TypeOK
  KnownMessagesAreRead
  HistoryIsNotRead
  KeysAreFresh
PROPERTIES
  HistorySpec
CHECK_DEADLOCK FALSE
