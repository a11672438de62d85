SPECIFICATION FairSpec
CONSTANTS
  Kinds = {"text", "empty", "fragmented", "interrupted", "ping", "close"}
  Lengths = {0, 1, 125, 126, 127, 65535, 65536}
  MaxMessages = 2
  MaxOpens = 2
  None = None
INVARIANTS
  MessagesWhole
  LengthsKept
PROPERTIES
  EachDelivered
CHECK_DEADLOCK FALSE
