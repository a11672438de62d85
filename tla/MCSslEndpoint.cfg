SPECIFICATION FairSpec
CONSTANTS
  MaxBackpressureBytes = 4
  Sizes = {0, 2}
  MaxSends = 3
  MaxOpens = 2
  MaxCloses = 1
  None = None
INVARIANTS
  BackpressureBounded
  EachSendOnce
  WireOrder
PROPERTIES
  AsyncCompletes
  OpenAnswered
