SPECIFICATION RingSpec
CONSTANTS
  m1 = m1
  m2 = m2
  Messages <- MCMessages
  QueueSize = 2
  NoMessage = NoMessage
INVARIANTS
  HandledIntact
PROPERTY
  ChannelPromise
