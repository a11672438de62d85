SPECIFICATION FairSpec
CONSTANTS
  k1 = k1
  k2 = k2
  Clients <- MCClients
  MaxChannels = 2
  Capacity = 1
  MaxPushes = 3
  Handlers = {"default", "reject"}
  NoClient = NoClient
  NoChannel = NoChannel
INVARIANTS
  ChannelsOwned
  EachInOrder
  DrainerAlive
PROPERTIES
  Delivered
CHECK_DEADLOCK FALSE
