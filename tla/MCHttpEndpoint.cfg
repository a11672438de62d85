SPECIFICATION FairSpec
CONSTANTS
  Kinds = {"none", "empty", "length", "chunked", "bad"}
  MaxMessages = 2
  MaxSends = 2
  MaxOpens = 2
  Environments <- Mixes
  MaxClosing = 1
  FileChunks = 1
  None = None
INVARIANTS
  DispatchedWhole
  OwnOptions
  FilesContiguous
PROPERTIES
  EachDispatched
CHECK_DEADLOCK FALSE
