CONSTANTS
  PeerFrames <- MCPeerFrames
  MaxFrames = 3
  BasicSize = 1
  ExtendedSize = 2
  MaxMessageSize = 3
  WordSize = 8
  BufferSize = 4
SPECIFICATION FairSpec
INVARIANTS
  DeliversWhatArrived
  FailsAtBadFrame
  SmallFramesMeetLimit
PROPERTY
  AllIsRead
CHECK_DEADLOCK FALSE
