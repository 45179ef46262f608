CONSTANTS
  Senders = {w1}
  Main = Main
  MaxSends = 2
  MaxFrames = 2
SPECIFICATION FairSpec
INVARIANTS
  OneWriteAtATime
  QueueIsServed
  OnlySendsUnderWayFollowClose
  RegistersFirst
  RunOutlivesConnection
PROPERTIES
  StateOnlyAdvances
  KeepsOrder
  RunReturnsInTheEnd
  AcceptedIsTransmitted
CHECK_DEADLOCK FALSE
