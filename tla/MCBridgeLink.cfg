SPECIFICATION FairSpec
CONSTANTS
  FRAME_SIZE = 3
  ANSWERS = 3
  MaxMessages = 4
  UdpCapacity = 2
  Ignored = {1}
  Faults = {"late", "loss", "stop", "setup"}
INVARIANTS
  TypeOK
  NoAnswerSkipped
  TransactionComplete
  AllReleased
PROPERTIES
  ImplementsChannel
  KeepsServing
CHECK_DEADLOCK FALSE
